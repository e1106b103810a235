-------------------------- MODULE GitLibraryProofs --------------------------
(***************************************************************************)
(* Proofs about GitLibrary.  MCGitLibraryConcurrent shows that two         *)
(* overlapping pull() calls can move LastCommit back to an older commit;  *)
(* the theorem here shows that the overlap is the whole cause: with a     *)
(* single caller of pull(), whatever pushes land during start-up or       *)
(* between the awaits and whichever fetch or merge raises, LastCommit     *)
(* never moves back, for every bound on commits and pulls.                *)
(***************************************************************************)
EXTENDS GitLibrary, TLAPS

\* What the bounds of the model must be.
GitConstants ==
    /\ MaxCommit \in Nat \ {0}
    /\ MaxPulls \in Nat
    /\ Faults \in BOOLEAN

\* pull() has a single caller, so no call starts while another is in
\* progress.
SerialPulls == \A c, d \in Callers : c = d

LEMMA GitTypeInit ==
    ASSUME GitConstants
    PROVE  GitInit => GitTypeOK
BY DEF GitConstants, GitInit, GitTypeOK, Commits, NoCommit, BootStages

LEMMA GitTypeStep ==
    ASSUME GitConstants
    PROVE  GitTypeOK /\ [GitNext]_gitVars => GitTypeOK'
<1> SUFFICES ASSUME GitTypeOK, [GitNext]_gitVars PROVE GitTypeOK'
    OBVIOUS
<1>1. CASE CheckRemote
    BY <1>1 DEF GitTypeOK, CheckRemote, BootStages
<1>2. CASE UpdateCachedClone
    BY <1>2 DEF GitTypeOK, UpdateCachedClone, BootStages
<1>3. CASE RemoteCommit
    BY <1>3 DEF GitConstants, GitTypeOK, RemoteCommit, Commits
<1>4. ASSUME NEW c \in Callers, StartPull(c) PROVE GitTypeOK'
    BY <1>4 DEF GitConstants, GitTypeOK, StartPull, Commits
<1>5. ASSUME NEW c \in Callers, Fetch(c) PROVE GitTypeOK'
    BY <1>5 DEF GitTypeOK, Fetch
<1>6. ASSUME NEW c \in Callers, FetchReturned(c) PROVE GitTypeOK'
    BY <1>6 DEF GitTypeOK, FetchReturned
<1>7. ASSUME NEW c \in Callers, Merge(c) PROVE GitTypeOK'
    BY <1>7 DEF GitTypeOK, Merge
<1>8. CASE UNCHANGED gitVars
    BY <1>8 DEF GitTypeOK, gitVars
<1>9. QED
    BY <1>1, <1>2, <1>3, <1>4, <1>5, <1>6, <1>7, <1>8 DEF GitNext

\* Type correctness of the provider model: the remote HEAD, LastCommit (or
\* None), the merged commit and each pull's fetched commit_id are commits,
\* start-up is in one of its stages, and the pull counters stay bounded.
THEOREM GitTypeCorrect ==
    ASSUME GitConstants
    PROVE  GitSpec => []GitTypeOK
BY GitTypeInit, GitTypeStep, PTL DEF GitSpec

-----------------------------------------------------------------------------
(***************************************************************************)
(* The inductive invariant.  A step can only move LastCommit back if it   *)
(* records an older commit than the one recorded, so the invariant bounds *)
(* what can be recorded: LastCommit and every fetched commit_id are at    *)
(* most the remote HEAD (which only grows); no pull runs before           *)
(* __init__ has finished (_check_remote's recording of the remote HEAD   *)
(* must not overtake a fetched id); and, with a single caller, a fetched  *)
(* commit_id is at least LastCommit, because LastCommit changed last      *)
(* before that fetch.                                                      *)
(***************************************************************************)
NeverBackIInv ==
    /\ GitTypeOK
    /\ lastCommit <= remote
    /\ boot # "serving" => \A c \in Callers : pc[c] = "idle"
    /\ \A c \in Callers :
          /\ cid[c] <= remote
          /\ pc[c] = "fetched" => lastCommit <= cid[c]

LEMMA NeverBackIInvInit ==
    ASSUME GitConstants
    PROVE  GitInit => NeverBackIInv
BY GitTypeInit DEF NeverBackIInv, GitInit, NoCommit

LEMMA NeverBackIInvStep ==
    ASSUME GitConstants, SerialPulls
    PROVE  NeverBackIInv /\ [GitNext]_gitVars => NeverBackIInv'
<1> SUFFICES ASSUME NeverBackIInv, [GitNext]_gitVars PROVE NeverBackIInv'
    OBVIOUS
<1>1. GitTypeOK'
    BY GitTypeStep DEF NeverBackIInv
<1>2. CASE CheckRemote
    \* No pull has started, so recording the remote HEAD overtakes nothing.
    <2>1. \A c \in Callers : pc'[c] = "idle"
        BY <1>2 DEF NeverBackIInv, CheckRemote
    <2>2. lastCommit' <= remote'
        BY <1>2 DEF NeverBackIInv, GitTypeOK, CheckRemote, Commits, NoCommit
    <2>3. \A c \in Callers : cid'[c] <= remote'
        BY <1>2 DEF NeverBackIInv, CheckRemote
    <2>4. QED
        BY <1>1, <2>1, <2>2, <2>3 DEF NeverBackIInv
<1>3. CASE UpdateCachedClone
    BY <1>1, <1>3 DEF NeverBackIInv, GitTypeOK, UpdateCachedClone
<1>4. CASE RemoteCommit
    BY <1>1, <1>4 DEF NeverBackIInv, GitTypeOK, RemoteCommit, Commits
<1>5. ASSUME NEW c \in Callers, StartPull(c) PROVE NeverBackIInv'
    BY <1>1, <1>5 DEF NeverBackIInv, GitTypeOK, StartPull
<1>6. ASSUME NEW c \in Callers, Fetch(c) PROVE NeverBackIInv'
    BY <1>1, <1>6 DEF NeverBackIInv, GitTypeOK, Fetch, Commits, NoCommit
<1>7. ASSUME NEW c \in Callers, FetchReturned(c) PROVE NeverBackIInv'
    \* c is the only caller, and it leaves "fetched".
    <2>1. \A d \in Callers : d = c
        BY DEF SerialPulls
    <2>2. QED
        BY <1>1, <1>7, <2>1 DEF NeverBackIInv, GitTypeOK, FetchReturned
<1>8. ASSUME NEW c \in Callers, Merge(c) PROVE NeverBackIInv'
    BY <1>1, <1>8 DEF NeverBackIInv, GitTypeOK, Merge
<1>9. CASE UNCHANGED gitVars
    BY <1>1, <1>9 DEF NeverBackIInv, gitVars
<1>10. QED
    BY <1>2, <1>3, <1>4, <1>5, <1>6, <1>7, <1>8, <1>9 DEF GitNext

\* Under the invariant, no step moves LastCommit back.
LEMMA NeverBackStep ==
    ASSUME GitConstants
    PROVE  NeverBackIInv /\ [GitNext]_gitVars => [lastCommit' >= lastCommit]_gitVars
<1> SUFFICES ASSUME NeverBackIInv, [GitNext]_gitVars
             PROVE  lastCommit' >= lastCommit
    BY DEF gitVars
<1>1. lastCommit \in Nat
    BY DEF NeverBackIInv, GitTypeOK, Commits, NoCommit
<1>2. CASE CheckRemote
    BY <1>1, <1>2 DEF NeverBackIInv, GitTypeOK, CheckRemote, Commits
<1>3. ASSUME NEW c \in Callers, FetchReturned(c) PROVE lastCommit' >= lastCommit
    BY <1>1, <1>3 DEF NeverBackIInv, FetchReturned
<1>4. CASE UpdateCachedClone \/ RemoteCommit \/ UNCHANGED gitVars
    BY <1>1, <1>4 DEF UpdateCachedClone, RemoteCommit, gitVars
<1>5. ASSUME NEW c \in Callers, StartPull(c) \/ Fetch(c) \/ Merge(c)
      PROVE  lastCommit' >= lastCommit
    BY <1>1, <1>5 DEF StartPull, Fetch, Merge
<1>6. QED
    BY <1>2, <1>3, <1>4, <1>5 DEF GitNext

\* With a single caller of pull(), LastCommit never moves back to an older
\* commit: neither a push between the clone and _check_remote, nor the
\* cached clone's second fetch, nor a failing fetch or merge can make
\* pull() record a commit older than the recorded one.  Two callers can
\* (MCGitLibraryConcurrent, git.py line 84).
THEOREM SerialPullsNeverBack ==
    ASSUME GitConstants, SerialPulls
    PROVE  GitSpec => LastCommitNeverBack
<1>1. GitInit => NeverBackIInv
    BY NeverBackIInvInit
<1>2. NeverBackIInv /\ [GitNext]_gitVars => NeverBackIInv'
    BY NeverBackIInvStep
<1>3. NeverBackIInv /\ [GitNext]_gitVars => [lastCommit' >= lastCommit]_gitVars
    BY NeverBackStep
<1>4. QED
    BY <1>1, <1>2, <1>3, PTL DEF GitSpec, LastCommitNeverBack

=============================================================================
