----------------------------- MODULE GitLibrary -----------------------------
(***************************************************************************)
(* GitLibraryProvider (src/asab/library/providers/git.py): a clone of a   *)
(* remote repository that the library serves files from, kept up to date *)
(* by pull().                                                              *)
(*                                                                         *)
(* pull() runs fetch() in the proactor's thread pool, compares the remote *)
(* HEAD it returns with self.LastCommit, records it, and runs merge() in  *)
(* the pool.  Each `await` lets other coroutines run, and the pool runs   *)
(* several calls at once, so pulls of several callers (the periodic pull, *)
(* a caller of pull()) interleave at every step.  Commits are numbered in *)
(* the order they reach the remote; `workdir` is the commit whose content *)
(* the FileSystemLibraryProvider reads.                                   *)
(***************************************************************************)
EXTENDS Naturals

CONSTANTS
    Callers,    \* coroutines calling pull()
    MaxCommit,  \* the remote receives commits 2..MaxCommit (bound)
    MaxPulls,   \* pull() calls per caller (bound)
    Faults      \* fetch() and merge() may raise

Commits == 1..MaxCommit

\* self.LastCommit = None, before _check_remote has fetched.
NoCommit == 0

VARIABLES
    remote,      \* refs/remotes/origin/HEAD on the server
    lastCommit,  \* self.LastCommit
    workdir,     \* the commit merged into the working directory
    pc,          \* caller -> "idle", "fetching", "fetched", "merging"
    cid,         \* caller -> the commit_id its fetch returned
    pulls,       \* caller -> pull() calls made
    boot         \* where __init__ is: "cloned", "cached", "updating",
                 \* "serving", or "exited" (SystemExit or an exception)

gitVars == <<remote, lastCommit, workdir, pc, cid, pulls, boot>>

BootStages == {"cloned", "cached", "updating", "serving", "exited"}

GitTypeOK ==
    /\ remote \in Commits
    /\ lastCommit \in Commits \cup {NoCommit}
    /\ boot \in BootStages
    /\ workdir \in Commits
    /\ pc \in [Callers -> {"idle", "fetching", "fetched", "merging"}]
    /\ cid \in [Callers -> Commits]
    /\ pulls \in [Callers -> 0..MaxPulls]

(***************************************************************************)
(* __init__ up to _check_remote: LastCommit is None and the working       *)
(* directory holds the remote HEAD, either just cloned (makedirs          *)
(* succeeded) or left in the cached clone by an earlier run               *)
(* (FileExistsError).                                                      *)
(***************************************************************************)
GitInit ==
    /\ remote = 1
    /\ lastCommit = NoCommit
    /\ workdir = remote
    /\ boot \in {"cloned", "cached"}
    /\ pc = [c \in Callers |-> "idle"]
    /\ cid = [c \in Callers |-> 1]
    /\ pulls = [c \in Callers |-> 0]

(***************************************************************************)
(* _check_remote: fetch and record the remote HEAD as LastCommit; a fetch *)
(* that raises ends the application (SystemExit).  Pushes may land after *)
(* the clone, so LastCommit may be newer than the cloned content.  On the *)
(* fresh-clone path the provider is then ready; the cached path goes on.  *)
(***************************************************************************)
CheckRemote ==
    /\ boot \in {"cloned", "cached"}
    /\ \/ /\ lastCommit' = remote
          /\ boot' = IF boot = "cloned" THEN "serving" ELSE "updating"
       \/ /\ Faults
          /\ boot' = "exited"
          /\ UNCHANGED lastCommit
    /\ UNCHANGED <<remote, workdir, pc, cid, pulls>>

(***************************************************************************)
(* The cached path after _check_remote: commit_id = fetch(...) then       *)
(* merge(commit_id), synchronously and without touching LastCommit; an    *)
(* exception from either leaves __init__.                                  *)
(***************************************************************************)
UpdateCachedClone ==
    /\ boot = "updating"
    /\ \/ /\ workdir' = remote
          /\ boot' = "serving"
       \/ /\ Faults
          /\ boot' = "exited"
          /\ UNCHANGED workdir
    /\ UNCHANGED <<remote, lastCommit, pc, cid, pulls>>

\* Someone pushes to the remote.
RemoteCommit ==
    /\ remote < MaxCommit
    /\ remote' = remote + 1
    /\ UNCHANGED <<lastCommit, workdir, pc, cid, pulls, boot>>

\* pull() is called and hands fetch() to the proactor.
StartPull(c) ==
    /\ boot = "serving"
    /\ pc[c] = "idle"
    /\ pulls[c] < MaxPulls
    /\ pc' = [pc EXCEPT ![c] = "fetching"]
    /\ pulls' = [pulls EXCEPT ![c] = @ + 1]
    /\ UNCHANGED <<remote, lastCommit, workdir, cid, boot>>

(***************************************************************************)
(* fetch() in a pool thread: fetch origin and return the commit id of     *)
(* refs/remotes/origin/HEAD; a failing fetch raises out of pull().        *)
(***************************************************************************)
Fetch(c) ==
    /\ pc[c] = "fetching"
    /\ \/ /\ cid' = [cid EXCEPT ![c] = remote]
          /\ pc' = [pc EXCEPT ![c] = "fetched"]
       \/ /\ Faults
          /\ pc' = [pc EXCEPT ![c] = "idle"]
          /\ UNCHANGED cid
    /\ UNCHANGED <<remote, lastCommit, workdir, pulls, boot>>

(***************************************************************************)
(* pull() resumes with commit_id: the same as LastCommit returns; a new   *)
(* one is recorded as LastCommit and merge() is handed to the proactor.   *)
(***************************************************************************)
FetchReturned(c) ==
    /\ pc[c] = "fetched"
    /\ IF cid[c] = lastCommit
       THEN /\ pc' = [pc EXCEPT ![c] = "idle"]
            /\ UNCHANGED lastCommit
       ELSE /\ lastCommit' = cid[c]
            /\ pc' = [pc EXCEPT ![c] = "merging"]
    /\ UNCHANGED <<remote, workdir, cid, pulls, boot>>

(***************************************************************************)
(* merge() in a pool thread: repository.merge(commit_id) brings that      *)
(* commit's content into the working directory, or raises (a conflict    *)
(* with what an earlier merge left staged); either way pull() ends.       *)
(***************************************************************************)
Merge(c) ==
    /\ pc[c] = "merging"
    /\ \/ workdir' = cid[c]
       \/ Faults /\ UNCHANGED workdir
    /\ pc' = [pc EXCEPT ![c] = "idle"]
    /\ UNCHANGED <<remote, lastCommit, cid, pulls, boot>>

GitNext ==
    \/ CheckRemote
    \/ UpdateCachedClone
    \/ RemoteCommit
    \/ \E c \in Callers :
          \/ StartPull(c)
          \/ Fetch(c)
          \/ FetchReturned(c)
          \/ Merge(c)

GitSpec == GitInit /\ [][GitNext]_gitVars

-----------------------------------------------------------------------------
(***************************************************************************)
(* LastCommitNeverBack: pull() is documented as the equivalent of `git    *)
(* pull`, which never moves a branch back: each step leaves LastCommit at *)
(* the commit it names or at a later one.  Commits are numbered in the    *)
(* order they reach the remote.                                            *)
(***************************************************************************)
LastCommitNeverBack ==
    [][lastCommit' >= lastCommit]_gitVars

=============================================================================
