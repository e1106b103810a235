----------------------------- MODULE FileClaims -----------------------------
(***************************************************************************)
(* What the "-locked" rename of FileABCSource promises, stated without    *)
(* tasks, futures, pipelines or the governor: the files of a directory    *)
(* watched by several sources, each file with the set of sources reading  *)
(* it.                                                                     *)
(*                                                                         *)
(*  - a source claims a file only while the file is visible under its     *)
(*    own name, and only when it is reading nothing else;                  *)
(*  - a claim either starts a read by that source or is left without a    *)
(*    reader (the file stays claimed, nobody ever releases it);           *)
(*  - only the reader of a claimed file ends the claim: the file is then  *)
(*    done, failed, visible again, or still claimed;                       *)
(*  - done and failed files never change again.                            *)
(*                                                                         *)
(* FileSource implements this specification under the mapping given there *)
(* (FC); the run filesource_race checks it and FileSourceProofs proves it. *)
(***************************************************************************)
CONSTANTS
    Sources,  \* the sources watching the directory
    Files     \* the files that may appear in it

VARIABLES
    name,    \* file -> "absent", "visible", "claimed", "done", "failed"
    holder   \* file -> the sources reading it

claimVars == <<name, holder>>

Names == {"absent", "visible", "claimed", "done", "failed"}

ClaimsInit ==
    /\ name \in [Files -> {"absent", "visible"}]
    /\ holder = [f \in Files |-> {}]

\* A source that is reading no file.
Idle(s) == \A g \in Files : s \notin holder[g]

\* A file is dropped into the directory.
Arrive(f) ==
    /\ name[f] = "absent"
    /\ name' = [name EXCEPT ![f] = "visible"]
    /\ UNCHANGED holder

\* Source s claims a visible file, and starts reading it or not.
Claim(s, f) ==
    /\ name[f] = "visible"
    /\ Idle(s)
    /\ name' = [name EXCEPT ![f] = "claimed"]
    /\ \E h \in {{s}, {}} : holder' = [holder EXCEPT ![f] = h]

\* The reader of a claimed file ends its read.
Release(s, f) ==
    /\ s \in holder[f]
    /\ holder' = [holder EXCEPT ![f] = {}]
    /\ \E n \in {"done", "failed", "visible", "claimed"} :
          name' = [name EXCEPT ![f] = n]

ClaimsNext ==
    \E f \in Files :
        \/ Arrive(f)
        \/ \E s \in Sources : Claim(s, f) \/ Release(s, f)

ClaimsSpec == ClaimsInit /\ [][ClaimsNext]_claimVars

=============================================================================
