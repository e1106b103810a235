---------------------------- MODULE MCFileSource ----------------------------
(***************************************************************************)
(* Model-checking instance of FileSource: two sources watching the same   *)
(* directory (so the rename lock is contended), two files, one service    *)
(* name and no module loading (the governor's registry is checked in      *)
(* MCGovernor and does not interact with the sources).                     *)
(***************************************************************************)
EXTENDS FileSource

CONSTANTS s1, s2, f1, f2, f3, n1, o1

MCSources == {s1, s2}
MCFiles == {f1, f2}
MCFiles3 == {f1, f2, f3}
MCServiceNames == {n1}
MCServiceObjects == {o1}

\* Each source's 'post' value: one unknown value (falls back to move) next
\* to a stop source, a delete source next to a move one, or both move.
MCPostArchiveStop == [s \in MCSources |-> IF s = s1 THEN "archive" ELSE "stop"]
MCPostDeleteMove == [s \in MCSources |-> IF s = s1 THEN "delete" ELSE "move"]
MCPostMove == [s \in MCSources |-> "move"]

=============================================================================
