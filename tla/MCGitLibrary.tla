---------------------------- MODULE MCGitLibrary ----------------------------
(***************************************************************************)
(* Model-checking instance of GitLibrary: two coroutines pulling, each     *)
(* once, while the remote receives two more commits.                       *)
(***************************************************************************)
EXTENDS GitLibrary

CONSTANTS c1, c2

MCCallers == {c1, c2}

=============================================================================
