----------------------------- MODULE MCGovernor -----------------------------
(***************************************************************************)
(* Model-checking instance of Governor: two ticks, one service name with  *)
(* two candidate instances (so a duplicate registration is attempted) and *)
(* one module class loaded at most once.                                   *)
(***************************************************************************)
EXTENDS Governor

CONSTANTS n1, o1, o2, m1

MCServiceNames == {n1}
MCServiceObjects == {o1, o2}
MCModuleClasses == {m1}

=============================================================================
