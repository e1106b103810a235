----------------------------- MODULE MCWebServer -----------------------------
(***************************************************************************)
(* Model-checking instance of WebServer: two concurrent requests (enough  *)
(* for one to regenerate self.fields while the other is handled), and one *)
(* or two forms a fields callable can generate.                            *)
(***************************************************************************)
EXTENDS WebServer

CONSTANTS r1, r2, v1, v2

MCRequests == {r1, r2}
MCVariants1 == {v1}
MCVariants2 == {v1, v2}

=============================================================================
