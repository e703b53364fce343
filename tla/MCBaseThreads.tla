--------------------------- MODULE MCBaseThreads ---------------------------
(* Model-checking instance of BaseThreads.                                 *)
EXTENDS BaseThreads
=============================================================================
