----------------------------- MODULE MCNetwork -----------------------------
(* Model-checking instance of Network with the sweep of main.cc.           *)
EXTENDS Network
=============================================================================
