----------------------------- MODULE MCFraming -----------------------------
(* Model-checking instance of Framing.                                     *)
EXTENDS Framing
=============================================================================
