----------------------------- MODULE MCReceiver -----------------------------
(* Model-checking instance of Receiver.                                    *)
EXTENDS Receiver
=============================================================================
