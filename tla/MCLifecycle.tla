---------------------------- MODULE MCLifecycle ----------------------------
(* Model-checking instance of Lifecycle.                                   *)
EXTENDS Lifecycle

\* In half seconds: two run times that mean forever, a second and half a second
\* below zero, no time at all, and a second and a half.
SomeRunTimes == {-2, -1, 0, 3}

=============================================================================
