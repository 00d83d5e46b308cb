-------------------------- MODULE MCSubscriptions --------------------------
(* Model-checking instances of Subscriptions. *)
EXTENDS Subscriptions

\* Milliseconds 0 to 5, with the ticks around the start of most of them.
MCBoundaries == {0, 3, 8, 9, 15, 16, 31, 40}
MCInstants == 0 .. 47
=============================================================================
