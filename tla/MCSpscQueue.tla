---------------------------- MODULE MCSpscQueue ----------------------------
(* SpscQueue on a ring of four slots and two element values: three elements *)
(* fit, the indices wrap, and both sides' views can lag by a whole ring.    *)
EXTENDS SpscQueue
CONSTANTS v1, v2, none

MCValues == {v1, v2}
=============================================================================
