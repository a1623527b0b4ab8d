--------------------------- MODULE MCSpeakerRing ---------------------------
(* A ring of two frames emptied two at a time, for TLC: a chunk in which   *)
(* nothing sounds, a short one, and one that is larger than the ring and   *)
(* changes the input rate.                                                 *)
EXTENDS SpeakerRing

MCShapes == {[len |-> 0, rate |-> 1, final |-> FALSE],
             [len |-> 1, rate |-> 1, final |-> FALSE],
             [len |-> 3, rate |-> 2, final |-> TRUE]}
===========================================================================
