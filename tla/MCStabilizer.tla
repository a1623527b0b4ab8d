--------------------------- MODULE MCStabilizer ---------------------------
(* Two words, one of them with and without a full stop.  Hypotheses have   *)
(* up to three words, of which the third is always the same: it is there   *)
(* for a commit to run over the cap of a segment.                          *)
EXTENDS Stabilizer

CONSTANTS a, b
MCToken ==
  {[word |-> a, ends |-> FALSE], [word |-> a, ends |-> TRUE],
   [word |-> b, ends |-> FALSE]}
MCHypothesis ==
  {h \in BoundedSeq(MCToken, 3) :
     Len(h) = 3 => h[3] = [word |-> b, ends |-> FALSE]}
===========================================================================
