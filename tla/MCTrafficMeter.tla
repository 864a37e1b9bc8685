--------------------------- MODULE MCTrafficMeter ---------------------------
(* Small instances of TrafficMeter. *)
EXTENDS TrafficMeter, TLC

\* the workers are interchangeable
MCSymmetry == Permutations(Workers)
=============================================================================
