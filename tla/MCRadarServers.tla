--------------------------- MODULE MCRadarServers ---------------------------
(* The radar servers on small sets: entries of the list (heap cells) and     *)
(* serial numbers are model values, interchangeable with each other.         *)
EXTENDS RadarServers, TLC

MCSymmetry == Permutations(Slots) \cup Permutations(Sns)
=============================================================================
