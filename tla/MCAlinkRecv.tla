----------------------------- MODULE MCAlinkRecv -----------------------------
(* The receive path on five packages, four of them of the same size, so    *)
(* that one can lie where another was; one has a payload byte that looks   *)
(* like a magic.                                                           *)
EXTENDS AlinkRecv

MCEnds == <<4, 8, 12, 16, 21>>
MCLookalike == {4}
=============================================================================
