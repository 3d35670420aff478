---------------------------- MODULE MCAlinkOrder -----------------------------
(* Instance of AlinkOrder for TLC.                                         *)
EXTENDS AlinkOrder

(* Two packages of a radar may be queued at once; one of a C2 is enough to *)
(* take a place in the queue from it.                                      *)
MCMaxMsgs == [t \in Radars \cup C2s |-> IF t \in Radars THEN 2 ELSE 1]
=============================================================================
