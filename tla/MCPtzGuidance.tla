---------------------------- MODULE MCPtzGuidance ----------------------------
(* Instance of PtzGuidance for TLC.                                        *)
EXTENDS PtzGuidance

(* A worst threat and a lesser one, and two worst ones that do not count:  *)
(* one too young and one that does not move.                               *)
Obj(mv, al, th, az) == [moving |-> mv, alive |-> al, threat |-> th, azimuth |-> az]
RadarObjs == {Obj(TRUE, TRUE, 1, -90), Obj(TRUE, TRUE, 2, 90),
              Obj(TRUE, FALSE, 1, 90), Obj(FALSE, TRUE, 1, -90)}
TracerObjs == {Obj(TRUE, TRUE, t, 10 * t) : t \in 1 .. 2}

UpTo(S, n) == UNION {[1 .. k -> S] : k \in 0 .. n}

MCPacks ==
    [type : {"radar"}, objs : UpTo(RadarObjs, 2)]
        \cup [type : {"remoteid", "droneid"}, objs : UpTo(TracerObjs, 2)]
        \cup [type : {"user"}, objs : {<<>>}]
=============================================================================
