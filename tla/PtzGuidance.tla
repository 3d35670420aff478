----------------------------- MODULE PtzGuidance -----------------------------
(***************************************************************************)
(* The guidance of the PTZ: ai_alg_run7 of srv/algs/ai_alg/ai_main.cpp,    *)
(* which the algorithm thread calls once per picture, with the choice of a *)
(* target in guide.cpp, and the handlers by which the UDP thread stores    *)
(* what the PTZ reports.                                                   *)
(*                                                                         *)
(* The reported work mode is a global that ai_alg_run7 reads six times a   *)
(* call and the UDP thread overwrites at any moment.  A call is therefore  *)
(* six steps, one per read, and it may see several modes.                  *)
(***************************************************************************)
EXTENDS Integers, Sequences

CONSTANTS
    Packs,     (* target packages: [type, objs], see PackType              *)
    Interval,  (* frames between two idle guidances that are not a first   *)
    Period,    (* tracked frames between two guidances: 30                 *)
    NULL

Modes == {"idle", "search", "track"}    (* work_mode 0, 1, 2 *)

(* A target: alive says that it has been alive for at least 10 frames,     *)
(* moving that its stateType is 1; threat 1 is the worst.                  *)
Objects == [moving : BOOLEAN, alive : BOOLEAN, threat : Nat, azimuth : Int]

PackType == [type : {"radar", "remoteid", "droneid", "user"}, objs : Seq(Objects)]

ASSUME GuidanceAssumption ==
    /\ \A p \in Packs : /\ p.type \in {"radar", "remoteid", "droneid", "user"}
                        /\ \A i \in DOMAIN p.objs : p.objs[i].azimuth \in -180 .. 180
    /\ Interval \in Nat /\ Period \in Nat \ {0}
    /\ NULL \notin Packs

VARIABLES
    work_mode,   (* realtime_status.work_mode                              *)
    target_num,  (* whether realtime_targets.target_num is not zero        *)
    pc,          (* where ai_alg_run7 is                                   *)
    targets,     (* its argument                                           *)
    firstGuide,
    since,       (* img_cnt - prev_cnt, up to Interval                     *)
    track_cnt,   (* as far as it matters: Period stands for its multiples  *)
    prev_mode,
    cmds,        (* history: commands this call has sent                   *)
    during,      (* history: modes reported since the call began           *)
    quiet        (* history: frames since the last tracking guidance, up   *)
                 (* to Period                                              *)

counters == <<firstGuide, since, track_cnt, prev_mode>>
reports  == <<work_mode, target_num>>
vars == <<reports, pc, targets, counters, cmds, during, quiet>>

Least(a, b) == IF a < b THEN a ELSE b

Init ==
    /\ work_mode = "idle" /\ target_num = FALSE
    /\ pc = "wait" /\ targets = NULL
    /\ firstGuide = TRUE /\ since = 0 /\ track_cnt = 0 /\ prev_mode = NULL
    /\ cmds = <<>> /\ during = {} /\ quiet = Period

-----------------------------------------------------------------------------
(***************************************************************************)
(* The UDP thread: ptz_dev_status and ptz_target_info.                     *)
(***************************************************************************)
ptz_dev_status(m) ==
    /\ work_mode' = m
    /\ during' = during \cup {m}
    /\ UNCHANGED <<target_num, pc, targets, counters, cmds, quiet>>

ptz_target_info ==
    /\ target_num' = ~target_num
    /\ UNCHANGED <<work_mode, pc, targets, counters, cmds, during, quiet>>

-----------------------------------------------------------------------------
(***************************************************************************)
(* The choice of a target: radar_2ptz without a wanted id, tracer_2ptz.    *)
(* Each is the set of objects that may come out, empty for none.           *)
(***************************************************************************)
Useful(o) == o.moving /\ o.alive

(* The first of the useful ones once sorted by threatLevel; the sort may   *)
(* put any of equal ones first.                                            *)
radar_2ptz(objs) ==
    LET useful == SelectSeq(objs, Useful)
        in == {useful[i] : i \in DOMAIN useful}
    IN  {o \in in : \A p \in in : o.threat <= p.threat}

(* The first one: the sort by danger is commented out.                     *)
tracer_2ptz(objs) == IF objs = <<>> THEN {} ELSE {objs[1]}

(***************************************************************************)
(* The guidance for a package: the commands radarGuide, tracerGuideR and   *)
(* tracerGuideD send.  radarGuide turns the azimuth into 0 .. 360 and only *)
(* does so when it is negative: the others become 0.                       *)
(***************************************************************************)
Stop     == [cmd |-> "stop"]
Search   == [cmd |-> "search"]
Address(type, o, angle) == [cmd |-> "address", type |-> type, obj |-> o, angle |-> angle]

HorAngle(o) == IF o.azimuth < 0 THEN 360 + o.azimuth ELSE 0

(* A user's package commands nothing here.                                 *)
Guide(p) ==
    CASE p.type = "radar" ->
            {<<Stop, Address("radar", o, HorAngle(o))>> : o \in radar_2ptz(p.objs)}
      [] p.type \in {"remoteid", "droneid"} ->
            {<<Address("tracer", o, o.azimuth)>> : o \in tracer_2ptz(p.objs)}
      [] OTHER -> {}

(* What a guidance sends: nothing when there is no target to point at.     *)
Sends(p) == IF Guide(p) = {} THEN {<<>>} ELSE Guide(p)

-----------------------------------------------------------------------------
(***************************************************************************)
(* ai_alg_run7.                                                            *)
(***************************************************************************)
(* Mutated: tracking is stopped like a search.                             *)
Begin_StopBusy ==
    /\ pc = "wait"
    /\ targets' \in Packs \cup {NULL}
    /\ since' = Least(since + 1, Interval)
    /\ quiet' = Least(quiet + 1, Period)
    /\ during' = {work_mode}
    /\ cmds' = IF work_mode # "idle" THEN <<Stop>> ELSE <<>>
    /\ pc' = "first"
    /\ UNCHANGED <<reports, firstGuide, track_cnt, prev_mode>>

(* A picture came; a search is stopped.                                    *)
Begin ==
    /\ pc = "wait"
    /\ targets' \in Packs \cup {NULL}
    /\ since' = Least(since + 1, Interval)
    /\ quiet' = Least(quiet + 1, Period)
    /\ during' = {work_mode}
    /\ cmds' = IF work_mode = "search" THEN <<Stop>> ELSE <<>>
    /\ pc' = "first"
    /\ UNCHANGED <<reports, firstGuide, track_cnt, prev_mode>>

(* "prev_mode = 2 && work_mode == 0" assigns; prev_mode is set again in    *)
(* the next statement.                                                     *)
First ==
    /\ pc = "first"
    /\ firstGuide' = (firstGuide \/ work_mode = "idle")
    /\ pc' = "save"
    /\ UNCHANGED <<reports, targets, since, track_cnt, prev_mode, cmds, during, quiet>>

SaveMode ==
    /\ pc = "save"
    /\ prev_mode' = work_mode
    /\ pc' = "count"
    /\ UNCHANGED <<reports, targets, firstGuide, since, track_cnt, cmds, during, quiet>>

CountTrack ==
    /\ pc = "count"
    /\ track_cnt' = IF work_mode = "track" THEN (track_cnt % Period) + 1 ELSE 0
    /\ pc' = IF targets = NULL THEN "return" ELSE "idle"
    /\ UNCHANGED <<reports, targets, firstGuide, since, prev_mode, cmds, during, quiet>>

(* Mutated: the interval always holds.                                     *)
GuideIdle_Interval ==
    /\ pc = "idle"
    /\ IF work_mode = "idle" /\ since >= Interval
       THEN /\ \E s \in Sends(targets) : cmds' = cmds \o s
            /\ since' = 0 /\ pc' = "search"
       ELSE /\ pc' = "tracking" /\ UNCHANGED <<cmds, since>>
    /\ UNCHANGED <<reports, targets, firstGuide, track_cnt, prev_mode, during, quiet>>

(* Guidance of an idle PTZ; firstGuide is never cleared.                   *)
GuideIdle ==
    /\ pc = "idle"
    /\ IF work_mode = "idle" /\ (firstGuide \/ since >= Interval)
       THEN /\ \E s \in Sends(targets) : cmds' = cmds \o s
            /\ since' = 0 /\ pc' = "search"
       ELSE /\ pc' = "tracking" /\ UNCHANGED <<cmds, since>>
    /\ UNCHANGED <<reports, targets, firstGuide, track_cnt, prev_mode, during, quiet>>

(* Mutated: the search is preceded by a stop, like a radar's guidance.     *)
SearchAndTracking_Stop ==
    /\ pc = "search"
    /\ cmds' = IF target_num THEN cmds \o <<Stop, Search>> ELSE cmds
    /\ pc' = "tracking"
    /\ UNCHANGED <<reports, targets, counters, during, quiet>>

(* After it (for a radar 5 s later), if the PTZ sees something.            *)
SearchAndTracking ==
    /\ pc = "search"
    /\ cmds' = IF target_num THEN Append(cmds, Search) ELSE cmds
    /\ pc' = "tracking"
    /\ UNCHANGED <<reports, targets, counters, during, quiet>>

(* Mutated: a count of zero is not excluded.                               *)
GuideTracking_Zero ==
    /\ pc = "tracking"
    /\ IF work_mode = "track" /\ track_cnt % Period = 0
       THEN /\ \E s \in Sends(targets) : cmds' = cmds \o s
            /\ quiet' = 0 /\ pc' = "guided"
       ELSE /\ pc' = "return" /\ UNCHANGED <<cmds, quiet>>
    /\ UNCHANGED <<reports, targets, counters, during>>

(* Guidance of a PTZ that tracks.                                          *)
GuideTracking ==
    /\ pc = "tracking"
    /\ IF work_mode = "track" /\ track_cnt # 0 /\ track_cnt % Period = 0
       THEN /\ \E s \in Sends(targets) : cmds' = cmds \o s
            /\ quiet' = 0 /\ pc' = "guided"
       ELSE /\ pc' = "return" /\ UNCHANGED <<cmds, quiet>>
    /\ UNCHANGED <<reports, targets, counters, during>>

Return ==
    /\ pc \in {"guided", "return"}
    /\ pc' = "wait" /\ targets' = NULL
    /\ cmds' = <<>> /\ during' = {}
    /\ UNCHANGED <<reports, counters, quiet>>

Run == \/ Begin \/ First \/ SaveMode \/ CountTrack \/ GuideIdle \/ SearchAndTracking
       \/ GuideTracking \/ Return

Next == Run \/ ptz_target_info \/ \E m \in Modes : ptz_dev_status(m)

Spec == Init /\ [][Next]_vars

-----------------------------------------------------------------------------
Commands == {"stop", "search", "address"}

(* Types.  What a call sends is at most a stop, two guidances and a search.*)
TypeOK ==
    /\ work_mode \in Modes /\ target_num \in BOOLEAN
    /\ pc \in {"wait", "first", "save", "count", "idle", "search", "tracking", "guided", "return"}
    /\ targets \in Packs \cup {NULL}
    /\ firstGuide \in BOOLEAN
    /\ since \in 0 .. Interval
    /\ track_cnt \in 0 .. Period
    /\ prev_mode \in Modes \cup {NULL}
    /\ Len(cmds) <= 6 /\ \A i \in DOMAIN cmds : cmds[i].cmd \in Commands
    /\ during \subseteq Modes
    /\ quiet \in 0 .. Period

Addressed == {i \in DOMAIN cmds : cmds[i].cmd = "address"}
Returning == pc \in {"guided", "return"}

(* An idle PTZ is guided on every frame that brings a target to point at   *)
(* ("空闲状态引导，没有间隔": no interval in idle mode), if the mode stayed    *)
(* idle while the frame was handled.                                       *)
IdleAlwaysGuided ==
    Returning /\ during = {"idle"} /\ targets # NULL =>
        (Addressed # {} <=> Guide(targets) # {})

(* Two guidances of a tracking PTZ are at least Period frames apart,       *)
(* whatever modes are reported while a frame is handled.                   *)
TrackingRarelyDisturbed == [][pc = "tracking" /\ pc' = "guided" => quiet >= Period]_vars

(* A call sends no more than one guidance unless the mode changed while it *)
(* ran, and a PTZ that tracked all along is stopped only by a guidance.    *)
OneGuidance ==
    /\ Addressed # {} => \A m \in Modes : during = {m} =>
          \A i, j \in Addressed : i = j
    /\ during = {"track"} => \A i \in DOMAIN cmds :
          cmds[i].cmd = "stop" => i + 1 \in Addressed
=============================================================================
