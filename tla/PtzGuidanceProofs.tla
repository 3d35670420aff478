------------------------- MODULE PtzGuidanceProofs --------------------------
(***************************************************************************)
(* Proofs about the guidance, for any set of target packages, any interval *)
(* and any period.                                                         *)
(*                                                                         *)
(* The properties speak of calls during which one mode was reported; the   *)
(* invariant says, for each of the three modes and each place in           *)
(* ai_alg_run7, what such a call has sent.  That the mode it reads is one  *)
(* of those reported (ModeSeen) makes the tests of one call agree.         *)
(***************************************************************************)
EXTENDS PtzGuidance, SequenceTheorems, TLAPS

(* Every command the guidance can send.                                    *)
Guidances == UNION {Guide(p) : p \in Packs}
Sendable == {Stop, Search} \cup UNION {{s[i] : i \in DOMAIN s} : s \in Guidances}

(* The mode reported last was reported during the call.                    *)
ModeSeen ==
    /\ pc # "wait" => work_mode \in during
    /\ pc = "wait" => cmds = <<>>
    /\ pc = "search" => "idle" \in during

(* Only with targets does the call get as far as a guidance.               *)
HasTargets == pc \in {"idle", "search", "tracking", "guided"} => targets # NULL

(* How much has been sent: a stop, a guidance, a search, a guidance.       *)
SentBound ==
    /\ cmds \in Seq(Sendable)
    /\ pc \in {"first", "save", "count", "idle"} => Len(cmds) <= 1
    /\ pc = "search" => Len(cmds) <= 3
    /\ pc \in {"tracking", "return"} => Len(cmds) <= 4
    /\ Len(cmds) <= 6

SearchShape == during = {"search"} => cmds \in {<<>>, <<Stop>>}

IdleShape ==
    during = {"idle"} =>
        /\ pc \in {"first", "save", "count", "idle"} => cmds = <<>>
        /\ pc = "search" => cmds \in Sends(targets)
        /\ pc \in {"tracking", "return"} /\ targets # NULL =>
              \E s \in Sends(targets) : cmds = s \/ cmds = Append(s, Search)
        /\ pc = "return" /\ targets = NULL => cmds = <<>>
        /\ pc # "guided"

TrackShape ==
    during = {"track"} =>
        /\ pc # "guided" => cmds = <<>>
        /\ pc = "guided" => cmds \in Sends(targets)

ShapeInv == SearchShape /\ IdleShape /\ TrackShape

(* Tracked frames are counted no faster than frames.                       *)
CountBehind ==
    /\ pc \in {"first", "save", "count"} => (track_cnt % Period) + 1 <= quiet
    /\ pc \in {"idle", "search", "tracking"} => track_cnt <= quiet
    /\ pc \in {"wait", "guided", "return"} => track_cnt % Period <= quiet

GuidanceInv ==
    /\ TypeOK /\ firstGuide = TRUE
    /\ ModeSeen /\ HasTargets /\ SentBound /\ ShapeInv /\ CountBehind

-----------------------------------------------------------------------------
(* The form of a guidance: an address, after a stop if it is a radar's.    *)
Guidance(s) ==
    /\ s \in Seq(Sendable)
    /\ \/ Len(s) = 1 /\ s[1].cmd = "address"
       \/ Len(s) = 2 /\ s[1] = Stop /\ s[2].cmd = "address"

(* What a guidance consists of: a stop and an address, or an address.      *)
LEMMA GuideForm ==
    ASSUME NEW p \in Packs, NEW s \in Guide(p)
    PROVE  Guidance(s)
  <1>1. \/ \E o : s = <<Stop, Address("radar", o, HorAngle(o))>>
        \/ \E o : s = <<Address("tracer", o, o.azimuth)>>
    BY DEF Guide
  <1>2. /\ DOMAIN s = 1 .. Len(s) /\ Len(s) \in Nat
        /\ \/ Len(s) = 1 /\ s[1].cmd = "address"
           \/ Len(s) = 2 /\ s[1] = Stop /\ s[2].cmd = "address"
        /\ s = [i \in 1 .. Len(s) |-> s[i]]
    BY <1>1 DEF Address
  <1>3. \A i \in DOMAIN s : s[i] \in Sendable
    BY DEF Sendable, Guidances
  <1>4. s \in Seq(Sendable)
    BY <1>1, <1>2, <1>3, IsASeq
  <1> QED
    BY <1>2, <1>4 DEF Guidance

(* What a round sends is one guidance, or nothing when there is none.      *)
LEMMA SendsForm ==
    ASSUME NEW p \in Packs, NEW s \in Sends(p)
    PROVE  /\ s \in Seq(Sendable) /\ Len(s) \in 0 .. 2
           /\ s = <<>> <=> Guide(p) = {}
           /\ s # <<>> => Guidance(s)
  <1>1. CASE Guide(p) = {}
    BY <1>1, EmptySeq DEF Sends
  <1>2. CASE Guide(p) # {}
    <2>1. Guidance(s)
      BY <1>2, GuideForm DEF Sends
    <2> QED
      BY <1>2, <2>1, EmptySeq DEF Guidance
  <1> QED
    BY <1>1, <1>2

(* What can be sent are commands of the PTZ.                               *)
LEMMA SendableCommands == \A c \in Sendable : c.cmd \in Commands
  <1>1. ASSUME NEW c \in Sendable, c # Stop, c # Search
        PROVE  c.cmd \in Commands
    <2>1. PICK p \in Packs : \E s \in Guide(p) : \E i \in DOMAIN s : c = s[i]
      BY <1>1 DEF Sendable, Guidances
    <2>2. PICK s \in Guide(p) : \E i \in DOMAIN s : c = s[i]
      BY <2>1
    <2>3. Guidance(s)
      BY GuideForm
    <2> QED
      BY <2>2, <2>3, LenProperties DEF Guidance, Stop, Commands
  <1> QED
    BY <1>1 DEF Stop, Search, Commands

(* A guidance after what was sent before.                                  *)
LEMMA SendMore ==
    ASSUME NEW p \in Packs, NEW s \in Sends(p), cmds \in Seq(Sendable)
    PROVE  /\ cmds \o s \in Seq(Sendable)
           /\ Len(cmds \o s) \in Nat /\ Len(cmds \o s) <= Len(cmds) + 2
           /\ cmds = <<>> => cmds \o s = s
  <1>1. s \in Seq(Sendable) /\ Len(s) \in 0 .. 2 /\ Len(cmds) \in Nat
    BY SendsForm, LenProperties
  <1>2. cmds \o s \in Seq(Sendable) /\ Len(cmds \o s) = Len(cmds) + Len(s)
    BY <1>1, ConcatProperties
  <1>3. \A a, n \in Nat : \A k \in 0 .. 2 : n = a + k => n <= a + 2
    OBVIOUS
  <1>4. ASSUME cmds = <<>> PROVE cmds \o s = s
    BY <1>1, <1>4, ConcatEmptySeq
  <1>5. Len(cmds \o s) \in Nat
    BY <1>2, LenProperties
  <1>6. Len(cmds \o s) <= Len(cmds) + 2
    BY ONLY <1>1, <1>2, <1>3, <1>5
  <1> QED
    BY <1>2, <1>4, <1>5, <1>6

(* Numbers below the period are their own remainder.                       *)
LEMMA Remainder ==
    /\ \A n \in 0 .. Period : n % Period \in 0 .. Period - 1
    /\ \A n \in 0 .. Period : n % Period <= n
    /\ \A n \in 0 .. Period : n # 0 /\ n % Period = 0 => n = Period
  BY GuidanceAssumption

(* So are the commands of a round.                                         *)
LEMMA SentTypes ==
    ASSUME NEW c \in Seq(Sendable)
    PROVE  \A i \in DOMAIN c : c[i].cmd \in Commands
  BY SendableCommands, LenProperties, ElementOfSeq

-----------------------------------------------------------------------------
(* At the start nothing has been sent.                                     *)
LEMMA InitGuidance == Init => GuidanceInv
  <1> SUFFICES ASSUME Init PROVE GuidanceInv
    OBVIOUS
  <1>1. cmds \in Seq(Sendable) /\ Len(cmds) = 0 /\ DOMAIN cmds = {}
    BY EmptySeq DEF Init
  <1>2. TypeOK
    <2>1. Len(cmds) <= 6 /\ \A i \in DOMAIN cmds : cmds[i].cmd \in Commands
      BY <1>1
    <2>2. since \in 0 .. Interval /\ track_cnt \in 0 .. Period /\ quiet \in 0 .. Period
      BY GuidanceAssumption DEF Init
    <2> QED
      BY <2>1, <2>2 DEF Init, TypeOK, Modes
  <1>3. SentBound
    BY <1>1 DEF SentBound
  <1>4. ModeSeen /\ HasTargets /\ ShapeInv
    BY DEF Init, ModeSeen, HasTargets, ShapeInv, SearchShape, IdleShape, TrackShape
  <1>5. CountBehind
    BY Remainder, GuidanceAssumption DEF Init, CountBehind
  <1> QED
    BY <1>2, <1>3, <1>4, <1>5 DEF Init, GuidanceInv

(* A report.  One that comes while ai_alg_run7 runs and leaves one mode    *)
(* reported during the call is of the mode it has read so far.             *)
LEMMA ReportGuidance ==
    ASSUME GuidanceInv, ptz_target_info \/ \E m \in Modes : ptz_dev_status(m)
    PROVE  GuidanceInv'
  <1> USE DEF GuidanceInv
  <1>1. /\ UNCHANGED <<pc, targets, counters, cmds, quiet>>
        /\ work_mode' \in Modes /\ target_num' \in BOOLEAN
        /\ during' \subseteq Modes
        /\ \/ during' = during /\ work_mode' = work_mode
           \/ during' = during \cup {work_mode'}
    BY DEF ptz_target_info, ptz_dev_status, TypeOK
  <1>2. TypeOK' /\ firstGuide' = TRUE
    BY <1>1 DEF TypeOK, counters
  <1>3. ModeSeen' /\ HasTargets' /\ SentBound' /\ CountBehind'
    BY <1>1 DEF ModeSeen, HasTargets, SentBound, CountBehind, counters
  <1>4. ASSUME NEW m, during' = {m}, pc # "wait"
        PROVE  during = {m}
    BY <1>1, <1>4 DEF ModeSeen
  <1>5. pc = "wait" => cmds = <<>>
    BY DEF ModeSeen
  <1>6. SearchShape'
    BY <1>1, <1>4, <1>5 DEF ShapeInv, SearchShape
  <1>7. IdleShape'
    BY <1>1, <1>4 DEF ShapeInv, IdleShape
  <1>8. TrackShape'
    BY <1>1, <1>4, <1>5 DEF ShapeInv, TrackShape
  <1> QED
    BY <1>2, <1>3, <1>6, <1>7, <1>8 DEF ShapeInv

(* A round begins with the targets received and the mode reported.         *)
LEMMA BeginGuidance ==
    ASSUME GuidanceInv, Begin
    PROVE  GuidanceInv'
  <1> USE DEF GuidanceInv
  <1>1. /\ pc = "wait" /\ pc' = "first" /\ targets' \in Packs \cup {NULL}
        /\ during' = {work_mode} /\ work_mode \in Modes
        /\ cmds' = IF work_mode = "search" THEN <<Stop>> ELSE <<>>
        /\ UNCHANGED <<work_mode, target_num, firstGuide, track_cnt, prev_mode>>
    BY DEF Begin, TypeOK, reports
  <1>2. cmds' \in Seq(Sendable) /\ Len(cmds') <= 1
    <2>1. Stop \in Sendable
      BY DEF Sendable
    <2> QED
      BY <1>1, <2>1
  <1>3. since' \in 0 .. Interval
    BY GuidanceAssumption DEF Begin, Least, TypeOK
  <1>4. quiet' \in 0 .. Period /\ (track_cnt % Period) + 1 <= quiet'
    <2>1. track_cnt % Period \in 0 .. Period - 1 /\ quiet \in 0 .. Period
      BY Remainder DEF TypeOK
    <2>2. track_cnt % Period <= quiet
      BY <1>1 DEF CountBehind
    <2> QED
      BY <2>1, <2>2, GuidanceAssumption DEF Begin, Least
  <1>5. TypeOK' /\ firstGuide' = TRUE
    <2>1. Len(cmds') <= 6 /\ \A i \in DOMAIN cmds' : cmds'[i].cmd \in Commands
      BY <1>1 DEF Stop, Commands
    <2> QED
      BY <1>1, <1>3, <1>4, <2>1 DEF TypeOK
  <1>6. SentBound'
    BY <1>1, <1>2, LenProperties DEF SentBound
  <1>7. ModeSeen' /\ HasTargets' /\ ShapeInv'
    BY <1>1 DEF ModeSeen, HasTargets, ShapeInv, SearchShape, IdleShape, TrackShape
  <1>8. CountBehind'
    BY <1>1, <1>4 DEF CountBehind
  <1> QED
    BY <1>5, <1>6, <1>7, <1>8

(* The steps that only read the mode.                                      *)
LEMMA ReadGuidance ==
    ASSUME GuidanceInv, First \/ SaveMode
    PROVE  GuidanceInv'
  <1> USE DEF GuidanceInv
  <1>1. /\ \/ pc = "first" /\ pc' = "save"
           \/ pc = "save" /\ pc' = "count"
        /\ firstGuide' = TRUE /\ prev_mode' \in Modes \cup {NULL}
        /\ UNCHANGED <<work_mode, target_num, targets, since, track_cnt, cmds, during, quiet>>
    BY DEF First, SaveMode, TypeOK, reports
  <1>2. TypeOK'
    BY <1>1 DEF TypeOK
  <1>3. ModeSeen' /\ HasTargets' /\ SentBound' /\ CountBehind'
    BY <1>1 DEF ModeSeen, HasTargets, SentBound, CountBehind
  <1>4. ShapeInv'
    BY <1>1 DEF ShapeInv, SearchShape, IdleShape, TrackShape
  <1> QED
    BY <1>1, <1>2, <1>3, <1>4

(* The count of tracked frames catches up with the frames at most.         *)
LEMMA CountGuidance ==
    ASSUME GuidanceInv, CountTrack
    PROVE  GuidanceInv'
  <1> USE DEF GuidanceInv
  <1>1. /\ pc = "count" /\ pc' = IF targets = NULL THEN "return" ELSE "idle"
        /\ UNCHANGED <<work_mode, target_num, targets, firstGuide, since, prev_mode, cmds,
                       during, quiet>>
    BY DEF CountTrack, reports
  <1>2. track_cnt % Period \in 0 .. Period - 1 /\ quiet \in 0 .. Period
    BY Remainder DEF TypeOK
  <1>3. track_cnt' \in 0 .. Period /\ track_cnt' <= quiet
    BY <1>1, <1>2, GuidanceAssumption DEF CountTrack, CountBehind
  <1>4. track_cnt' % Period <= quiet
    <2>1. track_cnt' % Period <= track_cnt' /\ track_cnt' % Period \in 0 .. Period - 1
      BY <1>3, Remainder
    <2>2. \A a, b, c \in Int : a <= b /\ b <= c => a <= c
      OBVIOUS
    <2>3. track_cnt' % Period \in Int /\ track_cnt' \in Int /\ quiet \in Int
      BY <1>2, <1>3, <2>1
    <2> QED
      BY ONLY <1>3, <2>1, <2>2, <2>3
  <1>5. TypeOK'
    BY <1>1, <1>3 DEF TypeOK
  <1>6. CountBehind'
    BY <1>1, <1>3, <1>4 DEF CountBehind
  <1>7. SentBound'
    BY <1>1, LenProperties DEF SentBound
  <1>8. ModeSeen' /\ HasTargets'
    BY <1>1 DEF ModeSeen, HasTargets
  <1>9. ShapeInv'
    BY <1>1 DEF ShapeInv, SearchShape, IdleShape, TrackShape
  <1> QED
    BY <1>1, <1>5, <1>6, <1>7, <1>8, <1>9

(* Guidance of an idle PTZ: the first after a stop at most, and the only   *)
(* command so far if the mode stayed idle.                                 *)
LEMMA IdleGuidance ==
    ASSUME GuidanceInv, GuideIdle
    PROVE  GuidanceInv'
  <1> USE DEF GuidanceInv
  <1>1. /\ pc = "idle" /\ targets \in Packs /\ work_mode \in during
        /\ cmds \in Seq(Sendable) /\ Len(cmds) <= 1 /\ Len(cmds) \in Nat
        /\ UNCHANGED <<work_mode, target_num, targets, firstGuide, track_cnt, prev_mode,
                       during, quiet>>
    BY LenProperties DEF GuideIdle, reports, TypeOK, HasTargets, ModeSeen, SentBound
  <1>2. CASE work_mode = "idle"
    <2>1. PICK s \in Sends(targets) : cmds' = cmds \o s
      BY <1>2 DEF GuideIdle
    <2>2. /\ cmds' \in Seq(Sendable) /\ Len(cmds') \in Nat /\ Len(cmds') <= 3
          /\ cmds = <<>> => cmds' = s
      BY ONLY <1>1, <2>1, SendMore
    <2>3. pc' = "search" /\ since' = 0
      BY <1>2 DEF GuideIdle
    <2>4. TypeOK'
      <3>1. Len(cmds') <= 6 /\ \A i \in DOMAIN cmds' : cmds'[i].cmd \in Commands
        BY <2>2, SentTypes
      <3> QED
        BY <1>1, <2>3, <3>1, GuidanceAssumption DEF TypeOK
    <2>5. ModeSeen' /\ HasTargets' /\ SentBound' /\ CountBehind'
      BY <1>1, <1>2, <2>2, <2>3, GuidanceAssumption
      DEF ModeSeen, HasTargets, SentBound, CountBehind
    <2>6. ShapeInv'
      BY <1>1, <1>2, <2>1, <2>2, <2>3 DEF ShapeInv, SearchShape, IdleShape, TrackShape
    <2> QED
      BY <1>1, <2>4, <2>5, <2>6
  <1>3. CASE work_mode # "idle"
    <2>1. pc' = "tracking" /\ UNCHANGED <<cmds, since>>
      BY <1>3 DEF GuideIdle
    <2>2. TypeOK'
      BY <1>1, <2>1 DEF TypeOK
    <2>3. ModeSeen' /\ HasTargets' /\ SentBound' /\ CountBehind'
      BY <1>1, <2>1 DEF ModeSeen, HasTargets, SentBound, CountBehind
    <2>4. ShapeInv'
      BY <1>1, <1>3, <2>1 DEF ShapeInv, SearchShape, IdleShape, TrackShape
    <2> QED
      BY <1>1, <2>2, <2>3, <2>4
  <1> QED
    BY <1>2, <1>3

(* The search that follows a guidance from idle, if the PTZ sees           *)
(* something.                                                              *)
LEMMA SearchGuidance ==
    ASSUME GuidanceInv, SearchAndTracking
    PROVE  GuidanceInv'
  <1> USE DEF GuidanceInv
  <1>1. /\ pc = "search" /\ pc' = "tracking" /\ targets \in Packs /\ "idle" \in during
        /\ cmds \in Seq(Sendable) /\ Len(cmds) <= 3 /\ Len(cmds) \in Nat
        /\ UNCHANGED <<work_mode, target_num, targets, firstGuide, since, track_cnt,
                       prev_mode, during, quiet>>
        /\ cmds' = cmds \/ cmds' = Append(cmds, Search)
    BY LenProperties
    DEF SearchAndTracking, reports, counters, TypeOK, HasTargets, ModeSeen, SentBound
  <1>2. cmds' \in Seq(Sendable) /\ Len(cmds') \in Nat /\ Len(cmds') <= 4
    <2>1. Search \in Sendable
      BY DEF Sendable
    <2> QED
      BY <1>1, <2>1, AppendProperties
  <1>3. TypeOK'
    <2>1. Len(cmds') <= 6 /\ \A i \in DOMAIN cmds' : cmds'[i].cmd \in Commands
      BY <1>2, SentTypes
    <2> QED
      BY <1>1, <2>1 DEF TypeOK
  <1>4. ModeSeen' /\ HasTargets' /\ SentBound' /\ CountBehind'
    BY <1>1, <1>2 DEF ModeSeen, HasTargets, SentBound, CountBehind
  <1>5. ShapeInv'
    BY <1>1 DEF ShapeInv, SearchShape, IdleShape, TrackShape
  <1> QED
    BY <1>1, <1>3, <1>4, <1>5

(* Guidance of a PTZ that tracks: the count has gone through a period.     *)
LEMMA TrackingGuidance ==
    ASSUME GuidanceInv, GuideTracking
    PROVE  GuidanceInv' /\ (pc' = "guided" => quiet >= Period)
  <1> USE DEF GuidanceInv
  <1>1. /\ pc = "tracking" /\ targets # NULL /\ targets \in Packs /\ work_mode \in during
        /\ cmds \in Seq(Sendable) /\ Len(cmds) <= 4 /\ Len(cmds) \in Nat
        /\ track_cnt \in 0 .. Period /\ quiet \in 0 .. Period /\ track_cnt <= quiet
        /\ UNCHANGED <<work_mode, target_num, targets, firstGuide, since, track_cnt,
                       prev_mode, during>>
    BY LenProperties
    DEF GuideTracking, reports, counters, TypeOK, HasTargets, ModeSeen, SentBound,
        CountBehind
  <1>2. CASE work_mode = "track" /\ track_cnt # 0 /\ track_cnt % Period = 0
    <2>1. PICK s \in Sends(targets) : cmds' = cmds \o s
      BY <1>2 DEF GuideTracking
    <2>2. /\ cmds' \in Seq(Sendable) /\ Len(cmds') \in Nat /\ Len(cmds') <= 6
          /\ cmds = <<>> => cmds' = s
      BY ONLY <1>1, <2>1, SendMore
    <2>3. pc' = "guided" /\ quiet' = 0
      BY <1>2 DEF GuideTracking
    <2>4. track_cnt = Period
      BY <1>1, <1>2, Remainder
    <2>5. TypeOK'
      <3>1. Len(cmds') <= 6 /\ \A i \in DOMAIN cmds' : cmds'[i].cmd \in Commands
        BY <2>2, SentTypes
      <3> QED
        BY <1>1, <2>3, <3>1, GuidanceAssumption DEF TypeOK
    <2>6. ModeSeen' /\ HasTargets' /\ SentBound'
      BY <1>1, <2>2, <2>3 DEF ModeSeen, HasTargets, SentBound
    <2>7. CountBehind'
      BY <1>1, <1>2, <2>3 DEF CountBehind
    <2>8. ShapeInv'
      BY <1>1, <1>2, <2>1, <2>2, <2>3 DEF ShapeInv, SearchShape, IdleShape, TrackShape
    <2>9. quiet >= Period
      BY <1>1, <2>4, GuidanceAssumption
    <2> QED
      BY <1>1, <2>5, <2>6, <2>7, <2>8, <2>9
  <1>3. CASE ~(work_mode = "track" /\ track_cnt # 0 /\ track_cnt % Period = 0)
    <2>1. pc' = "return" /\ UNCHANGED <<cmds, quiet>>
      BY <1>3 DEF GuideTracking
    <2>2. TypeOK'
      BY <1>1, <2>1 DEF TypeOK
    <2>3. ModeSeen' /\ HasTargets' /\ SentBound'
      BY <1>1, <2>1 DEF ModeSeen, HasTargets, SentBound
    <2>4. CountBehind'
      <3>1. track_cnt % Period <= track_cnt /\ track_cnt % Period \in Int
        BY <1>1, Remainder
      <3>2. \A a, b, c \in Int : a <= b /\ b <= c => a <= c
        OBVIOUS
      <3>3. track_cnt \in Int /\ quiet \in Int
        BY <1>1
      <3>4. track_cnt % Period <= quiet
        BY ONLY <1>1, <3>1, <3>2, <3>3
      <3> QED
        BY <1>1, <2>1, <3>4 DEF CountBehind
    <2>5. ShapeInv'
      BY <1>1, <2>1 DEF ShapeInv, SearchShape, IdleShape, TrackShape
    <2> QED
      BY <1>1, <2>1, <2>2, <2>3, <2>4, <2>5
  <1> QED
    BY <1>2, <1>3

(* The round ends, and with it what it sent.                               *)
LEMMA ReturnGuidance ==
    ASSUME GuidanceInv, Return
    PROVE  GuidanceInv'
  <1> USE DEF GuidanceInv
  <1>1. /\ pc \in {"guided", "return"} /\ pc' = "wait" /\ targets' = NULL
        /\ cmds' = <<>> /\ during' = {}
        /\ UNCHANGED <<work_mode, target_num, firstGuide, since, track_cnt, prev_mode, quiet>>
    BY DEF Return, reports, counters
  <1>2. cmds' \in Seq(Sendable) /\ Len(cmds') = 0 /\ DOMAIN cmds' = {}
    BY <1>1, EmptySeq
  <1>3. TypeOK'
    <2>1. Len(cmds') <= 6 /\ \A i \in DOMAIN cmds' : cmds'[i].cmd \in Commands
      BY <1>2
    <2> QED
      BY <1>1, <2>1 DEF TypeOK
  <1>4. ModeSeen' /\ HasTargets' /\ CountBehind'
    BY <1>1 DEF ModeSeen, HasTargets, CountBehind
  <1>5. SentBound'
    BY <1>1, <1>2 DEF SentBound
  <1>6. ShapeInv'
    BY <1>1 DEF ShapeInv, SearchShape, IdleShape, TrackShape
  <1> QED
    BY <1>1, <1>3, <1>4, <1>5, <1>6

(* GuidanceInv is inductive.                                               *)
LEMMA StepGuidance == GuidanceInv /\ [Next]_vars => GuidanceInv'
  <1> SUFFICES ASSUME GuidanceInv, [Next]_vars PROVE GuidanceInv'
    OBVIOUS
  <1>1. CASE UNCHANGED vars
    BY <1>1
    DEF vars, reports, counters, GuidanceInv, TypeOK, ModeSeen, HasTargets, SentBound,
        ShapeInv, SearchShape, IdleShape, TrackShape, CountBehind
  <1>2. CASE Next
    BY <1>2, ReportGuidance, BeginGuidance, ReadGuidance, CountGuidance, IdleGuidance,
       SearchGuidance, TrackingGuidance, ReturnGuidance DEF Next, Run
  <1> QED
    BY <1>1, <1>2

-----------------------------------------------------------------------------
(* What a guidance of an idle PTZ, and the search after it, amount to.     *)
LEMMA OneAddress ==
    ASSUME NEW p \in Packs, NEW s \in Sends(p), NEW c,
           c = s \/ c = Append(s, Search)
    PROVE  /\ \A i, j \in DOMAIN c :
                 c[i].cmd = "address" /\ c[j].cmd = "address" => i = j
           /\ (\E i \in DOMAIN c : c[i].cmd = "address") <=> Guide(p) # {}
           /\ c = s => \A i \in DOMAIN c : c[i].cmd = "stop" =>
                 i + 1 \in DOMAIN c /\ c[i + 1].cmd = "address"
  <1>1. /\ s \in Seq(Sendable) /\ Search \in Sendable
        /\ DOMAIN s = 1 .. Len(s) /\ Len(s) \in Nat
    BY SendsForm, LenProperties DEF Sendable
  <1>2. \/ c = s /\ DOMAIN c = 1 .. Len(s)
        \/ /\ c # s /\ DOMAIN c = 1 .. Len(s) + 1
           /\ c[Len(s) + 1] = Search /\ \A i \in 1 .. Len(s) : c[i] = s[i]
    <2>1. CASE c = s
      BY <1>1, <2>1
    <2>2. CASE c = Append(s, Search) /\ c # s
      <3>1. c \in Seq(Sendable) /\ Len(c) = Len(s) + 1
        BY ONLY <1>1, <2>2, AppendProperties
      <3>2. c[Len(s) + 1] = Search
        BY ONLY <1>1, <2>2, AppendProperties
      <3>3. \A i \in 1 .. Len(s) : Append(s, Search)[i] = s[i]
        BY <1>1, AppendProperties, Zenon
      <3>4. DOMAIN c = 1 .. Len(s) + 1
        BY <3>1, LenProperties
      <3> QED
        BY <2>2, <3>2, <3>3, <3>4, Zenon
    <2> QED
      BY <2>1, <2>2
  <1>3. Search.cmd = "search" /\ Stop.cmd = "stop"
    BY DEF Search, Stop
  <1>4. CASE s = <<>>
    BY <1>1, <1>2, <1>3, <1>4, SendsForm
  <1>5. CASE Len(s) = 1 /\ s[1].cmd = "address"
    BY <1>1, <1>2, <1>3, <1>5, SendsForm
  <1>6. CASE Len(s) = 2 /\ s[1] = Stop /\ s[2].cmd = "address"
    BY <1>1, <1>2, <1>3, <1>6, SendsForm
  <1> QED
    BY <1>4, <1>5, <1>6, SendsForm DEF Guidance

(* Types.  A call sends at most a stop, two guidances and a search, and    *)
(* its counters stay in their ranges.                                      *)
THEOREM GuidanceTypes == Spec => []TypeOK
  <1>1. GuidanceInv => TypeOK
    BY DEF GuidanceInv
  <1> QED
    BY <1>1, InitGuidance, StepGuidance, PTL DEF Spec

(* ai_alg_run7 points an idle PTZ at a target on every frame that brings   *)
(* one to point at, and on no other, if the mode stays idle meanwhile:     *)
(* the interval never applies, since firstGuide is never cleared.          *)
THEOREM IdleGuided == Spec => []IdleAlwaysGuided
  <1>1. GuidanceInv => IdleAlwaysGuided
    <2> SUFFICES ASSUME GuidanceInv, Returning, during = {"idle"}, targets # NULL
                 PROVE  Addressed # {} <=> Guide(targets) # {}
      BY DEF IdleAlwaysGuided
    <2>1. targets \in Packs
      BY DEF GuidanceInv, TypeOK
    <2>2. PICK s \in Sends(targets) : cmds = s \/ cmds = Append(s, Search)
      BY DEF GuidanceInv, ShapeInv, IdleShape, Returning
    <2>3. (\E i \in DOMAIN cmds : cmds[i].cmd = "address") <=> Guide(targets) # {}
      BY <2>1, <2>2, OneAddress
    <2> QED
      BY <2>3 DEF Addressed
  <1> QED
    BY <1>1, InitGuidance, StepGuidance, PTL DEF Spec

(* A call sends two guidances only if the reported mode changed while it   *)
(* ran, and stops a PTZ that tracked all along only to point it anew.      *)
THEOREM GuidedOnce == Spec => []OneGuidance
  <1>1. GuidanceInv => OneGuidance
    <2> SUFFICES ASSUME GuidanceInv PROVE OneGuidance
      OBVIOUS
    <2> USE DEF GuidanceInv
    <2>1. ASSUME NEW m \in Modes, during = {m}
          PROVE  \A i, j \in Addressed : i = j
      <3>1. CASE m = "search"
        <4>1. cmds \in {<<>>, <<Stop>>}
          BY <2>1, <3>1 DEF ShapeInv, SearchShape
        <4> QED
          BY <4>1 DEF Addressed, Stop
      <3>2. CASE m # "search"
        <4>1. CASE cmds = <<>>
          BY <4>1 DEF Addressed
        <4>2. CASE cmds # <<>>
          <5>1. /\ targets \in Packs
                /\ \E s \in Sends(targets) : cmds = s \/ cmds = Append(s, Search)
            BY <2>1, <3>2, <4>2 DEF Modes, ShapeInv, IdleShape, TrackShape, ModeSeen,
                                    HasTargets, TypeOK
          <5> QED
            BY <5>1, OneAddress DEF Addressed
        <4> QED
          BY <4>1, <4>2
      <3> QED
        BY <3>1, <3>2
    <2>2. ASSUME during = {"track"}, NEW i \in DOMAIN cmds, cmds[i].cmd = "stop"
          PROVE  i + 1 \in Addressed
      <3>1. cmds # <<>>
        BY <2>2
      <3>2. targets \in Packs /\ cmds \in Sends(targets)
        BY <2>2, <3>1 DEF ShapeInv, TrackShape, HasTargets, TypeOK
      <3> QED
        BY <2>2, <3>2, OneAddress DEF Addressed
    <2> QED
      BY <2>1, <2>2 DEF OneGuidance
  <1> QED
    BY <1>1, InitGuidance, StepGuidance, PTL DEF Spec

(* Two guidances of a tracking PTZ are at least Period frames apart,       *)
(* whatever modes the UDP thread stores while a frame is handled.          *)
THEOREM TrackingUndisturbed == Spec => TrackingRarelyDisturbed
  <1>1. GuidanceInv /\ [Next]_vars =>
            [pc = "tracking" /\ pc' = "guided" => quiet >= Period]_vars
    <2> SUFFICES ASSUME GuidanceInv, Next, pc = "tracking", pc' = "guided"
                 PROVE  quiet >= Period
      OBVIOUS
    <2>1. GuideTracking
      BY DEF Next, Run, Begin, First, SaveMode, CountTrack, GuideIdle, SearchAndTracking,
             Return, ptz_target_info, ptz_dev_status
    <2> QED
      BY <2>1, TrackingGuidance
  <1> QED
    BY <1>1, InitGuidance, StepGuidance, PTL DEF Spec, TrackingRarelyDisturbed
=============================================================================
