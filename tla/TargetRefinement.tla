-------------------------- MODULE TargetRefinement --------------------------
(***************************************************************************)
(* The channel that the target pipeline implements.  While the algorithm   *)
(* is initialised, the pending targets are those in the list or the slot,  *)
(* in the hands of the task thread, in the queue and in the hands of the   *)
(* blocked senders.                                                        *)
(***************************************************************************)
EXTENDS TargetPipeline, Functions

(* The message a pointer leads to.                                         *)
One(m) == {m} \ {NULL}

IsUp == mainpc = "up"
Pending(listed, kind) ==
    IF IsUp
    THEN {m \in listed \cup One(cur) \cup Range(mq) \cup Range(waiters) : m.kind = kind}
    ELSE {}

PendingDevs  == Pending(Range(head), "dev")
PendingUsers == Pending(One(user_target), "user")
LastPosted   == IF IsUp THEN posted ELSE 0
InHand       == IF IsUp THEN target_node ELSE NULL

Channel == INSTANCE TargetChannel WITH
    Targets  <- [n : 1..MaxPost, kind : TargetKind, from : Producers],
    Keep     <- NodeMax + 1,
    NoMemory <- CanFail,
    up       <- IsUp,
    last     <- LastPosted,
    devs     <- PendingDevs,
    users    <- PendingUsers,
    hand     <- InHand

(* The pipeline, with its queue, its two threads, its drop-oldest list and *)
(* its shutdown, implements the lossy channel of TargetChannel: targets    *)
(* are taken in post order, and lost only where insert_target_to_head      *)
(* discards them.                                                          *)
ImplementsChannel == Channel!Spec
=============================================================================
