----------------------------- MODULE AlinkOrder ------------------------------
(***************************************************************************)
(* What becomes of a package that was received: alink_order_task of        *)
(* srv/alink/analysis/alink_order.c with the handlers of                   *)
(* srv/alink/command, up to the queue of the target pipeline.              *)
(*                                                                         *)
(* Every connection has a thread.  The threads of all radars share one     *)
(* order (command table, answer buffer, mutex), those of all C2 links      *)
(* another.  The mutex is held while a handler runs, and a handler that    *)
(* posts a target waits, with it, while the queue is full.  The radar      *)
(* package is assembled in one static variable.                            *)
(*                                                                         *)
(* Handlers fill in an answer; nothing sends it (the call is commented     *)
(* out), so answers are left out.                                          *)
(***************************************************************************)
EXTENDS Integers, Sequences

CONSTANTS
    Radars, C2s,   (* connection threads                                   *)
    Depth,         (* messages the queue holds                             *)
    MaxMsgs,       (* bound: packages each connection receives             *)
    NULL

ASSUME OrderAssumption ==
    /\ Radars \cap C2s = {} /\ NULL \notin Radars \cup C2s
    /\ Depth \in Nat \ {0} /\ MaxMsgs \in [Radars \cup C2s -> Nat]

Threads == Radars \cup C2s
Orders  == {"server", "c2"}

VARIABLES
    pc,      (* alink_order_task of each thread                            *)
    msg,     (* the package it handles                                     *)
    sent,    (* packages it received so far                                *)
    mutex,   (* holder of psOrder->mutex, per order                        *)
    pack,    (* alink_track.c: the static radar package                    *)
    block,   (* the block msg_send_to_alg posts                            *)
    mq,      (* the queue of the algorithm's task                          *)
    byDevId  (* sUpload.byDevId                                            *)

vars == <<pc, msg, sent, mutex, pack, block, mq, byDevId>>

OrderOf(t) == IF t \in Radars THEN "server" ELSE "c2"

(* The commands registered with each order by alink_track_init,            *)
(* alink_target_init and alink_system_init, all before a connection can    *)
(* be made.                                                                *)
Registered ==
    [server |-> {"tracked", "attitude", "tracer"},
     c2     |-> {"set_status", "system", "user_target"}]

(* "tracer" stands for droneid and remoteid, "system" for get_info,        *)
(* heartbeat_ext and set_sn, which only fill in their answer.              *)

(* A package: its command, or "ignored" for one that nobody registered or  *)
(* whose payload is shorter than the command asks for; and which it is.    *)
Packages(t) ==
    [cmd : Registered[OrderOf(t)] \cup {"ignored"}, from : {<<t, sent[t] + 1>>}]

(* Handlers that post a target.                                            *)
Posting == {"tracked", "tracer", "user_target"}

Init ==
    /\ pc = [t \in Threads |-> "idle"]
    /\ msg = [t \in Threads |-> NULL]
    /\ sent = [t \in Threads |-> 0]
    /\ mutex = [o \in Orders |-> NULL]
    /\ pack = [tracked |-> NULL, attitude |-> NULL]
    /\ block = [t \in Threads |-> NULL]
    /\ mq = <<>>
    /\ byDevId = "agx"

-----------------------------------------------------------------------------
(* The receive machine has found a package.                                *)
Receive(t) ==
    /\ pc[t] = "idle" /\ sent[t] < MaxMsgs[t]
    /\ \E m \in Packages(t) : msg' = [msg EXCEPT ![t] = m]
    /\ sent' = [sent EXCEPT ![t] = @ + 1]
    /\ pc' = [pc EXCEPT ![t] = "lock"]
    /\ UNCHANGED <<mutex, pack, block, mq, byDevId>>

(* Mutated: the order is not locked.                                       *)
Free_Always(t) == TRUE

Free(t) == mutex[OrderOf(t)] = NULL

Lock(t) ==
    /\ pc[t] = "lock" /\ Free(t)
    /\ mutex' = [mutex EXCEPT ![OrderOf(t)] = t]
    /\ pc' = [pc EXCEPT ![t] = "find"]
    /\ UNCHANGED <<msg, sent, pack, block, mq, byDevId>>

(* The walk through the table and the check of the length.                 *)
Handled(m, t) == m.cmd \in Registered[OrderOf(t)]

(* The handler runs: the radar's are track_pkg_tracked and                 *)
(* track_pkg_attitude, which write the static package; system_set_status   *)
(* may set the id that uploads carry.                                      *)
Handle(t) ==
    /\ pc[t] = "find" /\ Handled(msg[t], t)
    /\ pack' = CASE msg[t].cmd = "tracked"  -> [pack EXCEPT !.tracked = msg[t].from]
                 [] msg[t].cmd = "attitude" -> [pack EXCEPT !.attitude = msg[t].from]
                 [] OTHER -> pack
    /\ \/ msg[t].cmd = "set_status" /\ byDevId' = "radar"
       \/ UNCHANGED byDevId
    /\ pc' = [pc EXCEPT ![t] = IF msg[t].cmd \in Posting THEN "copy" ELSE "unlock"]
    /\ UNCHANGED <<msg, sent, mutex, block, mq>>

(* Mutated: a short payload returns at once.                               *)
Ignore_Return(t) ==
    /\ pc[t] = "find" /\ ~Handled(msg[t], t)
    /\ pc' = [pc EXCEPT ![t] = "idle"]
    /\ msg' = [msg EXCEPT ![t] = NULL]
    /\ UNCHANGED <<sent, mutex, pack, block, mq, byDevId>>

Ignore(t) ==
    /\ pc[t] = "find" /\ ~Handled(msg[t], t)
    /\ pc' = [pc EXCEPT ![t] = "unlock"]
    /\ UNCHANGED <<msg, sent, mutex, pack, block, mq, byDevId>>

(* msg_send_to_alg: a block is allocated and the package copied, unless    *)
(* there is no memory.  The radar's package is the whole static variable,  *)
(* with the attitude that some radar left there; the others come from the  *)
(* handler's stack.                                                        *)
Copy(t) ==
    /\ pc[t] = "copy"
    /\ \/ /\ block' = [block EXCEPT ![t] =
                [type |-> msg[t].cmd,
                 data |-> IF msg[t].cmd = "tracked" THEN pack.tracked ELSE msg[t].from,
                 attitude |-> IF msg[t].cmd = "tracked" THEN pack.attitude ELSE NULL,
                 from |-> msg[t].from]]
          /\ pc' = [pc EXCEPT ![t] = "post"]
       \/ /\ pc' = [pc EXCEPT ![t] = "unlock"]
          /\ UNCHANGED block
    /\ UNCHANGED <<msg, sent, mutex, pack, mq, byDevId>>

(* mq_send waits while the queue is full.                                  *)
Post(t) ==
    /\ pc[t] = "post" /\ Len(mq) < Depth
    /\ mq' = Append(mq, block[t])
    /\ block' = [block EXCEPT ![t] = NULL]
    /\ pc' = [pc EXCEPT ![t] = "unlock"]
    /\ UNCHANGED <<msg, sent, mutex, pack, byDevId>>

Unlock(t) ==
    /\ pc[t] = "unlock"
    /\ mutex' = [mutex EXCEPT ![OrderOf(t)] = NULL]
    /\ msg' = [msg EXCEPT ![t] = NULL]
    /\ pc' = [pc EXCEPT ![t] = "idle"]
    /\ UNCHANGED <<sent, pack, block, mq, byDevId>>

(* The task thread of the pipeline takes a target.                         *)
Take ==
    /\ mq # <<>>
    /\ mq' = Tail(mq)
    /\ UNCHANGED <<pc, msg, sent, mutex, pack, block, byDevId>>

Task(t) == Lock(t) \/ Handle(t) \/ Ignore(t) \/ Copy(t) \/ Post(t) \/ Unlock(t)

Next == Take \/ \E t \in Threads : Receive(t) \/ Task(t)

Spec == Init /\ [][Next]_vars

(* Threads run, and the task thread takes what is queued.                  *)
FairSpec == Spec /\ WF_vars(Take) /\ \A t \in Threads : WF_vars(Task(t))

-----------------------------------------------------------------------------
Origins == UNION {{t} \X (1 .. MaxMsgs[t]) : t \in Threads}
Blocks  ==
    [type : Posting, data : Origins, attitude : Origins \cup {NULL}, from : Origins]

(* Types; a thread past its lock holds its order's mutex, alone.           *)
TypeOK ==
    /\ pc \in [Threads -> {"idle", "lock", "find", "copy", "post", "unlock"}]
    /\ \A t \in Threads : pc[t] # "idle" => msg[t].from = <<t, sent[t]>>
    /\ sent \in [Threads -> Nat] /\ \A t \in Threads : sent[t] <= MaxMsgs[t]
    /\ mutex \in [Orders -> Threads \cup {NULL}]
    /\ \A t \in Threads : pc[t] \notin {"idle", "lock"} => mutex[OrderOf(t)] = t
    /\ pack.tracked \in Origins \cup {NULL} /\ pack.attitude \in Origins \cup {NULL}
    /\ block \in [Threads -> Blocks \cup {NULL}]
    /\ mq \in Seq(Blocks) /\ Len(mq) <= Depth
    /\ byDevId \in {"agx", "radar"}

(* Of two attitudes of one radar, a is not the newer.                      *)
NotNewer(a, b) == a # NULL /\ b # NULL /\ a[1] = b[1] => a[2] <= b[2]

(* All radars assemble their targets in one static variable, and post it   *)
(* whole (alink_track.c, alink_order.c).  A queued target is the one its   *)
(* own connection received, and a connection's targets are queued in the   *)
(* order they arrived.  The attitude beside a target need not be its       *)
(* radar's: it is whichever a radar sent last, or none.  But a radar's     *)
(* attitudes never go back in the queue, and one that is the target's own  *)
(* radar's arrived before the target.                                      *)
PostedOwn ==
    /\ \A i \in DOMAIN mq :
          /\ mq[i].data = mq[i].from
          /\ mq[i].attitude # NULL /\ mq[i].attitude[1] = mq[i].from[1]
             => mq[i].attitude[2] < mq[i].from[2]
    /\ \A i, j \in DOMAIN mq : i < j =>
          /\ mq[i].from[1] = mq[j].from[1] => mq[i].from[2] < mq[j].from[2]
          /\ NotNewer(mq[i].attitude, mq[j].attitude)

(* An order that is taken is given back, whatever the package was: no      *)
(* early return keeps it, and the wait for a full queue ends as long as    *)
(* the task thread runs.                                                   *)
OrderReleased == \A t \in Threads : pc[t] = "find" ~> mutex[OrderOf(t)] # t
=============================================================================
