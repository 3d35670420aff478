-------------------------- MODULE AlinkOrderProofs --------------------------
(***************************************************************************)
(* Proofs about the dispatch of received packages, for any number of       *)
(* radars and C2 stations, any capacity of the queue and any number of     *)
(* packages.                                                               *)
(*                                                                         *)
(* PostedOwn is not inductive: a target is posted from the static package  *)
(* by way of a block.  OrderInv follows it there.  What a thread is about  *)
(* to copy or to post is its own package (CopiesOwn, HoldsOwn), which      *)
(* needs that the threads of one order exclude each other (a conjunct of   *)
(* TypeOK); and nothing queued is newer than what its connection has       *)
(* received (NotAhead), which keeps the queue in order.  The attitude that *)
(* travels with a target may be another radar's; AttitudesOrdered follows  *)
(* it from the static package to the queue: none is ahead of its own       *)
(* radar, and none of a radar's is newer than the one of that radar in the *)
(* package, nor is a queued one newer than one that is about to be posted. *)
(***************************************************************************)
EXTENDS AlinkOrder, SequenceTheorems, TLAPS

Cmds == {"tracked", "attitude", "tracer", "set_status", "system", "user_target", "ignored"}

(* The package a thread works on.                                          *)
HandlesOwn ==
    \A t \in Threads : pc[t] # "idle" =>
        /\ sent[t] \in 1 .. MaxMsgs[t]
        /\ msg[t] \in [cmd : Cmds, from : {<<t, sent[t]>>}]
        /\ msg[t].cmd = "tracked" => t \in Radars

(* What it is about to copy, and what it is about to post.                 *)
CopiesOwn ==
    \A t \in Threads : pc[t] = "copy" =>
        /\ msg[t].cmd \in Posting
        /\ msg[t].cmd = "tracked" => t \in Radars /\ pack.tracked = <<t, sent[t]>>

HoldsOwn ==
    \A t \in Threads : pc[t] = "post" =>
        /\ block[t] \in Blocks
        /\ block[t].data = <<t, sent[t]>> /\ block[t].from = <<t, sent[t]>>

(* Queued targets were received before the one a thread works on.          *)
NotAhead ==
    \A i \in DOMAIN mq : \A t \in Threads : mq[i].from[1] = t =>
        /\ mq[i].from[2] <= sent[t]
        /\ pc[t] \in {"lock", "find", "copy", "post"} => mq[i].from[2] < sent[t]

(* An attitude is not ahead of what its radar has received, and older than *)
(* a package that the radar has yet to handle or to post.                  *)
Known(a) ==
    a # NULL => \A t \in Threads : a[1] = t =>
        /\ a[2] <= sent[t]
        /\ pc[t] \in {"lock", "find", "copy", "post"} => a[2] < sent[t]

AttitudesOrdered ==
    /\ Known(pack.attitude)
    /\ \A i \in DOMAIN mq :
          Known(mq[i].attitude) /\ NotNewer(mq[i].attitude, pack.attitude)
    /\ \A t \in Threads : pc[t] = "post" =>
          /\ Known(block[t].attitude) /\ NotNewer(block[t].attitude, pack.attitude)
          /\ block[t].attitude # NULL => t \in Radars
          /\ \A i \in DOMAIN mq : NotNewer(mq[i].attitude, block[t].attitude)

PackType ==
    pack \in [tracked : Origins \cup {NULL}, attitude : Origins \cup {NULL}]
MsgType == DOMAIN msg = Threads

OrderInv ==
    /\ TypeOK /\ PackType /\ MsgType
    /\ HandlesOwn /\ CopiesOwn /\ HoldsOwn /\ NotAhead /\ AttitudesOrdered /\ PostedOwn

-----------------------------------------------------------------------------
(* Where a package comes from: a connection and a place in its stream.     *)
LEMMA OriginFacts ==
    /\ \A t \in Threads : \A n \in 1 .. MaxMsgs[t] : <<t, n>> \in Origins
    /\ \A o \in Origins : o[1] \in Threads /\ o[2] \in Nat /\ o = <<o[1], o[2]>>
  <1>1. \A t \in Threads : MaxMsgs[t] \in Nat
    BY OrderAssumption DEF Threads
  <1>2. \A t \in Threads : \A n \in 1 .. MaxMsgs[t] : <<t, n>> \in Origins
    BY <1>1 DEF Origins
  <1>3. ASSUME NEW o \in Origins
        PROVE  o[1] \in Threads /\ o[2] \in Nat /\ o = <<o[1], o[2]>>
    <2>1. PICK t \in Threads : o \in {t} \X (1 .. MaxMsgs[t])
      BY DEF Origins
    <2> QED
      BY <1>1, <2>1
  <1> QED
    BY <1>2, <1>3

(* The threads of one order: a radar's and a C2's never share one.         *)
LEMMA OrderFacts ==
    /\ \A t \in Threads : OrderOf(t) \in Orders
    /\ \A t \in Threads : t \in Radars <=> OrderOf(t) = "server"
    /\ NULL \notin Threads
    /\ \A t \in Threads : Registered[OrderOf(t)] \subseteq Cmds
    /\ \A t \in Threads : "tracked" \in Registered[OrderOf(t)] => t \in Radars
  BY OrderAssumption DEF Threads, Orders, OrderOf, Registered, Cmds

(* At the start every thread is idle and nothing is posted.                *)
LEMMA InitOrder == Init => OrderInv
  <1> SUFFICES ASSUME Init PROVE OrderInv
    OBVIOUS
  <1>1. TypeOK /\ PackType /\ MsgType
    BY OrderAssumption, OrderFacts
    DEF Init, TypeOK, PackType, MsgType, Threads, Origins
  <1>2. HandlesOwn /\ CopiesOwn /\ HoldsOwn
    BY DEF Init, HandlesOwn, CopiesOwn, HoldsOwn
  <1>3. NotAhead /\ AttitudesOrdered /\ PostedOwn
    BY DEF Init, NotAhead, AttitudesOrdered, Known, NotNewer, PostedOwn
  <1> QED
    BY <1>1, <1>2, <1>3 DEF OrderInv

(* What the queue holds.                                                   *)
LEMMA QueueFacts ==
    ASSUME mq \in Seq(Blocks)
    PROVE  /\ DOMAIN mq = 1 .. Len(mq) /\ Len(mq) \in Nat
           /\ \A i \in DOMAIN mq : mq[i] \in Blocks
           /\ \A i \in DOMAIN mq : mq[i].from[1] \in Threads /\ mq[i].from[2] \in Nat
           /\ \A i \in DOMAIN mq : mq[i].attitude \in Origins \cup {NULL}
  <1>1. /\ DOMAIN mq = 1 .. Len(mq) /\ Len(mq) \in Nat
        /\ \A i \in DOMAIN mq : mq[i] \in Blocks
    BY LenProperties, ElementOfSeq
  <1>2. \A b \in Blocks : b.from \in Origins /\ b.attitude \in Origins \cup {NULL}
    BY DEF Blocks
  <1> QED
    BY <1>1, <1>2, OriginFacts

(* Receiving a package: it is newer than all that connection has queued.   *)
LEMMA ReceiveOrder ==
    ASSUME OrderInv, NEW t \in Threads, Receive(t)
    PROVE  OrderInv'
  <1> USE DEF OrderInv
  <1>1. MaxMsgs[t] \in Nat /\ sent[t] \in Nat /\ sent[t] + 1 <= MaxMsgs[t]
    BY OrderAssumption DEF Receive, TypeOK, Threads
  <1>2. /\ pc' = [pc EXCEPT ![t] = "lock"] /\ sent' = [sent EXCEPT ![t] = @ + 1]
        /\ msg'[t] \in [cmd : Cmds, from : {<<t, sent[t] + 1>>}]
        /\ msg'[t].cmd = "tracked" => t \in Radars
        /\ DOMAIN msg' = Threads /\ \A u \in Threads : u # t => msg'[u] = msg[u]
        /\ UNCHANGED <<mutex, pack, block, mq, byDevId>> /\ pc[t] = "idle"
    BY OrderFacts DEF Receive, Packages, MsgType, Cmds
  <1>3. TypeOK' /\ PackType' /\ MsgType'
    BY <1>1, <1>2 DEF TypeOK, PackType, MsgType
  <1>4. HandlesOwn'
    BY <1>1, <1>2 DEF HandlesOwn, TypeOK
  <1>5. /\ pc'[t] = "lock" /\ sent'[t] = sent[t] + 1
        /\ \A u \in Threads : u # t => pc'[u] = pc[u] /\ sent'[u] = sent[u]
    BY <1>2 DEF TypeOK
  <1>6. CopiesOwn'
    BY <1>2, <1>5 DEF CopiesOwn
  <1>7. HoldsOwn'
    BY <1>2, <1>5 DEF HoldsOwn
  <1>8. NotAhead'
    <2>1. \A i \in DOMAIN mq : mq[i].from[2] \in Nat
      BY QueueFacts DEF TypeOK
    <2> QED
      BY <1>1, <1>2, <1>5, <2>1 DEF NotAhead
  <1>9. PostedOwn'
    BY <1>2 DEF PostedOwn, NotNewer
  <1>10. AttitudesOrdered'
    <2>1. \A a \in Origins \cup {NULL} : Known(a) => Known(a)'
      BY <1>1, <1>5, OriginFacts DEF Known
    <2>2. \A i \in DOMAIN mq : mq[i].attitude \in Origins \cup {NULL}
      BY QueueFacts DEF TypeOK
    <2>3. \A u \in Threads : pc[u] = "post" => block[u].attitude \in Origins \cup {NULL}
      BY DEF HoldsOwn, Blocks
    <2>4. pack.attitude \in Origins \cup {NULL}
      BY DEF TypeOK
    <2> QED
      BY <1>2, <1>5, <2>1, <2>2, <2>3, <2>4 DEF AttitudesOrdered, NotNewer
  <1> QED
    BY <1>3, <1>4, <1>6, <1>7, <1>8, <1>9, <1>10

(* Taking and giving back the mutex of an order, and a package that nobody *)
(* handles: the threads of the other order, and those of this one that do  *)
(* not hold the mutex, are where they were.                                *)
LEMMA LockOrder ==
    ASSUME OrderInv, NEW t \in Threads, Lock(t) \/ Ignore(t) \/ Unlock(t)
    PROVE  OrderInv'
  <1> USE DEF OrderInv
  <1>1. /\ UNCHANGED <<sent, pack, block, mq, byDevId>>
        /\ DOMAIN msg' = Threads
        /\ \A u \in Threads : u # t => pc'[u] = pc[u] /\ msg'[u] = msg[u]
        /\ \/ pc[t] = "lock" /\ pc'[t] = "find" /\ msg'[t] = msg[t]
           \/ pc[t] = "find" /\ pc'[t] = "unlock" /\ msg'[t] = msg[t]
           \/ pc[t] = "unlock" /\ pc'[t] = "idle"
    BY DEF Lock, Ignore, Unlock, TypeOK, MsgType
  <1>2. pc' \in [Threads -> {"idle", "lock", "find", "copy", "post", "unlock"}]
    <2>1. pc \in [Threads -> {"idle", "lock", "find", "copy", "post", "unlock"}]
      BY DEF TypeOK
    <2> QED
      BY <2>1 DEF Lock, Ignore, Unlock
  <1>3. /\ mutex' \in [Orders -> Threads \cup {NULL}]
        /\ \A u \in Threads : pc'[u] \notin {"idle", "lock"} => mutex'[OrderOf(u)] = u
    <2>1. /\ mutex \in [Orders -> Threads \cup {NULL}]
          /\ \A u \in Threads : pc[u] \notin {"idle", "lock"} => mutex[OrderOf(u)] = u
      BY DEF TypeOK
    <2>2. CASE Lock(t)
      BY <1>1, <2>1, <2>2, OrderFacts DEF Lock, Free
    <2>3. CASE Ignore(t)
      BY <1>1, <2>1, <2>3 DEF Ignore
    <2>4. CASE Unlock(t)
      BY <1>1, <2>1, <2>4, OrderFacts DEF Unlock
    <2> QED
      BY <2>2, <2>3, <2>4
  <1>4. TypeOK' /\ PackType' /\ MsgType'
    <2>1. \A u \in Threads : pc'[u] # "idle" => msg'[u].from = <<u, sent'[u]>>
      BY <1>1 DEF TypeOK
    <2> QED
      BY <1>1, <1>2, <1>3, <2>1 DEF TypeOK, PackType, MsgType
  <1>5. HandlesOwn' /\ CopiesOwn' /\ HoldsOwn'
    BY <1>1 DEF HandlesOwn, CopiesOwn, HoldsOwn
  <1>6. NotAhead' /\ PostedOwn'
    BY <1>1 DEF NotAhead, PostedOwn, NotNewer
  <1>7. AttitudesOrdered'
    <2>1. \A a : Known(a) => Known(a)'
      BY <1>1 DEF Known
    <2> QED
      BY <1>1, <2>1 DEF AttitudesOrdered, NotNewer
  <1> QED
    BY <1>4, <1>5, <1>6, <1>7

(* A handler runs.  The one that writes the static package holds the       *)
(* radars' mutex, so no other radar is about to copy it.                   *)
LEMMA HandleOrder ==
    ASSUME OrderInv, NEW t \in Threads, Handle(t)
    PROVE  OrderInv'
  <1> USE DEF OrderInv
  <1>1. /\ UNCHANGED <<msg, sent, mutex, block, mq>>
        /\ pc[t] = "find" /\ mutex[OrderOf(t)] = t
        /\ pc' \in [Threads -> {"idle", "lock", "find", "copy", "post", "unlock"}]
        /\ pc'[t] = IF msg[t].cmd \in Posting THEN "copy" ELSE "unlock"
        /\ \A u \in Threads : u # t => pc'[u] = pc[u]
        /\ byDevId' \in {"agx", "radar"}
    BY DEF Handle, TypeOK
  <1>2. /\ sent[t] \in 1 .. MaxMsgs[t] /\ msg[t].from = <<t, sent[t]>>
        /\ msg[t].cmd = "tracked" => t \in Radars
        /\ <<t, sent[t]>> \in Origins
    BY <1>1, OriginFacts DEF HandlesOwn
  <1>3. PackType'
    BY <1>2 DEF Handle, PackType
  <1>4. /\ msg[t].cmd = "tracked" => pack'.tracked = <<t, sent[t]>>
        /\ msg[t].cmd # "tracked" => pack'.tracked = pack.tracked
        /\ msg[t].cmd = "attitude" => pack'.attitude = <<t, sent[t]>>
        /\ msg[t].cmd # "attitude" => pack'.attitude = pack.attitude
    BY <1>2 DEF Handle, PackType
  <1>5. TypeOK' /\ MsgType'
    <2>1. pack'.tracked \in Origins \cup {NULL} /\ pack'.attitude \in Origins \cup {NULL}
      BY <1>3 DEF PackType
    <2>2. \A u \in Threads : pc'[u] \notin {"idle", "lock"} => mutex'[OrderOf(u)] = u
      BY <1>1 DEF TypeOK
    <2>3. \A u \in Threads : pc'[u] # "idle" => msg'[u].from = <<u, sent'[u]>>
      BY <1>1 DEF TypeOK
    <2> QED
      BY <1>1, <2>1, <2>2, <2>3 DEF TypeOK, MsgType
  <1>6. CopiesOwn'
    <2>1. ASSUME NEW u \in Threads, pc'[u] = "copy", u # t, msg[u].cmd = "tracked"
          PROVE  msg[t].cmd # "tracked"
      BY <1>1, <1>2, <2>1, OrderFacts DEF CopiesOwn, TypeOK
    <2> QED
      BY <1>1, <1>2, <1>4, <2>1 DEF CopiesOwn
  <1>7. HandlesOwn' /\ HoldsOwn' /\ NotAhead' /\ PostedOwn'
    BY <1>1 DEF HandlesOwn, HoldsOwn, NotAhead, PostedOwn, NotNewer
  <1>8. AttitudesOrdered'
    <2>1. \A a : Known(a) => Known(a)'
      BY <1>1 DEF Known
    <2>2. ASSUME NEW a \in Origins \cup {NULL}, Known(a), NotNewer(a, pack.attitude)
          PROVE  NotNewer(a, pack'.attitude)
      <3>1. a # NULL /\ a[1] = t => a[2] < sent[t]
        BY <1>1, <2>2 DEF Known
      <3> QED
        BY <1>2, <1>4, <2>2, <3>1, OriginFacts, OrderAssumption DEF NotNewer
    <2>3. /\ \A i \in DOMAIN mq : mq[i].attitude \in Origins \cup {NULL}
          /\ \A u \in Threads : pc[u] = "post" => block[u].attitude \in Origins \cup {NULL}
      BY QueueFacts DEF HoldsOwn, Blocks, TypeOK
    <2>4. Known(pack.attitude)'
      <3>1. CASE msg[t].cmd = "attitude"
        <4>1. pc'[t] = "unlock"
          BY <1>1, <3>1 DEF Posting
        <4> QED
          BY <1>1, <1>2, <1>4, <3>1, <4>1, OrderAssumption DEF Known
      <3>2. CASE msg[t].cmd # "attitude"
        BY <1>4, <2>1, <3>2 DEF AttitudesOrdered
      <3> QED
        BY <3>1, <3>2
    <2>5. \A u \in Threads : pc'[u] = "post" => pc[u] = "post"
      BY <1>1
    <2> QED
      BY <1>1, <2>1, <2>2, <2>3, <2>4, <2>5 DEF AttitudesOrdered, NotNewer
  <1> QED
    BY <1>3, <1>5, <1>6, <1>7, <1>8

(* msg_send_to_alg copies the thread's own package, or runs out of memory. *)
LEMMA CopyOrder ==
    ASSUME OrderInv, NEW t \in Threads, Copy(t)
    PROVE  OrderInv'
  <1> USE DEF OrderInv
  <1>1. /\ UNCHANGED <<msg, sent, mutex, pack, mq, byDevId>>
        /\ pc[t] = "copy"
        /\ pc' \in [Threads -> {"idle", "lock", "find", "copy", "post", "unlock"}]
        /\ \A u \in Threads : u # t => pc'[u] = pc[u]
        /\ pc'[t] \in {"post", "unlock"}
    BY DEF Copy, TypeOK
  <1>2. /\ sent[t] \in 1 .. MaxMsgs[t] /\ msg[t].from = <<t, sent[t]>>
        /\ msg[t].cmd \in Posting
        /\ msg[t].cmd = "tracked" => t \in Radars /\ pack.tracked = <<t, sent[t]>>
        /\ <<t, sent[t]>> \in Origins
    BY <1>1, OriginFacts DEF HandlesOwn, CopiesOwn
  <1>3. /\ block' \in [Threads -> Blocks \cup {NULL}]
        /\ \A u \in Threads : u # t => block'[u] = block[u]
        /\ pc'[t] = "post" => /\ block'[t] \in Blocks
                             /\ block'[t].data = <<t, sent[t]>>
                             /\ block'[t].from = <<t, sent[t]>>
                             /\ \/ block'[t].attitude = NULL
                                \/ block'[t].attitude = pack.attitude /\ t \in Radars
    <2>1. CASE UNCHANGED block /\ pc'[t] = "unlock"
      BY <2>1 DEF TypeOK
    <2>2. CASE pc'[t] # "unlock"
      <3> DEFINE a == IF msg[t].cmd = "tracked" THEN pack.attitude ELSE NULL
                 b == [type |-> msg[t].cmd, data |-> <<t, sent[t]>>, attitude |-> a,
                       from |-> <<t, sent[t]>>]
      <3>1. block' = [block EXCEPT ![t] = b]
        BY <1>2, <2>2 DEF Copy, TypeOK
      <3>2. b \in Blocks
        BY <1>2 DEF Blocks, TypeOK
      <3>3. /\ b.data = <<t, sent[t]>> /\ b.from = <<t, sent[t]>>
            /\ b.attitude = NULL \/ (b.attitude = pack.attitude /\ t \in Radars)
        BY <1>2
      <3> HIDE DEF b
      <3> QED
        BY <3>1, <3>2, <3>3 DEF TypeOK
    <2> QED
      BY <1>1, <2>1, <2>2 DEF Copy, TypeOK
  <1>4. TypeOK' /\ PackType' /\ MsgType'
    <2>1. \A u \in Threads : pc'[u] \notin {"idle", "lock"} => mutex'[OrderOf(u)] = u
      BY <1>1 DEF TypeOK
    <2>2. \A u \in Threads : pc'[u] # "idle" => msg'[u].from = <<u, sent'[u]>>
      BY <1>1 DEF TypeOK
    <2>3. block' \in [Threads -> Blocks \cup {NULL}]
      BY <1>3
    <2> QED
      BY <1>1, <2>1, <2>2, <2>3 DEF TypeOK, PackType, MsgType
  <1>5. HandlesOwn' /\ CopiesOwn' /\ HoldsOwn'
    BY <1>1, <1>3 DEF HandlesOwn, CopiesOwn, HoldsOwn
  <1>6. NotAhead' /\ PostedOwn'
    BY <1>1 DEF NotAhead, PostedOwn, NotNewer
  <1>7. AttitudesOrdered'
    <2>1. \A a : Known(a) => Known(a)'
      BY <1>1 DEF Known
    <2>2. NotNewer(pack.attitude, pack.attitude)
      BY OriginFacts DEF NotNewer, TypeOK
    <2>3. pc'[t] = "post" =>
             /\ Known(block[t].attitude)' /\ NotNewer(block'[t].attitude, pack.attitude)
             /\ block'[t].attitude # NULL => t \in Radars
             /\ \A i \in DOMAIN mq : NotNewer(mq[i].attitude, block'[t].attitude)
      <3>1. Known(NULL)' /\ \A a : NotNewer(NULL, a) /\ NotNewer(a, NULL)
        BY DEF Known, NotNewer
      <3>2. Known(pack.attitude)'
        BY <1>1, <2>1 DEF AttitudesOrdered
      <3> QED
        BY <1>1, <1>3, <2>2, <3>1, <3>2 DEF AttitudesOrdered
    <2> QED
      BY <1>1, <1>3, <2>1, <2>3 DEF AttitudesOrdered, NotNewer
  <1> QED
    BY <1>4, <1>5, <1>6, <1>7

(* The block goes to the end of the queue, behind older ones of the same   *)
(* connection.                                                             *)
LEMMA QueueOrder ==
    ASSUME OrderInv, NEW t \in Threads, Post(t)
    PROVE  OrderInv'
  <1> USE DEF OrderInv
  <1>1. /\ UNCHANGED <<msg, sent, mutex, pack, byDevId>>
        /\ pc[t] = "post" /\ pc'[t] = "unlock"
        /\ pc' \in [Threads -> {"idle", "lock", "find", "copy", "post", "unlock"}]
        /\ \A u \in Threads : u # t => pc'[u] = pc[u] /\ block'[u] = block[u]
        /\ block' \in [Threads -> Blocks \cup {NULL}]
    BY DEF Post, TypeOK
  <1>2. /\ mq \in Seq(Blocks) /\ mq' = Append(mq, block[t]) /\ Len(mq) < Depth
        /\ block[t] \in Blocks
        /\ block[t].data = <<t, sent[t]>> /\ block[t].from = <<t, sent[t]>>
        /\ sent[t] \in Nat
    BY <1>1 DEF Post, TypeOK, HoldsOwn
  <1>3. /\ mq' \in Seq(Blocks) /\ Len(mq') <= Depth
        /\ DOMAIN mq = 1 .. Len(mq) /\ DOMAIN mq' = 1 .. Len(mq) + 1 /\ Len(mq) \in Nat
        /\ mq'[Len(mq) + 1] = block[t] /\ \A i \in DOMAIN mq : mq'[i] = mq[i]
    BY <1>2, AppendProperties, LenProperties, OrderAssumption
  <1>4. \A i \in DOMAIN mq : mq[i].from[1] \in Threads /\ mq[i].from[2] \in Nat
    BY <1>2, QueueFacts
  <1>5. \A i \in DOMAIN mq : mq[i].from[1] = t => mq[i].from[2] < sent[t]
    BY <1>1 DEF NotAhead
  <1>6. TypeOK' /\ PackType' /\ MsgType'
    <2>1. \A u \in Threads : pc'[u] \notin {"idle", "lock"} => mutex'[OrderOf(u)] = u
      BY <1>1 DEF TypeOK
    <2>2. \A u \in Threads : pc'[u] # "idle" => msg'[u].from = <<u, sent'[u]>>
      BY <1>1 DEF TypeOK
    <2> QED
      BY <1>1, <1>3, <2>1, <2>2 DEF TypeOK, PackType, MsgType
  <1>7. HandlesOwn' /\ CopiesOwn' /\ HoldsOwn'
    BY <1>1 DEF HandlesOwn, CopiesOwn, HoldsOwn
  <1>8. NotAhead'
    <2> SUFFICES ASSUME NEW i \in DOMAIN mq', NEW u \in Threads, mq'[i].from[1] = u
                 PROVE  /\ mq'[i].from[2] <= sent[u]
                        /\ pc'[u] \in {"lock", "find", "copy", "post"}
                           => mq'[i].from[2] < sent[u]
      BY <1>1 DEF NotAhead
    <2>1. CASE i \in DOMAIN mq
      BY <1>1, <1>3, <1>5, <2>1 DEF NotAhead
    <2>2. CASE i = Len(mq) + 1
      BY <1>1, <1>2, <1>3, <2>2
    <2> QED
      BY <1>3, <2>1, <2>2
  <1>9. PostedOwn'
    <2>1. ASSUME NEW i \in DOMAIN mq'
          PROVE  /\ mq'[i].data = mq'[i].from
                 /\ mq'[i].attitude # NULL /\ mq'[i].attitude[1] = mq'[i].from[1]
                    => mq'[i].attitude[2] < mq'[i].from[2]
      <3>1. Known(block[t].attitude)
        BY <1>1 DEF AttitudesOrdered
      <3>2. CASE i \in DOMAIN mq
        BY <1>3, <3>2 DEF PostedOwn
      <3>3. CASE i = Len(mq) + 1
        BY <1>1, <1>2, <1>3, <3>1, <3>3 DEF Known
      <3> QED
        BY <1>3, <3>2, <3>3
    <2>2. ASSUME NEW i \in DOMAIN mq', NEW j \in DOMAIN mq', i < j
          PROVE  /\ mq'[i].from[1] = mq'[j].from[1] => mq'[i].from[2] < mq'[j].from[2]
                 /\ NotNewer(mq'[i].attitude, mq'[j].attitude)
      <3>1. i \in DOMAIN mq
        BY <1>3, <2>2
      <3>2. CASE j \in DOMAIN mq
        BY <1>3, <2>2, <3>1, <3>2 DEF PostedOwn
      <3>3. CASE j = Len(mq) + 1
        BY <1>1, <1>2, <1>3, <1>5, <2>2, <3>1, <3>3 DEF AttitudesOrdered
      <3> QED
        BY <1>3, <3>2, <3>3
    <2> QED
      BY <2>1, <2>2 DEF PostedOwn, NotNewer
  <1>10. AttitudesOrdered'
    <2>1. \A a : Known(a) => Known(a)'
      BY <1>1 DEF Known
    <2>2. \A i \in DOMAIN mq' :
             Known(mq'[i].attitude) /\ NotNewer(mq'[i].attitude, pack.attitude)
      BY <1>1, <1>3 DEF AttitudesOrdered
    <2>3. ASSUME NEW u \in Threads, pc'[u] = "post", NEW i \in DOMAIN mq'
          PROVE  NotNewer(mq'[i].attitude, block[u].attitude)
      <3>1. u # t /\ pc[u] = "post" /\ mutex[OrderOf(u)] = u /\ mutex[OrderOf(t)] = t
        BY <1>1, <2>3 DEF TypeOK
      <3>2. CASE i \in DOMAIN mq
        BY <1>3, <3>1, <3>2 DEF AttitudesOrdered
      <3>3. CASE i = Len(mq) + 1
        <4>1. block[t].attitude = NULL \/ block[u].attitude = NULL
          BY <1>1, <3>1, OrderFacts DEF AttitudesOrdered
        <4> QED
          BY <1>3, <3>3, <4>1 DEF NotNewer
      <3> QED
        BY <1>3, <3>2, <3>3
    <2>4. \A u \in Threads : pc'[u] = "post" =>
             /\ block'[u] = block[u]
             /\ Known(block[u].attitude) /\ NotNewer(block[u].attitude, pack.attitude)
             /\ block[u].attitude # NULL => u \in Radars
      BY <1>1 DEF AttitudesOrdered
    <2>5. Known(pack.attitude)
      BY DEF AttitudesOrdered
    <2> QED
      BY <1>1, <2>1, <2>2, <2>3, <2>4, <2>5 DEF AttitudesOrdered, NotNewer
  <1> QED
    BY <1>6, <1>7, <1>8, <1>9, <1>10

(* The task thread takes the oldest target.                                *)
LEMMA TakeOrder ==
    ASSUME OrderInv, Take
    PROVE  OrderInv'
  <1> USE DEF OrderInv
  <1>1. /\ mq \in Seq(Blocks) /\ mq # <<>> /\ mq' = Tail(mq) /\ Len(mq) <= Depth
        /\ UNCHANGED <<pc, msg, sent, mutex, pack, block, byDevId>>
    BY DEF Take, TypeOK
  <1>2. /\ mq' \in Seq(Blocks) /\ Len(mq') = Len(mq) - 1 /\ Len(mq) \in Nat
        /\ DOMAIN mq = 1 .. Len(mq) /\ DOMAIN mq' = 1 .. Len(mq) - 1
        /\ \A i \in DOMAIN mq' : mq'[i] = mq[i + 1] /\ i + 1 \in DOMAIN mq
    BY <1>1, HeadTailProperties, LenProperties
  <1>3. TypeOK' /\ PackType' /\ MsgType'
    BY <1>1, <1>2, OrderAssumption DEF TypeOK, PackType, MsgType
  <1>4. HandlesOwn' /\ CopiesOwn' /\ HoldsOwn'
    BY <1>1 DEF HandlesOwn, CopiesOwn, HoldsOwn
  <1>5. NotAhead'
    BY <1>1, <1>2 DEF NotAhead
  <1>6. PostedOwn'
    BY <1>2 DEF PostedOwn, NotNewer
  <1>7. AttitudesOrdered'
    BY <1>1, <1>2 DEF AttitudesOrdered, Known, NotNewer
  <1> QED
    BY <1>3, <1>4, <1>5, <1>6, <1>7

(* OrderInv is inductive.                                                  *)
LEMMA StepOrder == OrderInv /\ [Next]_vars => OrderInv'
  <1> SUFFICES ASSUME OrderInv, [Next]_vars PROVE OrderInv'
    OBVIOUS
  <1>1. CASE UNCHANGED vars
    BY <1>1
    DEF vars, OrderInv, TypeOK, PackType, MsgType, HandlesOwn, CopiesOwn, HoldsOwn,
        NotAhead, AttitudesOrdered, Known, NotNewer, PostedOwn
  <1>2. CASE Take
    BY <1>2, TakeOrder
  <1>3. ASSUME NEW t \in Threads, Receive(t) \/ Task(t)
        PROVE  OrderInv'
    BY <1>3, ReceiveOrder, LockOrder, HandleOrder, CopyOrder, QueueOrder DEF Task
  <1> QED
    BY <1>1, <1>2, <1>3 DEF Next

(* Types, and mutual exclusion: a thread that handles a package holds the  *)
(* mutex of its order, alone, until it has posted what it had to post.     *)
THEOREM OrderTypes == Spec => []TypeOK
  <1>1. OrderInv => TypeOK
    BY DEF OrderInv
  <1> QED
    BY <1>1, InitOrder, StepOrder, PTL DEF Spec

(* Every target alink_order_task queues is the one its connection          *)
(* received, although all radars assemble theirs in one static variable    *)
(* and post it whole, and a connection's targets are queued in the order   *)
(* of their arrival.  The attitude posted beside a radar's target may be   *)
(* another radar's, or none; it never falls behind one of the same radar   *)
(* queued before it, and the target's own radar's precedes the target.     *)
THEOREM TargetsPostedOwn == Spec => []PostedOwn
  <1>1. OrderInv => PostedOwn
    BY DEF OrderInv
  <1> QED
    BY <1>1, InitOrder, StepOrder, PTL DEF Spec
=============================================================================
