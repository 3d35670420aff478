--------------------------- MODULE TargetOrderProofs ---------------------------
(***************************************************************************)
(* The order of the targets and the channel they travel through, for any   *)
(* number of network threads and any capacities: no target is overtaken by *)
(* a later one of its kind, a device target is not worked on while an      *)
(* older user target is pending, and the pipeline implements               *)
(* TargetChannel.                                                          *)
(*                                                                         *)
(* PostOrder compares what the algorithm, the list and the slot hold with  *)
(* what is still queued, so OrderInv keeps a chain: what was received      *)
(* before what is being received before what is queued before what blocked *)
(* senders hold, nothing numbered above the targets posted so far.  The    *)
(* chain is kept by a send only because senders wait at a full queue       *)
(* alone: a message that found room would otherwise pass theirs.           *)
(***************************************************************************)
EXTENDS TargetPipelineProofs, TargetRefinement

IsTarget(m) == m.kind \in TargetKind

(* The targets of A were posted before the targets of B.                   *)
Before(A, B) == \A x \in A, y \in B : IsTarget(x) /\ IsTarget(y) => x.n < y.n

Ordered(s) ==
    \A i, j \in DOMAIN s :
        i < j /\ IsTarget(s[i]) /\ IsTarget(s[j]) => s[i].n < s[j].n

Queued   == Range(mq) \cup Range(waiters)
Received == One(target_node) \cup One(user_target) \cup Range(head)

WaitWhenFull == waiters # <<>> /\ taskpc # "end" => Len(mq) = MaxMsg
QueueOrder   == /\ Ordered(mq) /\ Ordered(waiters)
                /\ Before(Range(mq), Range(waiters))
Numbered     == \A m \in Queued \cup One(cur) \cup Received : m.n <= posted
FlowOrder    == /\ Before(One(cur), Queued) /\ Before(Received, Queued)
                /\ Before(Received, One(cur))
ListOrder    == /\ \A m \in Range(head) : m.kind = "dev"
                /\ Ordered(head)
                /\ \A m \in One(target_node) :
                      m.kind = "dev" => Before({m}, Range(head))
SlotOrder    == /\ \A m \in One(user_target) : m.kind = "user"
                /\ Before(One(target_node), One(user_target))

OrderInv == /\ WaitWhenFull /\ QueueOrder /\ Numbered
            /\ FlowOrder /\ ListOrder /\ SlotOrder

-----------------------------------------------------------------------------
(* Sequences: what an append adds, what a tail leaves.                     *)
LEMMA AppendRange ==
    ASSUME NEW s \in Seq(Message), NEW m \in Message
    PROVE  /\ Append(s, m) \in Seq(Message)
           /\ Range(Append(s, m)) = Range(s) \cup {m}
           /\ Ordered(s) /\ Before(Range(s), {m}) => Ordered(Append(s, m))
  <1>1. PICK r : r = Append(s, m)
    OBVIOUS
  <1>2. /\ r \in Seq(Message) /\ Len(r) = Len(s) + 1 /\ r[Len(s) + 1] = m
        /\ Len(s) \in Nat /\ DOMAIN s = 1 .. Len(s)
    BY <1>1, AppendProperties, LenProperties
  <1>3. \A i \in 1 .. Len(s) : r[i] = s[i]
    BY <1>1, AppendProperties, Zenon
  <1>4. DOMAIN r = 1 .. (Len(s) + 1)
    BY <1>2, LenProperties
  <1>5. Range(r) = Range(s) \cup {m}
    <2>1. \A i \in DOMAIN r : r[i] \in Range(s) \cup {m}
      BY <1>2, <1>3, <1>4 DEF Range
    <2>2. m \in Range(r) /\ \A i \in DOMAIN s : s[i] \in Range(r)
      <3>1. Len(s) + 1 \in DOMAIN r /\ \A i \in DOMAIN s : i \in DOMAIN r /\ s[i] = r[i]
        BY <1>2, <1>3, <1>4
      <3> QED
        BY <1>2, <3>1 DEF Range
    <2> QED
      BY <2>1, <2>2 DEF Range
  <1>6. ASSUME Ordered(s), Before(Range(s), {m}) PROVE Ordered(r)
    <2> SUFFICES ASSUME NEW i \in DOMAIN r, NEW j \in DOMAIN r, i < j,
                        IsTarget(r[i]), IsTarget(r[j])
                 PROVE  r[i].n < r[j].n
      BY DEF Ordered
    <2>1. i \in 1 .. Len(s) /\ r[i] = s[i] /\ s[i] \in Range(s)
      BY <1>2, <1>3, <1>4 DEF Range
    <2>2. CASE j \in 1 .. Len(s)
      <3>1. r[j] = s[j]
        BY <1>3, <2>2
      <3> QED
        BY <1>2, <1>6, <2>1, <2>2, <3>1 DEF Ordered
    <2>3. CASE j = Len(s) + 1
      <3>1. r[j] = m
        BY <1>2, <2>3
      <3> QED
        BY <1>6, <2>1, <3>1 DEF Before
    <2> QED
      BY <1>2, <1>4, <2>2, <2>3
  <1> QED
    BY <1>1, <1>2, <1>5, <1>6

(* What a tail leaves.                                                     *)
LEMMA TailRange ==
    ASSUME NEW s \in Seq(Message), s # <<>>
    PROVE  /\ Tail(s) \in Seq(Message) /\ Head(s) \in Range(s)
           /\ Range(Tail(s)) \subseteq Range(s) /\ Range(s) = {Head(s)} \cup Range(Tail(s))
           /\ Ordered(s) => Ordered(Tail(s)) /\ Before({Head(s)}, Range(Tail(s)))
  <1>1. PICK r : r = Tail(s)
    OBVIOUS
  <1>2. /\ r \in Seq(Message) /\ DOMAIN r = 1 .. (Len(s) - 1)
        /\ Len(s) \in Nat \ {0} /\ DOMAIN s = 1 .. Len(s) /\ Head(s) = s[1]
    BY <1>1, HeadTailProperties, EmptySeq, LenProperties
  <1>3. \A i \in 1 .. (Len(s) - 1) : r[i] = s[i + 1]
    BY <1>1, <1>2, HeadTailProperties
  <1>4. Head(s) \in Range(s)
    BY <1>2 DEF Range
  <1>5. \A i \in DOMAIN r : i + 1 \in DOMAIN s /\ 1 < i + 1 /\ r[i] = s[i + 1]
    BY <1>2, <1>3
  <1>6. Range(r) \subseteq Range(s)
    BY <1>5 DEF Range
  <1>7. Range(s) \subseteq {Head(s)} \cup Range(r)
    <2> SUFFICES ASSUME NEW i \in DOMAIN s, i # 1 PROVE s[i] \in Range(r)
      BY <1>2 DEF Range
    <2>1. i - 1 \in DOMAIN r /\ (i - 1) + 1 = i
      BY <1>2
    <2> QED
      BY <1>5, <2>1 DEF Range
  <1>8. ASSUME Ordered(s) PROVE Ordered(r) /\ Before({Head(s)}, Range(r))
    <2>1. 1 \in DOMAIN s /\ s[1] = Head(s)
      BY <1>2
    <2>2. Before({Head(s)}, Range(r))
      BY <1>5, <1>8, <2>1 DEF Ordered, Before, Range
    <2>3. \A i, j \in DOMAIN r : i < j => i + 1 < j + 1
      BY <1>2
    <2>4. Ordered(r)
      BY <1>5, <1>8, <2>3 DEF Ordered
    <2> QED
      BY <2>2, <2>4
  <1> QED
    BY <1>1, <1>2, <1>4, <1>6, <1>7, <1>8

-----------------------------------------------------------------------------
(* What the chain is made of are messages with numbers.                    *)
LEMMA ChainTypes ==
    ASSUME CoreInv
    PROVE  /\ mq \in Seq(Message) /\ waiters \in Seq(Message) /\ head \in Seq(Message)
           /\ Range(mq) \subseteq Message /\ Range(waiters) \subseteq Message
           /\ Range(head) \subseteq Message /\ One(cur) \subseteq Message
           /\ One(user_target) \subseteq Message /\ One(target_node) \subseteq Message
           /\ posted \in Nat /\ \A m \in Message : m.n \in Nat
  <1>1. /\ mq \in Seq(Message) /\ waiters \in Seq(Message) /\ head \in Seq(Target)
        /\ cur \in Target \cup {NULL} /\ user_target \in Target \cup {NULL}
        /\ target_node \in Target \cup {NULL} /\ posted \in 0 .. MaxPost
    BY DEF CoreInv, TypeOK
  <1>2. Target \subseteq Message /\ \A m \in Message : m.n \in Nat
    BY DEF Target, Message
  <1>3. head \in Seq(Message)
    <2>1. head \in [1 .. Len(head) -> Target] /\ Len(head) \in Nat
      BY <1>1, LenProperties
    <2>2. head \in [1 .. Len(head) -> Message]
      BY <1>2, <2>1
    <2> QED
      BY <2>1, <2>2, SeqDef
  <1>4. \A s \in Seq(Message) : Range(s) \subseteq Message
    BY LenProperties DEF Range
  <1> QED
    BY <1>1, <1>2, <1>3, <1>4, PipelineAssumption DEF One

(* A message sent last goes behind everything.                             *)
LEMMA SendOrder ==
    ASSUME CoreInv, OrderInv, NEW m \in Message, mq_send(m),
           taskpc # "end" \/ ~IsTarget(m),
           posted' \in Nat, posted <= posted', m.n <= posted',
           IsTarget(m) => posted < m.n,
           UNCHANGED <<taskpc, cur, head, user_target, target_node>>
    PROVE  OrderInv'
  <1> USE DEF OrderInv
  <1>1. /\ mq \in Seq(Message) /\ waiters \in Seq(Message)
        /\ Range(mq) \subseteq Message /\ Range(waiters) \subseteq Message
        /\ Received \subseteq Message /\ One(cur) \subseteq Message
        /\ posted \in Nat /\ \A x \in Message : x.n \in Nat
    BY ChainTypes DEF Received
  <1>2. \A x \in Queued \cup One(cur) \cup Received : x.n <= posted /\ x \in Message
    BY <1>1 DEF Numbered, Queued
  <1>3. /\ Before(Range(mq), {m}) /\ Before(Range(waiters), {m})
        /\ Before(One(cur), {m}) /\ Before(Received, {m})
    BY <1>1, <1>2 DEF Before, Queued
  <1>4. /\ QueueOrder' /\ WaitWhenFull' /\ Range(mq') \cup Range(waiters') = Queued \cup {m}
    <2>1. CASE Len(mq) < MaxMsg
      <3>1. mq' = Append(mq, m) /\ waiters' = waiters
        BY <2>1 DEF mq_send
      <3>2. Range(mq') = Range(mq) \cup {m} /\ Ordered(mq')
        BY <1>1, <1>3, <3>1, AppendRange DEF QueueOrder
      <3>3. waiters = <<>> \/ taskpc = "end"
        BY <1>1, <2>1, LenProperties, PipelineAssumption DEF WaitWhenFull
      <3>4. Before({m}, Range(waiters))
        BY <3>3 DEF Before, Range
      <3> QED
        BY <3>1, <3>2, <3>3, <3>4 DEF QueueOrder, WaitWhenFull, Before, Queued
    <2>2. CASE ~(Len(mq) < MaxMsg)
      <3>1. waiters' = Append(waiters, m) /\ mq' = mq
        BY <2>2 DEF mq_send
      <3>2. Range(waiters') = Range(waiters) \cup {m} /\ Ordered(waiters')
        BY <1>1, <1>3, <3>1, AppendRange DEF QueueOrder
      <3>3. Len(mq) = MaxMsg
        BY <1>1, <2>2, LenProperties, PipelineAssumption DEF CoreInv, TypeOK
      <3> QED
        BY <1>3, <3>1, <3>2, <3>3 DEF QueueOrder, WaitWhenFull, Before, Queued
    <2> QED
      BY <2>1, <2>2
  <1>5. Queued' = Queued \cup {m} /\ Received' = Received /\ One(cur)' = One(cur)
    BY <1>4 DEF Queued, Received, Range, One
  <1>6. Numbered'
    <2>1. \A x \in Queued \cup One(cur) \cup Received : x.n <= posted'
      BY <1>1, <1>2
    <2> QED
      BY <1>5, <2>1 DEF Numbered
  <1>7. FlowOrder'
    BY <1>3, <1>5 DEF FlowOrder, Before
  <1>8. ListOrder' /\ SlotOrder'
    BY DEF ListOrder, SlotOrder, Ordered, Before, Range, One
  <1> QED
    BY <1>4, <1>6, <1>7, <1>8

(* A received message is the next of the queue; a blocked sender's takes   *)
(* the place behind the others.                                            *)
LEMMA ReceiveOrder ==
    ASSUME CoreInv, OrderInv, TaskReceive, taskpc' # "handle" => cur = NULL
    PROVE  OrderInv'
  <1> USE DEF OrderInv
  <1>1. /\ mq \in Seq(Message) /\ waiters \in Seq(Message) /\ mq # <<>>
        /\ Len(mq) \in Nat \ {0} /\ Len(mq) <= MaxMsg /\ MaxMsg \in Nat
    BY EmptySeq, LenProperties, PipelineAssumption DEF CoreInv, TypeOK, TaskReceive
  <1>2. /\ mq' = QueueAfterReceive /\ taskpc # "end"
        /\ waiters' = IF waiters = <<>> THEN waiters ELSE Tail(waiters)
        /\ UNCHANGED <<head, user_target, target_node, posted>>
        /\ cur' = cur \/ cur' = Head(mq)
        /\ taskpc' # "handle" => cur' = cur
        /\ taskpc' = "handle" => cur' = Head(mq)
    BY DEF TaskReceive, targetVars, algVars
  <1>3. /\ Tail(mq) \in Seq(Message) /\ Head(mq) \in Range(mq)
        /\ Range(Tail(mq)) \subseteq Range(mq)
        /\ Ordered(Tail(mq)) /\ Before({Head(mq)}, Range(Tail(mq)))
    BY <1>1, TailRange DEF QueueOrder
  <1>4. Before({Head(mq)}, Range(waiters))
    BY <1>3 DEF QueueOrder, Before
  <1>5. /\ QueueOrder' /\ WaitWhenFull'
        /\ Range(mq') \cup Range(waiters') \subseteq Range(Tail(mq)) \cup Range(waiters)
    <2>1. CASE waiters = <<>>
      <3>1. mq' = Tail(mq) /\ waiters' = <<>>
        BY <1>2, <2>1 DEF QueueAfterReceive
      <3>2. Ordered(<<>>) /\ Range(<<>>) = {}
        BY DEF Ordered, Range
      <3> QED
        BY <1>3, <3>1, <3>2 DEF QueueOrder, WaitWhenFull, Before
    <2>2. CASE waiters # <<>>
      <3>1. mq' = Append(Tail(mq), Head(waiters)) /\ waiters' = Tail(waiters)
        BY <1>2, <2>2 DEF QueueAfterReceive
      <3>2. /\ Head(waiters) \in Range(waiters) /\ Range(Tail(waiters)) \subseteq Range(waiters)
            /\ Ordered(Tail(waiters)) /\ Before({Head(waiters)}, Range(Tail(waiters)))
        BY <1>1, <2>2, TailRange DEF QueueOrder
      <3>3. Head(waiters) \in Message
        BY <3>2, ChainTypes
      <3>4. Before(Range(Tail(mq)), Range(waiters))
        BY <1>3 DEF QueueOrder, Before
      <3>5. Before(Range(Tail(mq)), {Head(waiters)})
        BY <3>2, <3>4 DEF Before
      <3>6. Ordered(mq') /\ Range(mq') = Range(Tail(mq)) \cup {Head(waiters)}
        BY <1>3, <3>1, <3>3, <3>5, AppendRange
      <3>7. Before(Range(mq'), Range(waiters'))
        BY <3>1, <3>2, <3>4, <3>6 DEF Before
      <3>8. Len(mq') = Len(mq)
        <4>1. PICK q : q = Tail(mq)
          OBVIOUS
        <4>2. PICK n \in Nat : n = Len(mq)
          BY <1>1
        <4>3. q \in Seq(Message) /\ Len(q) = n - 1 /\ Len(Append(q, Head(waiters))) = Len(q) + 1
          BY <1>1, <3>3, <4>1, <4>2, HeadTailProperties, AppendProperties
        <4>4. (n - 1) + 1 = n
          BY <4>2
        <4> QED
          BY <3>1, <4>1, <4>2, <4>3, <4>4, Zenon
      <3>9. Len(mq) = MaxMsg
        BY <1>2, <2>2 DEF WaitWhenFull
      <3> QED
        BY <3>1, <3>2, <3>6, <3>7, <3>8, <3>9 DEF QueueOrder, WaitWhenFull
    <2> QED
      BY <2>1, <2>2
  <1>6. /\ Queued' \subseteq Queued /\ Received' = Received
        /\ Before({Head(mq)}, Queued') /\ Head(mq) \in Queued
    <2>1. Before({Head(mq)}, Range(mq') \cup Range(waiters'))
      BY <1>3, <1>4, <1>5 DEF Before
    <2> QED
      BY <1>2, <1>3, <1>5, <2>1 DEF Queued, Received, Range, One
  <1>7. One(cur') \subseteq {Head(mq)}
    BY <1>2 DEF One
  <1>8. One(cur)' = One(cur')
    BY DEF One
  <1>9. Numbered'
    BY <1>2, <1>6, <1>7, <1>8 DEF Numbered
  <1>10. FlowOrder'
    BY <1>6, <1>7, <1>8 DEF FlowOrder, Before
  <1>11. ListOrder' /\ SlotOrder'
    BY <1>2 DEF ListOrder, SlotOrder, Ordered, Before, Range, One
  <1> QED
    BY <1>5, <1>9, <1>10, <1>11

(* A step that queues nothing, and receives at most what was being         *)
(* received, keeps the chain.                                              *)
LEMMA ChainKept ==
    ASSUME OrderInv, WaitWhenFull', QueueOrder', posted' = posted,
           Queued' \subseteq Queued, One(cur)' \subseteq One(cur),
           Received' \subseteq Received \cup One(cur),
           One(cur)' = {} \/ Received' \subseteq Received,
           ListOrder', SlotOrder'
    PROVE  OrderInv'
  <1>1. Numbered'
    BY DEF OrderInv, Numbered
  <1>2. FlowOrder'
    BY DEF OrderInv, FlowOrder, Before
  <1> QED
    BY <1>1, <1>2 DEF OrderInv

(* Nothing of a dead process is a target any more.                         *)
LEMMA DieOrder ==
    ASSUME NEW q \in Seq(Message), Die(q)
    PROVE  OrderInv'
  <1>1. /\ mq' = [i \in DOMAIN q |-> Stale] /\ waiters' = <<>> /\ cur' = NULL
        /\ head' = <<>> /\ user_target' = NULL /\ target_node' = NULL /\ posted' = 0
    BY DEF Die
  <1>2. Stale.n = 0 /\ ~IsTarget(Stale)
    BY DEF Stale, IsTarget, TargetKind
  <1>3. \A m \in Range(mq') : m = Stale
    BY <1>1 DEF Range
  <1>4. /\ Range(waiters') = {} /\ Range(head') = {} /\ One(cur') = {}
        /\ One(user_target') = {} /\ One(target_node') = {}
        /\ Ordered(waiters') /\ Ordered(head')
    BY <1>1 DEF Range, One, Ordered
  <1>5. Ordered(mq')
    BY <1>1, <1>2 DEF Ordered
  <1>6. WaitWhenFull' /\ QueueOrder'
    BY <1>1, <1>4, <1>5 DEF WaitWhenFull, QueueOrder, Before
  <1>7. Queued' = Range(mq') /\ Received' = {}
    BY <1>4 DEF Queued, Received
  <1>8. Numbered' /\ FlowOrder'
    BY <1>1, <1>2, <1>3, <1>4, <1>7 DEF Numbered, FlowOrder, Before
  <1>9. ListOrder' /\ SlotOrder'
    BY <1>4 DEF ListOrder, SlotOrder, Before
  <1> QED
    BY <1>6, <1>8, <1>9 DEF OrderInv

(* The task thread puts a target behind the others of its kind: a user     *)
(* target into the slot, a device target at the end of the list.           *)
LEMMA HandleOrder ==
    ASSUME CoreInv, OrderInv, algs_handle_multiple_targets
    PROVE  OrderInv'
  <1>1. /\ taskpc = "handle" /\ taskpc' = "recv" /\ cur' = NULL
        /\ UNCHANGED <<mq, waiters, target_node, posted>>
    BY DEF algs_handle_multiple_targets, queueVars, algVars
  <1>2. /\ cur \in Target /\ cur \in Message /\ cur # NULL /\ One(cur) = {cur}
    BY <1>1, NullAssumption DEF CoreInv, HandlesTarget, Target, One
  <1>3. /\ head \in Seq(Message) /\ IsTarget(cur)
    BY <1>2, ChainTypes DEF Target, IsTarget
  <1>4. WaitWhenFull' /\ QueueOrder' /\ Queued' = Queued /\ One(cur)' = {}
    BY <1>1 DEF OrderInv, WaitWhenFull, QueueOrder, Queued, Ordered, Before, Range, One
  <1>5. Before(Received, {cur})
    BY <1>2 DEF OrderInv, FlowOrder
  <1>6. ASSUME cur.kind = "user", InsertUser(cur) PROVE OrderInv'
    <2>1. user_target' = cur /\ head' = head
      BY <1>6 DEF InsertUser
    <2>2. One(user_target)' = {cur} /\ One(target_node)' = One(target_node)
          /\ Range(head)' = Range(head)
      BY <1>1, <1>2, <2>1 DEF One, Range
    <2>3. Received' \subseteq Received \cup One(cur)
      BY <1>2, <2>2 DEF Received
    <2>4. ListOrder'
      BY <1>1, <2>1 DEF OrderInv, ListOrder, Ordered, Before, Range, One
    <2>5. SlotOrder'
      BY <1>5, <1>6, <2>2 DEF SlotOrder, Before, Received
    <2> QED
      BY <1>1, <1>4, <2>3, <2>4, <2>5, ChainKept
  <1>7. ASSUME cur.kind = "dev", InsertDevice(cur) PROVE OrderInv'
    <2>1. user_target' = user_target
      BY <1>7 DEF InsertDevice
    <2>2. PICK q \in Seq(Message) :
             /\ head' = Append(q, cur) /\ Range(q) \subseteq Range(head) /\ Ordered(q)
      <3>1. CASE InsertDeviceFull(cur)
        <4>1. head # <<>> /\ head' = Append(Tail(head), cur)
          BY <3>1 DEF InsertDeviceFull
        <4>2. /\ Tail(head) \in Seq(Message) /\ Range(Tail(head)) \subseteq Range(head)
              /\ Ordered(Tail(head))
          BY <1>3, <4>1, TailRange DEF OrderInv, ListOrder
        <4> QED
          BY <4>1, <4>2
      <3>2. CASE InsertDeviceRoom(cur)
        BY <1>3, <3>2 DEF InsertDeviceRoom, OrderInv, ListOrder
      <3> QED
        BY <1>7, <3>1, <3>2 DEF InsertDevice
    <2>3. Before(Range(q), {cur})
      BY <1>5, <2>2 DEF Before, Received
    <2>4. Range(head') = Range(q) \cup {cur} /\ Ordered(head')
      BY <1>2, <2>2, <2>3, AppendRange
    <2>5. /\ One(user_target)' = One(user_target) /\ One(target_node)' = One(target_node)
          /\ Range(head)' = Range(head')
      BY <1>1, <2>1 DEF One, Range
    <2>6. Received' \subseteq Received \cup One(cur)
      BY <1>2, <2>2, <2>4, <2>5 DEF Received
    <2>7. \A m \in One(target_node) : m.kind = "dev" => Before({m}, Range(head'))
      <3>1. Before(One(target_node), {cur})
        BY <1>5 DEF Before, Received
      <3> QED
        BY <2>2, <2>4, <3>1 DEF OrderInv, ListOrder, Before
    <2>8. ListOrder'
      BY <1>7, <2>2, <2>4, <2>5, <2>7 DEF OrderInv, ListOrder
    <2>9. SlotOrder'
      BY <2>5 DEF OrderInv, SlotOrder, Before
    <2> QED
      BY <1>1, <1>4, <2>6, <2>8, <2>9, ChainKept
  <1>8. ASSUME UNCHANGED targetVars PROVE OrderInv'
    <2>1. UNCHANGED <<head, user_target>>
      BY <1>8 DEF targetVars
    <2>2. ListOrder' /\ SlotOrder' /\ Received' = Received
      BY <1>1, <2>1 DEF OrderInv, ListOrder, SlotOrder, Received, Ordered, Before, Range, One
    <2> QED
      BY <1>1, <1>4, <2>2, ChainKept
  <1> QED
    BY <1>6, <1>7, <1>8 DEF algs_handle_multiple_targets

(* The algorithm takes the user target, or else the oldest of the list.    *)
LEMMA AlgOrder ==
    ASSUME CoreInv, OrderInv, AlgThread
    PROVE  OrderInv'
  <1>1. UNCHANGED <<mq, waiters, taskpc, cur, posted>>
    BY DEF AlgThread, AlgCapture, get_and_rm_one_target, AlgRun, AlgEnd, queueVars, taskVars
  <1>2. WaitWhenFull' /\ QueueOrder' /\ Queued' = Queued /\ One(cur)' = One(cur)
    BY <1>1 DEF OrderInv, WaitWhenFull, QueueOrder, Queued, Ordered, Before, Range, One
  <1>3. CASE TakeUser
    <2>1. /\ target_node' = user_target /\ user_target' = NULL /\ head' = head
      BY <1>3 DEF TakeUser
    <2>2. /\ One(target_node)' = One(user_target) /\ One(user_target)' = {}
          /\ Range(head)' = Range(head) /\ Ordered(head)' = Ordered(head)
      BY <2>1 DEF One, Range, Ordered
    <2>3. ListOrder' /\ SlotOrder' /\ Received' \subseteq Received
      BY <2>2 DEF OrderInv, ListOrder, SlotOrder, Before, Received
    <2> QED
      BY <1>1, <1>2, <2>3, ChainKept
  <1>4. CASE TakeDevice
    <2>1. /\ head # <<>> /\ target_node' = Head(head) /\ head' = Tail(head)
          /\ user_target = NULL /\ user_target' = NULL
      BY <1>4 DEF TakeDevice
    <2>2. head \in Seq(Message) /\ Ordered(head)
      BY ChainTypes DEF OrderInv, ListOrder
    <2>3. /\ Head(head) \in Range(head) /\ Range(Tail(head)) \subseteq Range(head)
          /\ Ordered(Tail(head)) /\ Before({Head(head)}, Range(Tail(head)))
      BY <2>1, <2>2, TailRange
    <2>4. /\ One(target_node)' \subseteq {Head(head)} /\ One(user_target)' = {}
          /\ Range(head)' = Range(Tail(head)) /\ Ordered(head)'
      BY <2>1, <2>3 DEF One, Range, Ordered
    <2>5. ListOrder' /\ SlotOrder' /\ Received' \subseteq Received
      BY <2>3, <2>4 DEF OrderInv, ListOrder, SlotOrder, Before, Received
    <2> QED
      BY <1>1, <1>2, <2>5, ChainKept
  <1>5. ASSUME target_node' = target_node \/ target_node' = NULL,
               UNCHANGED <<head, user_target>>
        PROVE  OrderInv'
    <2>1. /\ One(target_node)' \subseteq One(target_node) /\ One(user_target)' = One(user_target)
          /\ Range(head)' = Range(head) /\ Ordered(head)' = Ordered(head)
      BY <1>5 DEF One, Range, Ordered
    <2>2. ListOrder' /\ SlotOrder' /\ Received' \subseteq Received
      BY <2>1 DEF OrderInv, ListOrder, SlotOrder, Before, Received
    <2> QED
      BY <1>1, <1>2, <2>2, ChainKept
  <1> QED
    BY <1>3, <1>4, <1>5
    DEF AlgThread, AlgCapture, get_and_rm_one_target, TakeNothing, AlgRun, AlgEnd, targetVars

(* The delete message and main's other steps; only the death of the        *)
(* process takes something from the queue.                                 *)
LEMMA MainOrder ==
    ASSUME CoreInv, OrderInv, HeapInv, MainThread \/ Kill
    PROVE  OrderInv'
  <1>1. CASE sysport_task_create \/ alg_init \/ alg_uninit \/ JoinThreadZero \/ MutexDestroy
    <2>1. /\ UNCHANGED <<mq, waiters, cur, target_node, posted>>
          /\ waiters = <<>> \/ taskpc' = taskpc
          /\ head' = head \/ head' = <<>>
          /\ user_target' = user_target \/ user_target' = NULL
      BY <1>1 DEF sysport_task_create, alg_init, alg_uninit, JoinThreadZero, MutexDestroy,
                  queueVars, taskVars, targetVars, algVars, HeapInv, NotYet
    <2>2. WaitWhenFull' /\ QueueOrder' /\ Queued' = Queued /\ One(cur)' = One(cur)
      BY <2>1 DEF OrderInv, WaitWhenFull, QueueOrder, Queued, Ordered, Before, Range, One
    <2>3. /\ One(target_node)' = One(target_node) /\ One(user_target)' \subseteq One(user_target)
      BY <2>1 DEF One
    <2>4. Range(head)' \subseteq Range(head) /\ Ordered(head)'
      BY <2>1 DEF Range, Ordered, OrderInv, ListOrder
    <2>5. ListOrder' /\ SlotOrder' /\ Received' \subseteq Received
      BY <2>3, <2>4 DEF OrderInv, ListOrder, SlotOrder, Before, Received
    <2> QED
      BY <2>1, <2>2, <2>5, ChainKept
  <1>2. CASE sysport_task_delete
    <2>1. PICK m : m = [n |-> 0, kind |-> "poison", from |-> Main]
      OBVIOUS
    <2>2. m \in Message /\ m.n = 0 /\ ~IsTarget(m)
      BY <2>1, MessageFacts DEF IsTarget, TargetKind
    <2>3. /\ mq_send(m) /\ posted' = posted
          /\ UNCHANGED <<taskpc, cur, head, user_target, target_node>>
      BY <1>2, <2>1 DEF sysport_task_delete, taskVars, targetVars, algVars
    <2>4. posted \in Nat
      BY ChainTypes
    <2> QED
      BY <2>2, <2>3, <2>4, SendOrder
  <1>3. CASE JoinFaults \/ Exit \/ Kill
    BY <1>3, DieOrder DEF JoinFaults, Exit, Kill, CoreInv, TypeOK
  <1> QED
    BY <1>1, <1>2, <1>3 DEF MainThread

(* OrderInv is inductive, given what HeapInv knows of a start.             *)
LEMMA StepOrder == CoreInv /\ HeapInv /\ OrderInv /\ [Next]_vars => OrderInv'
  <1> SUFFICES ASSUME CoreInv, HeapInv, OrderInv, [Next]_vars PROVE OrderInv'
    OBVIOUS
  <1>1. CASE UNCHANGED vars
    <2>1. UNCHANGED <<mq, waiters, taskpc, cur, head, user_target, target_node, posted>>
      BY <1>1 DEF vars, queueVars, taskVars, targetVars, algVars
    <2> QED
      BY <2>1 DEF OrderInv, WaitWhenFull, QueueOrder, Numbered, FlowOrder, ListOrder,
                  SlotOrder, Queued, Received, Ordered, Before, Range, One
  <1>2. ASSUME NEW p \in Producers, NEW kind \in TargetKind, msg_send_to_alg(p, kind)
        PROVE  OrderInv'
    <2>1. /\ posted' = posted + 1 /\ posted \in Nat
          /\ UNCHANGED <<taskpc, cur, head, user_target, target_node>>
      BY <1>2, ChainTypes DEF msg_send_to_alg, taskVars, targetVars, algVars
    <2>2. CASE taskpc = "end"
      <3>1. UNCHANGED <<mq, waiters>>
        BY <1>2, <2>2 DEF msg_send_to_alg, queueVars
      <3>2. /\ WaitWhenFull' /\ QueueOrder' /\ FlowOrder' /\ ListOrder' /\ SlotOrder'
        BY <2>1, <3>1 DEF OrderInv, WaitWhenFull, QueueOrder, FlowOrder, ListOrder,
                          SlotOrder, Queued, Received, Ordered, Before, Range, One
      <3>3. (Queued \cup One(cur) \cup Received)' = Queued \cup One(cur) \cup Received
        BY <2>1, <3>1 DEF Queued, Received, Range, One
      <3>4. \A m \in Queued \cup One(cur) \cup Received : m.n \in Nat
        BY ChainTypes DEF Queued, Received
      <3>5. Numbered'
        BY <2>1, <3>3, <3>4 DEF OrderInv, Numbered
      <3> QED
        BY <3>2, <3>5 DEF OrderInv
    <2>3. CASE taskpc # "end"
      <3>1. PICK m : m = [n |-> posted + 1, kind |-> kind, from |-> p]
        OBVIOUS
      <3>2. m \in Message /\ m.n = posted + 1
        BY <2>1, <3>1, MessageFacts
      <3>3. mq_send(m)
        BY <1>2, <2>3, <3>1 DEF msg_send_to_alg
      <3>4. posted' \in Nat /\ posted <= posted' /\ m.n <= posted' /\ posted < m.n
        BY <2>1, <3>2
      <3> QED
        BY <2>1, <2>3, <3>2, <3>3, <3>4, SendOrder
    <2> QED
      BY <2>2, <2>3
  <1>3. CASE TaskReceive
    <2>1. cur = NULL
      BY <1>3 DEF TaskReceive, HeapInv, HasCur
    <2> QED
      BY <1>3, <2>1, ReceiveOrder
  <1>4. CASE TaskReceiveStale
    <2>1. QueueAfterReceive \in Seq(Message)
      BY <1>4, ReceiveTypes DEF TaskReceiveStale, CoreInv, TypeOK
    <2> QED
      BY <1>4, <2>1, DieOrder DEF TaskReceiveStale
  <1>5. CASE TaskClose
    <2>1. /\ mq' = <<>> /\ taskpc' = "end"
          /\ UNCHANGED <<waiters, cur, head, user_target, target_node, posted>>
      BY <1>5 DEF TaskClose, targetVars, algVars
    <2>2. Range(mq)' = {} /\ Ordered(mq)' /\ Range(waiters)' = Range(waiters)
          /\ Ordered(waiters)' = Ordered(waiters)
      BY <2>1 DEF Range, Ordered
    <2>3. WaitWhenFull' /\ QueueOrder' /\ Queued' \subseteq Queued
      BY <2>1, <2>2 DEF OrderInv, WaitWhenFull, QueueOrder, Before, Queued
    <2>4. ListOrder' /\ SlotOrder' /\ Received' = Received /\ One(cur)' = One(cur)
      BY <2>1 DEF OrderInv, ListOrder, SlotOrder, Received, Ordered, Before, Range, One
    <2> QED
      BY <2>1, <2>3, <2>4, ChainKept
  <1> QED
    BY <1>1, <1>2, <1>3, <1>4, <1>5, HandleOrder, AlgOrder, MainOrder DEF Next, TaskThread

(* At the start nothing has been posted.                                   *)
LEMMA InitOrder == Init => OrderInv
  <1> SUFFICES ASSUME Init PROVE OrderInv
    OBVIOUS
  <1>1. /\ mq = <<>> /\ waiters = <<>> /\ cur = NULL /\ head = <<>>
        /\ user_target = NULL /\ target_node = NULL
    BY DEF Init, ZeroData
  <1>2. /\ Range(mq) = {} /\ Range(waiters) = {} /\ Range(head) = {} /\ One(cur) = {}
        /\ One(user_target) = {} /\ One(target_node) = {}
        /\ Ordered(mq) /\ Ordered(waiters) /\ Ordered(head)
    BY <1>1 DEF Range, One, Ordered
  <1>3. Queued = {} /\ Received = {}
    BY <1>2 DEF Queued, Received
  <1> QED
    BY <1>1, <1>2, <1>3 DEF OrderInv, WaitWhenFull, QueueOrder, Numbered, FlowOrder,
                            ListOrder, SlotOrder, Before

(* OrderInv is an invariant, with the invariants it rests on.              *)
LEMMA OrderKept == Spec => [](CoreInv /\ OrderInv)
  BY InitCore, InitStale, InitHeap, InitOrder, StepCore, StepStale, StepHeap, StepOrder,
     PTL DEF Spec

-----------------------------------------------------------------------------
(* While the algorithm works on a device target, a user target that is     *)
(* pending was posted after it: the operator's choice is never passed over *)
(* for an older device target.                                             *)
THEOREM UserComesFirst == Spec => []UserFirst
  <1>1. CoreInv /\ OrderInv => UserFirst
    <2> SUFFICES ASSUME CoreInv, OrderInv, target_node # NULL, user_target # NULL
                 PROVE  target_node.n < user_target.n
      BY DEF UserFirst
    <2>1. target_node \in One(target_node) /\ user_target \in One(user_target)
      BY DEF One
    <2>2. IsTarget(target_node) /\ IsTarget(user_target)
      BY DEF CoreInv, TypeOK, Target, IsTarget
    <2> QED
      BY <2>1, <2>2 DEF OrderInv, SlotOrder, Before
  <1> QED
    BY <1>1, OrderKept, PTL

-----------------------------------------------------------------------------
(* Two sequences in post order, the first before the second, make one.     *)
LEMMA ConcatOrder ==
    ASSUME NEW s \in Seq(Message), NEW r \in Seq(Message), NEW kind,
           InPostOrder(s, kind), InPostOrder(r, kind),
           \A x \in Range(s), y \in Range(r) : x.kind = kind /\ y.kind = kind => x.n < y.n
    PROVE  /\ s \o r \in Seq(Message) /\ Range(s \o r) = Range(s) \cup Range(r)
           /\ InPostOrder(s \o r, kind)
  <1>1. PICK c : c = s \o r
    OBVIOUS
  <1>2. PICK k \in Nat, l \in Nat : k = Len(s) /\ l = Len(r)
    BY LenProperties
  <1>3. /\ c \in Seq(Message) /\ Len(c) = k + l
        /\ \A i \in 1 .. (k + l) : c[i] = IF i <= k THEN s[i] ELSE r[i - k]
    BY <1>1, <1>2, ConcatProperties
  <1>4. DOMAIN c = 1 .. (k + l) /\ DOMAIN s = 1 .. k /\ DOMAIN r = 1 .. l
    BY <1>2, <1>3, LenProperties
  <1>5. \A i \in DOMAIN s : i \in DOMAIN c /\ c[i] = s[i]
    BY <1>2, <1>3, <1>4
  <1>6. \A i \in DOMAIN c : i \notin DOMAIN s => k < i /\ i - k \in DOMAIN r /\ c[i] = r[i - k]
    <2> SUFFICES ASSUME NEW i \in DOMAIN c, i \notin DOMAIN s
                 PROVE  k < i /\ i - k \in DOMAIN r /\ c[i] = r[i - k]
      OBVIOUS
    <2>1. i \in 1 .. (k + l) /\ k < i
      BY <1>2, <1>4
    <2>2. i - k \in 1 .. l /\ ~(i <= k)
      BY <1>2, <2>1
    <2> QED
      BY <1>3, <1>4, <2>1, <2>2
  <1>7. \A i \in DOMAIN r : \E j \in DOMAIN c : c[j] = r[i]
    <2> SUFFICES ASSUME NEW i \in DOMAIN r PROVE \E j \in DOMAIN c : c[j] = r[i]
      OBVIOUS
    <2>1. i + k \in DOMAIN c /\ i + k \notin DOMAIN s /\ (i + k) - k = i
      BY <1>2, <1>4
    <2> QED
      BY <1>6, <2>1
  <1>8. Range(c) = Range(s) \cup Range(r)
    BY <1>5, <1>6, <1>7 DEF Range
  <1>9. InPostOrder(c, kind)
    <2> SUFFICES ASSUME NEW i \in DOMAIN c, NEW j \in DOMAIN c, i < j,
                        c[i].kind = kind, c[j].kind = kind
                 PROVE  c[i].n < c[j].n
      BY DEF InPostOrder
    <2>1. CASE i \in DOMAIN s /\ j \in DOMAIN s
      BY <1>5, <2>1 DEF InPostOrder
    <2>2. CASE i \in DOMAIN s /\ j \notin DOMAIN s
      <3>1. c[i] \in Range(s) /\ c[j] \in Range(r)
        BY <1>5, <1>6, <2>2 DEF Range
      <3> QED
        BY <3>1
    <2>3. CASE i \notin DOMAIN s
      <3>1. j \notin DOMAIN s
        BY <1>2, <1>4, <2>3
      <3>2. i - k < j - k
        BY <1>2, <1>4
      <3> QED
        BY <1>6, <2>3, <3>1, <3>2 DEF InPostOrder
    <2> QED
      BY <2>1, <2>2, <2>3
  <1> QED
    BY <1>1, <1>3, <1>8, <1>9

(* The message of a pointer, as a sequence.                                *)
LEMMA OptFacts ==
    ASSUME NEW m, One(m) \subseteq Message, NEW kind
    PROVE  Opt(m) \in Seq(Message) /\ Range(Opt(m)) = One(m) /\ InPostOrder(Opt(m), kind)
  <1>1. CASE m = NULL
    BY <1>1 DEF Opt, One, Range, InPostOrder
  <1>2. CASE m # NULL
    <2>1. m \in Message /\ Opt(m) = <<m>>
      BY <1>2 DEF One, Opt
    <2>2. <<m>> \in Seq(Message) /\ DOMAIN <<m>> = {1} /\ <<m>>[1] = m
      BY <2>1
    <2> QED
      BY <1>2, <2>1, <2>2 DEF One, Range, InPostOrder
  <1> QED
    BY <1>1, <1>2

(* From the algorithm back to the blocked senders, no target stands behind *)
(* a later one of its kind: targets are neither overtaken in the queue,    *)
(* the list and the slot nor by the sender that a receive lets in.         *)
THEOREM TargetsInPostOrder == Spec => []PostOrder
  <1>1. CoreInv /\ OrderInv => PostOrder
    <2> SUFFICES ASSUME CoreInv, OrderInv PROVE PostOrder
      OBVIOUS
    <2>1. /\ mq \in Seq(Message) /\ waiters \in Seq(Message) /\ head \in Seq(Message)
          /\ One(cur) \subseteq Message /\ One(user_target) \subseteq Message
          /\ One(target_node) \subseteq Message
      BY ChainTypes
    <2>2. \A kind \in TargetKind, s \in Seq(Message) : Ordered(s) => InPostOrder(s, kind)
      BY DEF Ordered, InPostOrder, IsTarget
    <2>3. ASSUME NEW kind \in TargetKind, NEW s \in Seq(Message), InPostOrder(s, kind),
                 Range(s) \subseteq Received,
                 \A x \in One(target_node), y \in Range(s) :
                    x.kind = kind /\ y.kind = kind => x.n < y.n
          PROVE  InPostOrder(Stream(s), kind)
      <3>1. /\ Before(Received, One(cur)) /\ Before(Received \cup One(cur), Queued)
            /\ Before(Range(mq), Range(waiters))
        BY DEF OrderInv, FlowOrder, QueueOrder, Before
      <3>2. \A A, B : Before(A, B) =>
               \A x \in A, y \in B : x.kind = kind /\ y.kind = kind => x.n < y.n
        BY DEF Before, IsTarget
      <3>3. /\ Opt(target_node) \in Seq(Message) /\ Range(Opt(target_node)) = One(target_node)
            /\ InPostOrder(Opt(target_node), kind)
            /\ Opt(cur) \in Seq(Message) /\ Range(Opt(cur)) = One(cur)
            /\ InPostOrder(Opt(cur), kind)
        BY <2>1, OptFacts
      <3>4. PICK a : a = Opt(target_node) \o s
        OBVIOUS
      <3>5. a \in Seq(Message) /\ InPostOrder(a, kind) /\ Range(a) \subseteq Received
        <4>1. Range(Opt(target_node) \o s) = Range(Opt(target_node)) \cup Range(s)
          BY <2>3, <3>3, ConcatOrder
        <4> QED
          BY <2>3, <3>3, <3>4, <4>1, ConcatOrder DEF Received
      <3>6. PICK b : b = a \o Opt(cur)
        OBVIOUS
      <3>7. b \in Seq(Message) /\ InPostOrder(b, kind) /\ Range(b) \subseteq Received \cup One(cur)
        <4>1. \A x \in Range(a), y \in Range(Opt(cur)) : x.kind = kind /\ y.kind = kind => x.n < y.n
          BY <3>1, <3>2, <3>3, <3>5
        <4> QED
          BY <3>3, <3>5, <3>6, <4>1, ConcatOrder
      <3>8. PICK c : c = b \o mq
        OBVIOUS
      <3>9. /\ c \in Seq(Message) /\ InPostOrder(c, kind)
            /\ Range(c) \subseteq Received \cup One(cur) \cup Range(mq)
        <4>1. \A x \in Range(b), y \in Range(mq) : x.kind = kind /\ y.kind = kind => x.n < y.n
          BY <3>1, <3>2, <3>7 DEF Queued
        <4>2. InPostOrder(mq, kind)
          BY <2>1, <2>2 DEF OrderInv, QueueOrder
        <4> QED
          BY <2>1, <3>7, <3>8, <4>1, <4>2, ConcatOrder
      <3>10. InPostOrder(c \o waiters, kind)
        <4>1. \A x \in Range(c), y \in Range(waiters) : x.kind = kind /\ y.kind = kind => x.n < y.n
          BY <3>1, <3>2, <3>9 DEF Queued
        <4>2. InPostOrder(waiters, kind)
          BY <2>1, <2>2 DEF OrderInv, QueueOrder
        <4> QED
          BY <2>1, <3>9, <4>1, <4>2, ConcatOrder
      <3> QED
        BY <3>4, <3>6, <3>8, <3>10 DEF Stream
    <2>4. InPostOrder(Stream(head), "dev")
      <3>1. InPostOrder(head, "dev") /\ Range(head) \subseteq Received
        BY <2>1, <2>2 DEF OrderInv, ListOrder, Received, TargetKind
      <3>2. \A x \in One(target_node), y \in Range(head) :
               x.kind = "dev" /\ y.kind = "dev" => x.n < y.n
        BY DEF OrderInv, ListOrder, Before, IsTarget, TargetKind
      <3> QED
        BY <2>1, <2>3, <3>1, <3>2 DEF TargetKind
    <2>5. InPostOrder(Stream(Opt(user_target)), "user")
      <3>1. /\ Opt(user_target) \in Seq(Message) /\ Range(Opt(user_target)) = One(user_target)
            /\ InPostOrder(Opt(user_target), "user")
        BY <2>1, OptFacts
      <3>2. \A x \in One(target_node), y \in One(user_target) :
               x.kind = "user" /\ y.kind = "user" => x.n < y.n
        BY DEF OrderInv, SlotOrder, Before, IsTarget, TargetKind
      <3> QED
        BY <2>3, <3>1, <3>2 DEF TargetKind, Received
    <2> QED
      BY <2>4, <2>5 DEF PostOrder
  <1> QED
    BY <1>1, OrderKept, PTL

-----------------------------------------------------------------------------
(***************************************************************************)
(* The channel.  The mapping shows nothing of a process that is not up, so *)
(* the refinement needs to know what a start begins with (Unused), that    *)
(* the task thread is not deleted while the algorithm is initialised       *)
(* (Undeleted: it would throw the queue away), and that the mutex works.   *)
(***************************************************************************)
Unused    == mainpc \in {"down", "loaded"} => posted = 0
Undeleted == mainpc \in {"down", "loaded", "up", "releasing", "deleting"} =>
                /\ taskpc \notin {"close", "end"}
                /\ \A m \in Queued : m.kind # "poison"
Lockable  == mainpc = "up" => mutexOk
UpInv     == Unused /\ Undeleted /\ Lockable

(* What is queued after a send and after a receive.                        *)
LEMMA SendQueued ==
    ASSUME CoreInv, NEW m \in Message, mq_send(m)
    PROVE  Queued' = Queued \cup {m}
  <1>1. mq \in Seq(Message) /\ waiters \in Seq(Message)
    BY ChainTypes
  <1>2. Range(mq') \cup Range(waiters') = Range(mq) \cup Range(waiters) \cup {m}
    BY <1>1, AppendRange DEF mq_send
  <1> QED
    BY <1>2 DEF Queued, Range

(* A receive takes the first message and lets the blocked one in.          *)
LEMMA ReceiveQueued ==
    ASSUME CoreInv, TaskReceive
    PROVE  Queued = {Head(mq)} \cup Queued'
  <1>1. /\ mq \in Seq(Message) /\ waiters \in Seq(Message) /\ mq # <<>>
        /\ Range(waiters) \subseteq Message
    BY ChainTypes DEF TaskReceive
  <1>2. /\ mq' = QueueAfterReceive
        /\ waiters' = IF waiters = <<>> THEN waiters ELSE Tail(waiters)
    BY DEF TaskReceive
  <1>3. Tail(mq) \in Seq(Message) /\ Range(mq) = {Head(mq)} \cup Range(Tail(mq))
    BY <1>1, TailRange
  <1>4. Range(mq') \cup Range(waiters') = Range(Tail(mq)) \cup Range(waiters)
    <2>1. CASE waiters = <<>>
      BY <1>2, <2>1 DEF QueueAfterReceive
    <2>2. CASE waiters # <<>>
      <3>1. mq' = Append(Tail(mq), Head(waiters)) /\ waiters' = Tail(waiters)
        BY <1>2, <2>2 DEF QueueAfterReceive
      <3>2. Range(waiters) = {Head(waiters)} \cup Range(Tail(waiters))
        BY <1>1, <2>2, TailRange
      <3>3. Range(mq') = Range(Tail(mq)) \cup {Head(waiters)}
        BY <1>1, <1>3, <3>1, <3>2, AppendRange
      <3> QED
        BY <3>1, <3>2, <3>3
    <2> QED
      BY <2>1, <2>2
  <1> QED
    BY <1>3, <1>4 DEF Queued, Range

(* A dead process leaves neither a delete message nor a count.             *)
LEMMA DieUp ==
    ASSUME NEW q \in Seq(Message), Die(q)
    PROVE  UpInv'
  <1>1. /\ mainpc' = "down" /\ posted' = 0 /\ taskpc' = "none"
        /\ mq' = [i \in DOMAIN q |-> Stale] /\ waiters' = <<>>
    BY DEF Die
  <1>2. \A m \in Range(mq') \cup Range(waiters') : m = Stale
    BY <1>1 DEF Range
  <1>3. Stale.kind # "poison"
    BY DEF Stale
  <1>4. \A m \in Queued' : m.kind # "poison"
    BY <1>2, <1>3 DEF Queued, Range
  <1> QED
    BY <1>1, <1>4 DEF UpInv, Unused, Undeleted, Lockable

(* UpInv is inductive.                                                     *)
LEMMA StepUp == CoreInv /\ UpInv /\ [Next]_vars => UpInv'
  <1> SUFFICES ASSUME CoreInv, UpInv, [Next]_vars PROVE UpInv'
    OBVIOUS
  <1> USE DEF UpInv
  <1>1. CASE UNCHANGED vars
    <2>1. UNCHANGED <<mainpc, mq, waiters, taskpc, mutexOk, posted>>
      BY <1>1 DEF vars, queueVars, taskVars
    <2> QED
      BY <2>1 DEF Unused, Undeleted, Lockable, Queued
  <1>2. ASSUME NEW p \in Producers, NEW kind \in TargetKind, msg_send_to_alg(p, kind)
        PROVE  UpInv'
    <2>1. /\ mainpc \notin {"down", "loaded"} /\ UNCHANGED <<mainpc, taskpc, mutexOk>>
      BY <1>2 DEF msg_send_to_alg, Serving, taskVars
    <2>2. \A m \in Queued' : m \in Queued \/ m.kind # "poison"
      <3>1. PICK m : m = [n |-> posted + 1, kind |-> kind, from |-> p]
        OBVIOUS
      <3>2. posted + 1 \in Nat
        BY ChainTypes
      <3>3. m \in Message /\ m.kind # "poison"
        BY <3>1, <3>2, MessageFacts DEF TargetKind
      <3>4. mq_send(m) \/ UNCHANGED <<mq, waiters>>
        BY <1>2, <3>1 DEF msg_send_to_alg, queueVars
      <3> QED
        BY <3>3, <3>4, SendQueued DEF Queued
    <2> QED
      BY <2>1, <2>2 DEF Unused, Undeleted, Lockable
  <1>3. CASE TaskReceive
    <2>1. UNCHANGED <<mainpc, mutexOk, posted>> /\ Head(mq) \in Queued /\ Queued' \subseteq Queued
      BY <1>3, ReceiveQueued DEF TaskReceive
    <2>2. taskpc' = "handle" \/ Head(mq).kind = "poison"
      BY <1>3 DEF TaskReceive
    <2> QED
      BY <2>1, <2>2 DEF Unused, Undeleted, Lockable
  <1>4. CASE TaskReceiveStale
    <2>1. QueueAfterReceive \in Seq(Message)
      BY <1>4, ReceiveTypes DEF TaskReceiveStale, CoreInv, TypeOK
    <2> QED
      BY <1>4, <2>1, DieUp DEF TaskReceiveStale
  <1>5. CASE TaskClose
    <2>1. taskpc = "close" /\ UNCHANGED <<mainpc, mutexOk, posted>>
      BY <1>5 DEF TaskClose
    <2> QED
      BY <2>1 DEF Unused, Undeleted, Lockable
  <1>6. CASE algs_handle_multiple_targets \/ AlgThread
    <2>1. /\ UNCHANGED <<mainpc, mq, waiters, mutexOk, posted>>
          /\ taskpc' = taskpc \/ taskpc' = "recv"
      BY <1>6 DEF algs_handle_multiple_targets, AlgThread, AlgCapture, get_and_rm_one_target, AlgRun,
                  AlgEnd, queueVars, taskVars
    <2> QED
      BY <2>1 DEF Unused, Undeleted, Lockable, Queued
  <1>7. CASE sysport_task_create \/ alg_init \/ alg_uninit \/ JoinThreadZero
    <2>1. /\ UNCHANGED <<mq, waiters, posted>>
          /\ taskpc' = taskpc \/ taskpc' \in {"recv", "none"}
          /\ mutexOk' = mutexOk \/ mutexOk' = TRUE
          /\ \/ mainpc = "down" /\ mainpc' = "loaded"
             \/ mainpc = "loaded" /\ mainpc' = "up" /\ mutexOk' = TRUE
             \/ mainpc = "up" /\ mainpc' = "releasing"
             \/ mainpc = "releasing" /\ mainpc' = "deleting"
      BY <1>7 DEF sysport_task_create, alg_init, alg_uninit, JoinThreadZero, queueVars, taskVars
    <2>2. Queued' = Queued
      BY <2>1 DEF Queued
    <2> QED
      BY <2>1, <2>2 DEF Unused, Undeleted, Lockable
  <1>8. CASE sysport_task_delete \/ MutexDestroy
    <2>1. mainpc' \in {"unloading", "exiting"}
      BY <1>8 DEF sysport_task_delete, MutexDestroy
    <2> QED
      BY <2>1 DEF Unused, Undeleted, Lockable
  <1>9. CASE JoinFaults \/ Exit \/ Kill
    BY <1>9, DieUp DEF JoinFaults, Exit, Kill, CoreInv, TypeOK
  <1> QED
    BY <1>1, <1>2, <1>3, <1>4, <1>5, <1>6, <1>7, <1>8, <1>9 DEF Next, TaskThread, MainThread

-----------------------------------------------------------------------------
(* What is pending in a process that is up, and in one that is not.        *)
LEMMA PendingIs ==
    /\ IsUp => /\ PendingDevs = {m \in Range(head) \cup One(cur) \cup Queued : m.kind = "dev"}
               /\ PendingUsers = {m \in One(user_target) \cup One(cur) \cup Queued : m.kind = "user"}
               /\ LastPosted = posted /\ InHand = target_node
    /\ ~IsUp => PendingDevs = {} /\ PendingUsers = {} /\ LastPosted = 0 /\ InHand = NULL
  BY DEF PendingDevs, PendingUsers, LastPosted, InHand, Pending, Queued

(* The same of the next state.                                             *)
LEMMA NextPendingIs ==
    /\ IsUp' => /\ PendingDevs' = {m \in Range(head)' \cup One(cur)' \cup Queued' : m.kind = "dev"}
                /\ PendingUsers' = {m \in One(user_target)' \cup One(cur)' \cup Queued' : m.kind = "user"}
                /\ LastPosted' = posted' /\ InHand' = target_node'
    /\ ~IsUp' => PendingDevs' = {} /\ PendingUsers' = {} /\ LastPosted' = 0 /\ InHand' = NULL
  BY DEF PendingDevs, PendingUsers, LastPosted, InHand, Pending, Queued

(* A posted target is pending.                                             *)
LEMMA PostRefines ==
    ASSUME CoreInv, UpInv, IsUp, IsUp',
           NEW p \in Producers, NEW kind \in TargetKind, msg_send_to_alg(p, kind)
    PROVE  Channel!Next
  <1>1. PICK m : m = [n |-> posted + 1, kind |-> kind, from |-> p]
    OBVIOUS
  <1>2. posted \in 0 .. MaxPost /\ posted < MaxPost /\ MaxPost \in Nat
    BY PipelineAssumption DEF CoreInv, TypeOK, msg_send_to_alg
  <1>3. m \in [n : 1..MaxPost, kind : TargetKind, from : Producers]
    BY <1>1, <1>2
  <1>4. m \in Message /\ m.n = posted + 1 /\ m.kind = kind
    BY <1>1, <1>2, MessageFacts
  <1>5. taskpc # "end"
    BY DEF UpInv, Undeleted, IsUp
  <1>6. /\ mq_send(m) /\ posted' = posted + 1
        /\ UNCHANGED <<cur, head, user_target, target_node>>
    BY <1>1, <1>5 DEF msg_send_to_alg, taskVars, targetVars, algVars
  <1>7. Queued' = Queued \cup {m}
    BY <1>4, <1>6, SendQueued
  <1>8. /\ PendingDevs' = {x \in Range(head) \cup One(cur) \cup Queued \cup {m} : x.kind = "dev"}
        /\ PendingUsers' = {x \in One(user_target) \cup One(cur) \cup Queued \cup {m} : x.kind = "user"}
        /\ LastPosted' = posted + 1 /\ InHand' = target_node
    <2>1. Range(head)' = Range(head) /\ One(cur)' = One(cur) /\ One(user_target)' = One(user_target)
      BY <1>6 DEF Range, One
    <2> QED
      BY <1>6, <1>7, <2>1, NextPendingIs
  <1>9. LastPosted = posted /\ InHand = target_node
    BY PendingIs
  <1>10. CASE kind = "dev"
    <2>1. PendingDevs' = PendingDevs \cup {m} /\ PendingUsers' = PendingUsers
      BY <1>4, <1>8, <1>10, PendingIs
    <2>2. Channel!Post(m)
      BY <1>4, <1>8, <1>9, <1>10, <2>1 DEF Channel!Post
    <2> QED
      BY <1>3, <2>2 DEF Channel!Next
  <1>11. CASE kind = "user"
    <2>1. PendingUsers' = PendingUsers \cup {m} /\ PendingDevs' = PendingDevs
      BY <1>4, <1>8, <1>11, PendingIs
    <2>2. Channel!Post(m)
      BY <1>4, <1>8, <1>9, <1>11, <2>1 DEF Channel!Post
    <2> QED
      BY <1>3, <2>2 DEF Channel!Next
  <1> QED
    BY <1>10, <1>11 DEF TargetKind

(* A message that is received stays pending.                               *)
LEMMA ReceiveRefines ==
    ASSUME CoreInv, HeapInv, UpInv, IsUp, IsUp', TaskReceive
    PROVE  UNCHANGED Channel!chanVars
  <1>1. Queued = {Head(mq)} \cup Queued'
    BY ReceiveQueued
  <1>2. /\ cur = NULL /\ Head(mq).kind # "poison"
        /\ UNCHANGED <<mainpc, head, user_target, target_node, posted>>
    <2>1. taskpc = "recv" /\ UNCHANGED <<mainpc, head, user_target, target_node, posted>>
      BY DEF TaskReceive, targetVars, algVars
    <2> QED
      BY <1>1, <2>1 DEF HeapInv, HasCur, UpInv, Undeleted, IsUp
  <1>3. cur' = Head(mq) /\ Head(mq) \in Message
    BY <1>2, ReceiveTypes DEF TaskReceive, CoreInv, TypeOK
  <1>4. One(cur) = {} /\ One(cur)' = {Head(mq)}
    BY <1>2, <1>3, NullAssumption DEF One
  <1>5. Range(head)' = Range(head) /\ One(user_target)' = One(user_target)
    BY <1>2 DEF Range, One
  <1>6. One(cur)' \cup Queued' = One(cur) \cup Queued
    BY <1>1, <1>4
  <1>7. /\ PendingDevs' = PendingDevs /\ PendingUsers' = PendingUsers
        /\ LastPosted' = LastPosted /\ InHand' = InHand /\ IsUp' = IsUp
    BY <1>2, <1>5, <1>6, PendingIs, NextPendingIs DEF IsUp
  <1> QED
    BY <1>7 DEF Channel!chanVars

(* A sequence of targets in post order has as many targets as places.      *)
LEMMA OrderedCount ==
    ASSUME NEW s \in Seq(Message), Ordered(s), \A m \in Range(s) : IsTarget(m)
    PROVE  IsFiniteSet(Range(s)) /\ Cardinality(Range(s)) = Len(s)
  <1>1. DOMAIN s = 1 .. Len(s) /\ Len(s) \in Nat
    BY LenProperties
  <1>2. \A i \in DOMAIN s : s[i] \in Range(s) /\ s[i].n \in Nat
    <2>1. \A i \in DOMAIN s : s[i] \in Message
      BY LenProperties
    <2>2. \A m \in Message : m.n \in Nat
      BY DEF Message
    <2> QED
      BY <2>1, <2>2 DEF Range
  <1>3. \A i, j \in DOMAIN s : s[i] = s[j] => i = j
    <2> SUFFICES ASSUME NEW i \in DOMAIN s, NEW j \in DOMAIN s, i < j PROVE s[i] # s[j]
      BY <1>1
    <2>1. s[i].n < s[j].n
      BY <1>2 DEF Ordered
    <2> QED
      BY <1>2, <2>1
  <1>4. s \in Bijection(1 .. Len(s), Range(s))
    <2>1. s \in [1 .. Len(s) -> Range(s)]
      BY <1>1, <1>2, LenProperties
    <2>2. \A m \in Range(s) : \E i \in 1 .. Len(s) : s[i] = m
      BY <1>1 DEF Range
    <2> QED
      BY <1>1, <1>3, <2>1, <2>2 DEF Bijection, Injection, IsInjective, Surjection
  <1>5. IsFiniteSet(1 .. Len(s)) /\ Cardinality(1 .. Len(s)) = Len(s)
    BY <1>1, FS_Interval
  <1> QED
    BY <1>4, <1>5, FS_Bijection DEF ExistsBijection

(* What is queued is finite.                                               *)
LEMMA RangeFinite ==
    ASSUME NEW s \in Seq(Message)
    PROVE  IsFiniteSet(Range(s))
  <1>1. DOMAIN s = 1 .. Len(s) /\ Len(s) \in Nat
    BY LenProperties
  <1>2. s \in Surjection(1 .. Len(s), Range(s))
    <2>1. s \in [1 .. Len(s) -> Range(s)]
      BY <1>1, LenProperties DEF Range
    <2> QED
      BY <1>1, <2>1 DEF Surjection, Range
  <1> QED
    BY <1>1, <1>2, FS_Interval, FS_Surjection

(* What the chain says of the parts of what is pending.                    *)
LEMMA ChainParts ==
    ASSUME CoreInv, OrderInv
    PROVE  /\ \A x \in Range(head), y \in One(cur) \cup Queued :
                 y.kind = "dev" => x.kind = "dev" /\ x.n < y.n /\ x # y /\ x.n \in Nat /\ y.n \in Nat
           /\ \A x \in One(user_target), y \in One(cur) \cup Queued :
                 y.kind = "user" => x.kind = "user" /\ x.n < y.n /\ x # y /\ x.n \in Nat /\ y.n \in Nat
           /\ \A x \in One(cur), y \in Queued :
                 IsTarget(y) => IsTarget(x) /\ x.n < y.n /\ x # y
           /\ \A x \in Range(head) : x.kind = "dev"
           /\ \A x \in One(user_target) : x.kind = "user"
  <1>1. \A x \in Range(head) \cup One(user_target) \cup One(cur) \cup Queued : x.n \in Nat
    BY ChainTypes DEF Queued
  <1>2. /\ \A x \in Range(head) : x.kind = "dev" /\ IsTarget(x)
        /\ \A x \in One(user_target) : x.kind = "user" /\ IsTarget(x)
        /\ \A x \in One(cur) : IsTarget(x)
    BY DEF OrderInv, ListOrder, SlotOrder, IsTarget, TargetKind, CoreInv, TypeOK, Target, One
  <1>3. \A y : y.kind = "dev" \/ y.kind = "user" => IsTarget(y)
    BY DEF IsTarget, TargetKind
  <1>4. \A x \in Received, y \in One(cur) \cup Queued : IsTarget(x) /\ IsTarget(y) => x.n < y.n
    BY DEF OrderInv, FlowOrder, Before
  <1>5. \A x \in One(cur), y \in Queued : IsTarget(x) /\ IsTarget(y) => x.n < y.n
    BY DEF OrderInv, FlowOrder, Before
  <1>6. Range(head) \subseteq Received /\ One(user_target) \subseteq Received
    BY DEF Received
  <1>7. \A a, b \in Nat : a < b => a # b
    OBVIOUS
  <1>8. \A x \in Range(head), y \in One(cur) \cup Queued : y.kind = "dev" => x.n < y.n /\ x # y
    BY <1>1, <1>2, <1>3, <1>4, <1>6, <1>7
  <1>9. \A x \in One(user_target), y \in One(cur) \cup Queued : y.kind = "user" => x.n < y.n /\ x # y
    BY <1>1, <1>2, <1>3, <1>4, <1>6, <1>7
  <1>10. \A x \in One(cur), y \in Queued : IsTarget(y) => x.n < y.n /\ x # y
    BY <1>1, <1>2, <1>5, <1>7
  <1> QED
    BY <1>1, <1>2, <1>8, <1>9, <1>10

(* The task thread's target changes places, or pushes out the oldest.      *)
LEMMA HandleRefines ==
    ASSUME CoreInv, OrderInv, UpInv, IsUp, IsUp', algs_handle_multiple_targets
    PROVE  [Channel!Next]_(Channel!chanVars)
  <1>1. /\ taskpc = "handle" /\ cur' = NULL
        /\ UNCHANGED <<mq, waiters, target_node, posted>>
    BY DEF algs_handle_multiple_targets, queueVars, algVars
  <1>2. /\ cur \in Message /\ One(cur) = {cur} /\ One(cur)' = {} /\ IsTarget(cur)
        /\ Queued' = Queued /\ cur # NULL
    BY <1>1, NullAssumption
    DEF CoreInv, HandlesTarget, Target, One, Queued, IsTarget
  <1>3. /\ PendingDevs = {m \in Range(head) \cup {cur} \cup Queued : m.kind = "dev"}
        /\ PendingUsers = {m \in One(user_target) \cup {cur} \cup Queued : m.kind = "user"}
        /\ PendingDevs' = {m \in Range(head)' \cup Queued : m.kind = "dev"}
        /\ PendingUsers' = {m \in One(user_target)' \cup Queued : m.kind = "user"}
        /\ LastPosted' = LastPosted /\ InHand' = InHand /\ IsUp' = IsUp
    BY <1>1, <1>2, PendingIs, NextPendingIs
  <1>4. /\ \A x \in Range(head), y \in {cur} \cup Queued :
              y.kind = "dev" => x.n < y.n /\ x # y /\ x.n \in Nat /\ y.n \in Nat
        /\ \A x \in One(user_target), y \in {cur} \cup Queued :
              y.kind = "user" => x.n < y.n /\ x # y /\ x.n \in Nat /\ y.n \in Nat
        /\ \A y \in Queued : IsTarget(y) => cur # y
        /\ \A x \in Range(head) : x.kind = "dev"
        /\ \A x \in One(user_target) : x.kind = "user"
    BY <1>2, ChainParts
  <1>5. ASSUME cur.kind = "user", InsertUser(cur)
        PROVE  [Channel!Next]_(Channel!chanVars)
    <2>1. One(user_target)' = {cur} /\ Range(head)' = Range(head)
      BY <1>2, <1>5 DEF InsertUser, One, Range
    <2>2. PendingDevs' = PendingDevs
      BY <1>3, <1>5, <2>1
    <2>3. CASE user_target = NULL
      <3>1. PendingUsers' = PendingUsers
        BY <1>3, <2>1, <2>3 DEF One
      <3> QED
        BY <1>3, <2>2, <3>1 DEF Channel!chanVars
    <2>4. CASE user_target # NULL
      <3>1. One(user_target) = {user_target}
        BY <2>4 DEF One
      <3>2. PendingUsers' = PendingUsers \ {user_target} /\ cur \in PendingUsers
            /\ user_target \in PendingUsers /\ user_target # cur
        BY <1>3, <1>4, <1>5, <2>1, <3>1
      <3>3. \A x \in PendingUsers : user_target.n <= x.n
        <4>1. \A x \in PendingUsers : x = user_target \/ x \in {cur} \cup Queued
          BY <1>3, <3>1
        <4>2. user_target.n \in Nat
          BY <1>4, <1>5, <3>1
        <4>3. \A a, b \in Nat : a < b \/ a = b => a <= b
          OBVIOUS
        <4>4. \A x \in PendingUsers : x.kind = "user"
          BY <1>3
        <4> QED
          BY <1>4, <3>1, <4>1, <4>2, <4>3, <4>4
      <3>4. PendingUsers # {user_target}
        BY <3>2
      <3>5. Channel!Supersede
        BY <1>3, <2>2, <3>2, <3>3, <3>4 DEF Channel!Supersede, Channel!Oldest
      <3> QED
        BY <3>5 DEF Channel!Next
    <2> QED
      BY <2>3, <2>4
  <1>6. ASSUME cur.kind = "dev", InsertDevice(cur)
        PROVE  [Channel!Next]_(Channel!chanVars)
    <2>1. One(user_target)' = One(user_target) /\ head \in Seq(Message) /\ Ordered(head)
      BY <1>6, ChainTypes DEF InsertDevice, One, OrderInv, ListOrder
    <2>2. PendingUsers' = PendingUsers
      BY <1>3, <1>6, <2>1
    <2>3. CASE InsertDeviceRoom(cur)
      <3>1. Range(head)' = Range(head) \cup {cur}
        <4>1. head' = Append(head, cur)
          BY <2>3 DEF InsertDeviceRoom
        <4>2. Range(head') = Range(head) \cup {cur}
          BY <1>2, <2>1, <4>1, AppendRange
        <4> QED
          BY <4>2 DEF Range
      <3>2. PendingDevs' = PendingDevs
        BY <1>3, <3>1
      <3> QED
        BY <1>3, <2>2, <3>2 DEF Channel!chanVars
    <2>4. CASE InsertDeviceFull(cur)
      <3>1. targets_num > NodeMax /\ head # <<>> /\ head' = Append(Tail(head), cur)
        BY <2>4 DEF InsertDeviceFull
      <3>2. /\ Tail(head) \in Seq(Message) /\ Range(head) = {Head(head)} \cup Range(Tail(head))
            /\ Before({Head(head)}, Range(Tail(head))) /\ Head(head) \in Range(head)
        BY <2>1, <3>1, TailRange
      <3>3. Range(head)' = Range(Tail(head)) \cup {cur}
        <4>1. Range(head') = Range(Tail(head)) \cup {cur}
          BY <1>2, <3>1, <3>2, AppendRange
        <4> QED
          BY <4>1 DEF Range
      <3>4. \A x \in Range(Tail(head)) : Head(head).n < x.n /\ Head(head) # x
                                        /\ Head(head).n \in Nat /\ x.n \in Nat
        <4>1. \A x \in Range(head) : x.n \in Nat /\ IsTarget(x)
          BY <1>4, ChainTypes DEF IsTarget, TargetKind
        <4>2. \A a, b \in Nat : a < b => a # b
          OBVIOUS
        <4>3. \A x \in Range(Tail(head)) : Head(head).n < x.n
          BY <3>2, <4>1 DEF Before
        <4> QED
          BY <3>2, <4>1, <4>2, <4>3
      <3>5. PendingDevs' = PendingDevs \ {Head(head)} /\ Head(head) \in PendingDevs
        <4>1. Head(head).kind = "dev" /\ \A y \in {cur} \cup Queued : y.kind = "dev" => Head(head) # y
          BY <1>4, <3>2
        <4> QED
          BY <1>3, <3>2, <3>3, <3>4, <4>1
      <3>6. \A x \in PendingDevs : Head(head).n <= x.n
        <4>1. \A x \in PendingDevs : x = Head(head) \/ (Head(head).n < x.n /\ x.n \in Nat)
          <5>1. \A x \in PendingDevs : /\ x.kind = "dev"
                                      /\ \/ x = Head(head) \/ x \in Range(Tail(head))
                                         \/ x \in {cur} \cup Queued
            BY <1>3, <3>2
          <5>2. \A x \in {cur} \cup Queued : x.kind = "dev" => Head(head).n < x.n /\ x.n \in Nat
            BY <1>4, <3>2
          <5> QED
            BY <3>4, <5>1, <5>2
        <4>2. Head(head).n \in Nat
          BY <1>4, <1>6, <3>2
        <4>3. \A a, b \in Nat : a < b \/ a = b => a <= b
          OBVIOUS
        <4> QED
          BY <4>1, <4>2, <4>3
      <3>7. Cardinality(PendingDevs) > NodeMax + 1
        <4>1. IsFiniteSet(PendingDevs)
          <5>1. IsFiniteSet(Range(head)) /\ IsFiniteSet(Range(mq)) /\ IsFiniteSet(Range(waiters))
            BY RangeFinite, ChainTypes
          <5>2. IsFiniteSet(Range(head) \cup Queued)
            BY <5>1, FS_Union DEF Queued
          <5>3. IsFiniteSet((Range(head) \cup Queued) \cup {cur})
            BY <5>2, FS_AddElement
          <5>4. PendingDevs \subseteq (Range(head) \cup Queued) \cup {cur}
            BY <1>3
          <5> QED
            BY <5>3, <5>4, FS_Subset
        <4>2. IsFiniteSet(Range(head)) /\ Cardinality(Range(head)) = Len(head)
          <5>1. \A m \in Range(head) : IsTarget(m)
            BY <1>4 DEF IsTarget, TargetKind
          <5> QED
            BY <2>1, <5>1, OrderedCount
        <4>3. cur \notin Range(head)
          BY <1>4, <1>6
        <4>4. Cardinality(Range(head) \cup {cur}) = Len(head) + 1
          BY <4>2, <4>3, FS_AddElement
        <4>5. Cardinality(Range(head) \cup {cur}) <= Cardinality(PendingDevs)
          <5>1. Range(head) \cup {cur} \subseteq PendingDevs
            BY <1>3, <1>4, <1>6
          <5> QED
            BY <4>1, <5>1, FS_Subset
        <4>6. Len(head) > NodeMax /\ Len(head) \in Nat /\ NodeMax \in Nat
          BY <2>1, <3>1, LenProperties, PipelineAssumption DEF CoreInv, CountMatches
        <4>7. Cardinality(PendingDevs) \in Nat
          BY <4>1, FS_CardinalityType
        <4> QED
          BY <4>4, <4>5, <4>6, <4>7
      <3>8. Channel!Cardinality(PendingDevs) = Cardinality(PendingDevs)
        BY Zenon DEF Channel!Cardinality, Cardinality
      <3>9. Channel!DropOldest
        BY <1>3, <2>2, <3>5, <3>6, <3>7, <3>8 DEF Channel!DropOldest, Channel!Oldest
      <3> QED
        BY <3>9 DEF Channel!Next
    <2> QED
      BY <1>6, <2>3, <2>4 DEF InsertDevice
  <1>7. ASSUME ~mutexOk \/ CanFail, UNCHANGED targetVars
        PROVE  [Channel!Next]_(Channel!chanVars)
    <2>1. CanFail
      BY <1>7 DEF UpInv, Lockable, IsUp
    <2>2. Range(head)' = Range(head) /\ One(user_target)' = One(user_target)
      BY <1>7 DEF targetVars, Range, One
    <2>3. cur \in PendingDevs \cup PendingUsers
      BY <1>2, <1>3 DEF IsTarget, TargetKind
    <2>4. /\ \A x \in Range(head) : cur.kind = "dev" => x # cur
          /\ \A x \in One(user_target) : cur.kind = "user" => x # cur
          /\ \A y \in Queued : y.kind = "dev" \/ y.kind = "user" => cur # y
      BY <1>4 DEF IsTarget, TargetKind
    <2>5. PendingDevs' = PendingDevs \ {cur} /\ PendingUsers' = PendingUsers \ {cur}
      BY <1>3, <1>4, <2>2, <2>4
    <2>6. Channel!Lose
      BY <1>3, <2>1, <2>3, <2>5 DEF Channel!Lose
    <2> QED
      BY <2>6 DEF Channel!Next
  <1> QED
    BY <1>5, <1>6, <1>7 DEF algs_handle_multiple_targets

(* The algorithm takes the oldest of its kind, and is done with it.        *)
LEMMA AlgRefines ==
    ASSUME CoreInv, HeapInv, OrderInv, IsUp, IsUp', AlgThread
    PROVE  [Channel!Next]_(Channel!chanVars)
  <1>1. UNCHANGED <<mq, waiters, cur, posted>>
    BY DEF AlgThread, AlgCapture, get_and_rm_one_target, AlgRun, AlgEnd, queueVars, taskVars
  <1>2. /\ PendingDevs = {m \in Range(head) \cup One(cur) \cup Queued : m.kind = "dev"}
        /\ PendingUsers = {m \in One(user_target) \cup One(cur) \cup Queued : m.kind = "user"}
        /\ PendingDevs' = {m \in Range(head)' \cup One(cur) \cup Queued : m.kind = "dev"}
        /\ PendingUsers' = {m \in One(user_target)' \cup One(cur) \cup Queued : m.kind = "user"}
        /\ LastPosted' = LastPosted /\ IsUp' = IsUp
        /\ InHand = target_node /\ InHand' = target_node'
    <2>1. One(cur)' = One(cur) /\ Queued' = Queued
      BY <1>1 DEF One, Queued
    <2> QED
      BY <1>1, <2>1, PendingIs, NextPendingIs
  <1>3. /\ \A x \in Range(head), y \in One(cur) \cup Queued :
              y.kind = "dev" => x.n < y.n /\ x # y /\ x.n \in Nat /\ y.n \in Nat
        /\ \A x \in One(user_target), y \in One(cur) \cup Queued :
              y.kind = "user" => x.n < y.n /\ x # y /\ x.n \in Nat /\ y.n \in Nat
        /\ \A x \in Range(head) : x.kind = "dev" /\ x.n \in Nat
        /\ \A x \in One(user_target) : x.kind = "user" /\ x.n \in Nat
    <2>1. /\ \A x \in Range(head) : x.n \in Nat
          /\ \A x \in One(user_target) : x.n \in Nat
      BY ChainTypes
    <2> QED
      BY <2>1, ChainParts
  <1>4. \A a, b \in Nat : (a < b \/ a = b => a <= b) /\ (a < b => a # b)
    OBVIOUS
  <1>5. ASSUME get_and_rm_one_target, TakeUser PROVE Channel!Next
    <2>1. /\ target_node = NULL /\ user_target # NULL /\ target_node' = user_target
          /\ One(user_target) = {user_target} /\ One(user_target)' = {}
          /\ Range(head)' = Range(head)
      BY <1>5 DEF get_and_rm_one_target, TakeUser, HeapInv, Untaken, One, Range
    <2>2. PendingDevs' = PendingDevs
      BY <1>2, <2>1
    <2>3. PendingUsers' = PendingUsers \ {user_target} /\ user_target \in PendingUsers
      BY <1>2, <1>3, <2>1
    <2>4. \A x \in PendingUsers : user_target.n <= x.n
      <3>1. \A x \in PendingUsers : /\ x.kind = "user"
                                   /\ (x = user_target \/ x \in One(cur) \cup Queued)
        BY <1>2, <2>1
      <3> QED
        BY <1>3, <1>4, <2>1, <3>1
    <2>5. Channel!Deliver
      BY <1>2, <2>1, <2>2, <2>3, <2>4 DEF Channel!Deliver, Channel!Oldest
    <2> QED
      BY <2>5 DEF Channel!Next
  <1>6. ASSUME get_and_rm_one_target, TakeDevice PROVE Channel!Next
    <2>1. /\ target_node = NULL /\ head # <<>> /\ target_node' = Head(head)
          /\ head' = Tail(head) /\ One(user_target)' = One(user_target)
      BY <1>6 DEF get_and_rm_one_target, TakeDevice, HeapInv, Untaken, One
    <2>2. head \in Seq(Message) /\ Ordered(head)
      BY ChainTypes DEF OrderInv, ListOrder
    <2>3. /\ Range(head) = {Head(head)} \cup Range(Tail(head)) /\ Head(head) \in Range(head)
          /\ Before({Head(head)}, Range(Tail(head)))
      BY <2>1, <2>2, TailRange
    <2>4. Range(head)' = Range(Tail(head)) /\ PendingUsers' = PendingUsers
      BY <1>2, <2>1 DEF Range
    <2>5. \A x \in Range(Tail(head)) : Head(head).n < x.n /\ Head(head) # x /\ x.n \in Nat
      <3>1. \A x \in Range(head) : IsTarget(x)
        BY <1>3 DEF IsTarget, TargetKind
      <3>2. \A x \in Range(Tail(head)) : Head(head).n < x.n
        BY <2>3, <3>1 DEF Before
      <3> QED
        BY <1>3, <1>4, <2>3, <3>2
    <2>6. PendingDevs' = PendingDevs \ {Head(head)} /\ Head(head) \in PendingDevs
      <3>1. /\ Head(head).kind = "dev"
            /\ \A y \in One(cur) \cup Queued : y.kind = "dev" => Head(head) # y
        BY <1>3, <2>3
      <3> QED
        BY <1>2, <2>3, <2>4, <2>5, <3>1
    <2>7. \A x \in PendingDevs : Head(head).n <= x.n
      <3>1. \A x \in PendingDevs : /\ x.kind = "dev"
                                  /\ \/ x = Head(head) \/ x \in Range(Tail(head))
                                     \/ x \in One(cur) \cup Queued
        BY <1>2, <2>3
      <3>2. Head(head).n \in Nat
        BY <1>3, <2>3
      <3> QED
        BY <1>3, <1>4, <2>3, <2>5, <3>1, <3>2
    <2>8. Channel!Deliver
      BY <1>2, <2>1, <2>4, <2>6, <2>7 DEF Channel!Deliver, Channel!Oldest
    <2> QED
      BY <2>8 DEF Channel!Next
  <1>7. ASSUME UNCHANGED <<head, user_target>>, target_node' = target_node
        PROVE  UNCHANGED Channel!chanVars
    <2>1. Range(head)' = Range(head) /\ One(user_target)' = One(user_target)
      BY <1>7 DEF Range, One
    <2>2. PendingDevs' = PendingDevs /\ PendingUsers' = PendingUsers /\ InHand' = InHand
      BY <1>2, <1>7, <2>1
    <2> QED
      BY <1>2, <2>2 DEF Channel!chanVars
  <1>8. ASSUME UNCHANGED <<head, user_target>>, target_node' = NULL, target_node # NULL
        PROVE  Channel!Next
    <2>1. Range(head)' = Range(head) /\ One(user_target)' = One(user_target)
      BY <1>8 DEF Range, One
    <2>2. PendingDevs' = PendingDevs /\ PendingUsers' = PendingUsers
      BY <1>2, <2>1
    <2>3. Channel!Finish
      BY <1>2, <1>8, <2>2 DEF Channel!Finish
    <2> QED
      BY <2>3 DEF Channel!Next
  <1> QED
    BY <1>5, <1>6, <1>7, <1>8
    DEF AlgThread, AlgCapture, get_and_rm_one_target, TakeNothing, AlgRun, AlgEnd, targetVars

(* The start: nothing of an earlier process is a target.                   *)
LEMMA StartRefines ==
    ASSUME CoreInv, HeapInv, UpInv, ~IsUp, IsUp', alg_init
    PROVE  Channel!Next
  <1>1. /\ mainpc = "loaded" /\ head' = <<>> /\ user_target' = NULL
        /\ UNCHANGED <<mq, waiters, taskpc, cur, target_node, posted>>
    BY DEF alg_init, queueVars, taskVars
  <1>2. /\ waiters = <<>> /\ cur = NULL /\ target_node = NULL /\ posted = 0
        /\ \A i \in DOMAIN mq : IsStale(mq[i])
    BY <1>1 DEF HeapInv, NotYet, HasCur, Untaken, UpInv, Unused
  <1>3. Range(head)' = {} /\ One(user_target)' = {} /\ One(cur)' = {}
    BY <1>1, <1>2 DEF Range, One
  <1>4. \A m \in Queued' : m.kind = "stale"
    <2>1. \A m \in Range(mq) : m.kind = "stale"
      BY <1>2 DEF Range, IsStale
    <2>2. Range(waiters) = {}
      BY <1>2 DEF Range
    <2> QED
      BY <1>1, <2>1, <2>2 DEF Queued
  <1>5. PendingDevs' = {} /\ PendingUsers' = {} /\ LastPosted' = 0 /\ InHand' = NULL
    BY <1>1, <1>2, <1>3, <1>4, NextPendingIs
  <1>6. Channel!Start
    BY <1>5, PendingIs DEF Channel!Start
  <1> QED
    BY <1>6 DEF Channel!Next

(* Every step of the pipeline is a step of the channel, or none.           *)
LEMMA StepRefines ==
    CoreInv /\ HeapInv /\ OrderInv /\ UpInv /\ [Next]_vars => [Channel!Next]_(Channel!chanVars)
  <1> SUFFICES ASSUME CoreInv, HeapInv, OrderInv, UpInv, [Next]_vars
               PROVE  [Channel!Next]_(Channel!chanVars)
    OBVIOUS
  <1>1. CASE ~IsUp /\ ~IsUp'
    <2>1. IsUp' = IsUp
      BY <1>1 DEF IsUp
    <2> QED
      BY <1>1, <2>1, PendingIs, NextPendingIs DEF Channel!chanVars
  <1>2. CASE IsUp /\ ~IsUp'
    <2>1. Channel!Stop
      BY <1>2, NextPendingIs DEF Channel!Stop
    <2> QED
      BY <2>1 DEF Channel!Next
  <1>3. CASE UNCHANGED vars
    <2>1. UNCHANGED <<mainpc, mq, waiters, cur, head, user_target, target_node, posted>>
      BY <1>3 DEF vars, queueVars, taskVars, targetVars, algVars
    <2> QED
      BY <2>1 DEF Channel!chanVars, IsUp, LastPosted, PendingDevs, PendingUsers, InHand, Pending,
                  Range, One
  <1>4. ASSUME ~IsUp, IsUp', Next PROVE Channel!Next
    <2>1. mainpc # "up" /\ mainpc' = "up"
      BY <1>4 DEF IsUp
    <2>2. alg_init
      BY <1>4, <2>1
      DEF Next, msg_send_to_alg, TaskThread, TaskReceive, TaskReceiveStale, TaskClose,
          algs_handle_multiple_targets, AlgThread, AlgCapture, get_and_rm_one_target, AlgRun, AlgEnd,
          MainThread, sysport_task_create, alg_uninit, JoinThreadZero, JoinFaults,
          sysport_task_delete, MutexDestroy, Exit, Kill, Die
    <2> QED
      BY <1>4, <2>2, StartRefines
  <1>5. ASSUME IsUp, IsUp', Next PROVE [Channel!Next]_(Channel!chanVars)
    <2>1. mainpc = "up" /\ mainpc' = "up"
      BY <1>5 DEF IsUp
    <2>2. \/ \E p \in Producers, kind \in TargetKind : msg_send_to_alg(p, kind)
          \/ TaskReceive \/ TaskClose \/ algs_handle_multiple_targets \/ AlgThread
      BY <1>5, <2>1
      DEF Next, TaskThread, TaskReceiveStale, MainThread, sysport_task_create, alg_init,
          alg_uninit, JoinThreadZero, JoinFaults, sysport_task_delete, MutexDestroy, Exit,
          Kill, Die
    <2>3. ~TaskClose
      BY <2>1 DEF TaskClose, UpInv, Undeleted
    <2> QED
      BY <1>5, <2>2, <2>3, PostRefines, ReceiveRefines, HandleRefines, AlgRefines
  <1> QED
    BY <1>1, <1>2, <1>3, <1>4, <1>5

(* The pipeline implements the channel for every number of senders and all *)
(* capacities, with and without failing allocations: while the algorithm   *)
(* is initialised, targets of a kind are taken in the order posted, and,   *)
(* if memory does not run out, a device target is lost only as the oldest  *)
(* of more than TARGET_NODE_MAX_NUMBER + 1 and a user target only to a     *)
(* later one.                                                              *)
THEOREM PipelineRefinesChannel == Spec => ImplementsChannel
  <1>1. Init => UpInv
    <2> SUFFICES ASSUME Init PROVE UpInv
      OBVIOUS
    <2>1. /\ mainpc = "down" /\ mq = <<>> /\ waiters = <<>> /\ taskpc = "none" /\ posted = 0
      BY DEF Init, ZeroData
    <2>2. Queued = {}
      BY <2>1 DEF Queued, Range
    <2> QED
      BY <2>1, <2>2 DEF UpInv, Unused, Undeleted, Lockable
  <1>2. Init => Channel!Init
    <2> SUFFICES ASSUME Init PROVE Channel!Init
      OBVIOUS
    <2>1. ~IsUp
      BY DEF Init, IsUp
    <2> QED
      BY <2>1, PendingIs DEF Channel!Init
  <1> QED
    BY <1>1, <1>2, InitCore, InitStale, InitHeap, InitOrder, StepCore, StepStale, StepHeap,
       StepOrder, StepUp, StepRefines, PTL DEF Spec, ImplementsChannel, Channel!Spec
================================================================================
