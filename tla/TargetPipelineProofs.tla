------------------------ MODULE TargetPipelineProofs ------------------------
(***************************************************************************)
(* Proofs about the target pipeline, for any number of network threads and *)
(* any capacities of the queue and of the list.                            *)
(*                                                                         *)
(* CoreInv is inductive: the types, that the task thread holds a target    *)
(* whenever it handles one, and that targets_num counts the list.  The     *)
(* last is needed for the first: taking a target decrements targets_num,   *)
(* which stays a natural number only because the list was not empty.       *)
(*                                                                         *)
(* Three more invariants stand on it: the list as a suffix of what was     *)
(* inserted, the stale messages as a prefix of the queue, and HeapInv, the *)
(* balance of the heap with what a step must know of what it overwrites.   *)
(***************************************************************************)
EXTENDS TargetPipeline, SequenceTheorems, FiniteSetTheorems, TLAPS

HandlesTarget == taskpc = "handle" => cur \in Target

CoreInv == TypeOK /\ HandlesTarget /\ CountMatches

-----------------------------------------------------------------------------
(* What is known of messages; the proofs below never look inside them.     *)
LEMMA MessageFacts ==
    /\ Target \subseteq Message
    /\ Stale \in Message
    /\ \A m \in Message : m.kind \in TargetKind => m \in Target
    /\ \A n \in Nat, kind \in TargetKind \cup {"poison"}, t \in Producers \cup {Main} :
          [n |-> n, kind |-> kind, from |-> t] \in Message
  BY DEF Target, Message, Stale, TargetKind

(* The pointers a dead process leaves are as many as it had queued.        *)
LEMMA StaleSeq ==
    ASSUME NEW q \in Seq(Message)
    PROVE  /\ [i \in DOMAIN q |-> Stale] \in Seq(Message)
           /\ Len([i \in DOMAIN q |-> Stale]) = Len(q)
  <1>1. Stale \in Message
    BY MessageFacts
  <1>2. DOMAIN q = 1..Len(q) /\ Len(q) \in Nat
    BY LenProperties
  <1>3. [i \in 1..Len(q) |-> Stale] \in [1..Len(q) -> Message]
    BY <1>1
  <1>4. [i \in 1..Len(q) |-> Stale] \in Seq(Message)
    BY <1>2, <1>3, SeqDef
  <1>5. Len([i \in 1..Len(q) |-> Stale]) = Len(q)
    BY <1>2, <1>4
  <1> QED
    BY <1>2, <1>4, <1>5

(* mq_send keeps the queue within its capacity.                            *)
LEMMA SendTypes ==
    ASSUME NEW m \in Message, mq \in Seq(Message), waiters \in Seq(Message),
           Len(mq) <= MaxMsg, mq_send(m)
    PROVE  mq' \in Seq(Message) /\ Len(mq') <= MaxMsg /\ waiters' \in Seq(Message)
  <1>1. CASE Len(mq) < MaxMsg
    <2>1. mq' = Append(mq, m) /\ waiters' = waiters
      BY <1>1 DEF mq_send
    <2> QED
      BY <1>1, <2>1, AppendProperties, PipelineAssumption
  <1>2. CASE ~(Len(mq) < MaxMsg)
    <2>1. waiters' = Append(waiters, m) /\ mq' = mq
      BY <1>2 DEF mq_send
    <2> QED
      BY <2>1, AppendProperties
  <1> QED
    BY <1>1, <1>2

(* So does a receive that lets a blocked sender in.                        *)
LEMMA ReceiveTypes ==
    ASSUME mq \in Seq(Message), mq # <<>>, waiters \in Seq(Message), Len(mq) <= MaxMsg
    PROVE  /\ QueueAfterReceive \in Seq(Message)
           /\ Len(QueueAfterReceive) <= MaxMsg
           /\ (IF waiters = <<>> THEN waiters ELSE Tail(waiters)) \in Seq(Message)
           /\ Head(mq) \in Message
  BY PipelineAssumption DEF QueueAfterReceive

(* The end of the process leaves every variable in its initial state but   *)
(* the number of starts and the queue.                                     *)
LEMMA DieCore ==
    ASSUME TypeOK, NEW q \in Seq(Message), Len(q) <= MaxMsg, Die(q)
    PROVE  CoreInv'
  <1>1. mq' \in Seq(Message) /\ Len(mq') <= MaxMsg
    BY StaleSeq DEF Die
  <1>2. /\ waiters' \in Seq(Message) /\ head' \in Seq(Target)
        /\ devLog' \in Seq(Target) /\ Len(head') = 0
    BY DEF Die
  <1>3. release' \in BOOLEAN /\ mutexOk' \in BOOLEAN
    BY Zenon DEF Die
  <1> QED
    BY <1>1, <1>2, <1>3, PipelineAssumption
    DEF Die, TypeOK, CoreInv, HandlesTarget, CountMatches, Serving

-----------------------------------------------------------------------------
(* At the start all data is zero.                                          *)
LEMMA InitCore == Init => CoreInv
  <1> SUFFICES ASSUME Init PROVE CoreInv
    OBVIOUS
  <1>1. <<>> \in Seq(Message) /\ <<>> \in Seq(Target) /\ Len(<<>>) = 0
    OBVIOUS
  <1>2. release \in BOOLEAN /\ mutexOk \in BOOLEAN
    BY Zenon DEF Init, ZeroData
  <1> QED
    BY <1>1, <1>2, PipelineAssumption
    DEF Init, ZeroData, TypeOK, CoreInv, HandlesTarget, CountMatches, Serving

(* The task thread: a message leaves the queue; a target enters the list,  *)
(* replaces the oldest node when more than NodeMax are counted, or goes to *)
(* the user slot.                                                          *)
LEMMA TaskCore ==
    ASSUME CoreInv, TaskThread
    PROVE  CoreInv'
  <1> USE DEF CoreInv
  <1>1. CASE TaskReceive
    BY <1>1, ReceiveTypes, MessageFacts, PipelineAssumption
    DEF TaskReceive, TypeOK, HandlesTarget, CountMatches, targetVars, algVars
  <1>2. CASE TaskReceiveStale
    <2>1. QueueAfterReceive \in Seq(Message) /\ Len(QueueAfterReceive) <= MaxMsg
      BY <1>2, ReceiveTypes DEF TaskReceiveStale, TypeOK
    <2> QED
      BY <1>2, <2>1, DieCore DEF TaskReceiveStale
  <1>3. CASE TaskClose
    <2>1. Len(mq) \in Nat /\ mq' \in Seq(Message) /\ Len(mq') <= MaxMsg
      BY <1>3, PipelineAssumption DEF TaskClose, TypeOK
    <2> QED
      BY <1>3, <2>1
      DEF TaskClose, TypeOK, HandlesTarget, CountMatches, targetVars, algVars
  <1>4. CASE algs_handle_multiple_targets
    <2>1. cur \in Target /\ taskpc' = "recv" /\ cur' = NULL
      BY <1>4 DEF algs_handle_multiple_targets, HandlesTarget
    <2>2. /\ UNCHANGED <<boots, mainpc, mq, waiters, release, mutexOk, algpc,
                         target_node, posted>>
      BY <1>4 DEF algs_handle_multiple_targets, queueVars, algVars
    <2>3. /\ head' \in Seq(Target) /\ devLog' \in Seq(Target)
          /\ targets_num' \in Nat /\ user_target' \in Target \cup {NULL}
          /\ live' \in Int /\ leaked' \in Nat
          /\ CountMatches'
      <3>1. CASE InsertUser(cur)
        BY <3>1, <2>1 DEF InsertUser, TypeOK, CountMatches
      <3>2. CASE InsertDevice(cur)
        <4>1. devLog' \in Seq(Target) /\ UNCHANGED <<user_target, leaked>>
          BY <3>2, <2>1 DEF InsertDevice, TypeOK
        <4>2. CASE InsertDeviceFull(cur)
          BY <4>1, <4>2, <2>1 DEF InsertDeviceFull, TypeOK, CountMatches
        <4>3. CASE InsertDeviceRoom(cur)
          BY <4>1, <4>3, <2>1, PipelineAssumption DEF InsertDeviceRoom, TypeOK, CountMatches
        <4> QED
          BY <3>2, <4>2, <4>3 DEF InsertDevice
      <3>3. CASE live' = live - 1 /\ UNCHANGED <<targetVars, leaked>>
        BY <3>3 DEF TypeOK, CountMatches, targetVars
      <3> QED
        BY <1>4, <3>1, <3>2, <3>3 DEF algs_handle_multiple_targets
    <2> QED
      BY <2>1, <2>2, <2>3 DEF TypeOK, HandlesTarget
  <1> QED
    BY <1>1, <1>2, <1>3, <1>4 DEF TaskThread

(* The algorithm thread: targets_num is decremented with the list.         *)
LEMMA AlgCore ==
    ASSUME CoreInv, AlgThread
    PROVE  CoreInv'
  <1> USE DEF CoreInv
  <1>1. CASE get_and_rm_one_target
    <2>1. /\ head' \in Seq(Target) /\ targets_num' \in Nat
          /\ target_node' \in Target \cup {NULL} /\ user_target' \in Target \cup {NULL}
          /\ CountMatches'
      <3>1. CASE TakeUser
        BY <3>1 DEF TakeUser, TypeOK, CountMatches
      <3>2. CASE TakeDevice
        <4>1. /\ Head(head) \in Target /\ Tail(head) \in Seq(Target)
              /\ Len(Tail(head)) = Len(head) - 1 /\ Len(head) \in Nat \ {0}
          BY <3>2, HeadTailProperties, EmptySeq DEF TakeDevice, TypeOK
        <4> QED
          BY <3>2, <4>1, PipelineAssumption DEF TakeDevice, TypeOK, CountMatches
      <3>3. CASE TakeNothing
        BY <3>3 DEF TakeNothing, TypeOK, CountMatches
      <3> QED
        BY <1>1, <3>1, <3>2, <3>3 DEF get_and_rm_one_target
    <2> QED
      BY <1>1, <2>1
      DEF get_and_rm_one_target, TypeOK, HandlesTarget, queueVars, taskVars, heapVars
  <1>2. CASE AlgRun
    BY <1>2 DEF AlgRun, TypeOK, HandlesTarget, CountMatches, queueVars, taskVars, targetVars
  <1>3. CASE AlgCapture \/ AlgEnd
    BY <1>3 DEF AlgCapture, AlgEnd, TypeOK, HandlesTarget, CountMatches, queueVars,
                taskVars, targetVars, heapVars
  <1> QED
    BY <1>1, <1>2, <1>3 DEF AlgThread

(* The main thread: alg_init empties the list, alg_uninit leaves it alone. *)
LEMMA MainCore ==
    ASSUME CoreInv, MainThread \/ Kill
    PROVE  CoreInv'
  <1> USE DEF CoreInv
  <1>1. CASE sysport_task_create
    BY <1>1, PipelineAssumption
    DEF sysport_task_create, TypeOK, HandlesTarget, CountMatches, queueVars,
        targetVars, algVars
  <1>2. CASE alg_init
    <2>1. head' \in Seq(Target) /\ Len(head') = 0
      BY <1>2 DEF alg_init
    <2>2. release' \in BOOLEAN /\ mutexOk' \in BOOLEAN
      BY <1>2, Zenon DEF alg_init
    <2> QED
      BY <1>2, <2>1, <2>2, PipelineAssumption
      DEF alg_init, TypeOK, HandlesTarget, CountMatches, queueVars, taskVars, Serving
  <1>3. CASE alg_uninit
    BY <1>3 DEF alg_uninit, TypeOK, HandlesTarget, CountMatches, queueVars,
                taskVars, targetVars, algVars, heapVars, Serving
  <1>4. CASE JoinThreadZero
    BY <1>4 DEF JoinThreadZero, TypeOK, HandlesTarget, CountMatches, queueVars,
                taskVars, targetVars, algVars, Serving
  <1>5. CASE sysport_task_delete
    <2>1. [n |-> 0, kind |-> "poison", from |-> Main] \in Message
      BY MessageFacts
    <2>2. mq' \in Seq(Message) /\ Len(mq') <= MaxMsg /\ waiters' \in Seq(Message)
      BY <1>5, <2>1, SendTypes DEF sysport_task_delete, TypeOK
    <2> QED
      BY <1>5, <2>2
      DEF sysport_task_delete, TypeOK, HandlesTarget, CountMatches, taskVars,
          targetVars, algVars, Serving
  <1>6. CASE MutexDestroy
    BY <1>6 DEF MutexDestroy, TypeOK, HandlesTarget, CountMatches, queueVars,
                taskVars, targetVars, algVars, heapVars, Serving
  <1>7. CASE JoinFaults \/ Exit \/ Kill
    BY <1>7, DieCore DEF JoinFaults, Exit, Kill, TypeOK
  <1> QED
    BY <1>1, <1>2, <1>3, <1>4, <1>5, <1>6, <1>7 DEF MainThread

(* A sender adds a message and counts it.                                  *)
LEMMA PostCore ==
    ASSUME CoreInv, NEW p \in Producers, NEW kind \in TargetKind,
           msg_send_to_alg(p, kind)
    PROVE  CoreInv'
  <1> USE DEF CoreInv
  <1>1. [n |-> posted + 1, kind |-> kind, from |-> p] \in Message
    BY MessageFacts DEF TypeOK
  <1>2. /\ mq' \in Seq(Message) /\ Len(mq') <= MaxMsg /\ waiters' \in Seq(Message)
        /\ live' \in Int
    BY <1>1, SendTypes DEF msg_send_to_alg, TypeOK, queueVars
  <1> QED
    BY <1>2, PipelineAssumption
    DEF msg_send_to_alg, TypeOK, HandlesTarget, CountMatches, taskVars,
        targetVars, algVars

(* CoreInv is inductive.                                                   *)
LEMMA StepCore == CoreInv /\ [Next]_vars => CoreInv'
  <1> SUFFICES ASSUME CoreInv, [Next]_vars PROVE CoreInv'
    OBVIOUS
  <1>1. CASE UNCHANGED vars
    BY <1>1 DEF CoreInv, vars, TypeOK, HandlesTarget, CountMatches, queueVars,
                taskVars, targetVars, algVars, heapVars
  <1>2. CASE Next
    BY <1>2, TaskCore, AlgCore, MainCore, PostCore DEF Next
  <1> QED
    BY <1>1, <1>2

(* Every state of the pipeline is type correct, however its threads and    *)
(* its restarts interleave.                                                *)
THEOREM TypeCorrect == Spec => []TypeOK
  <1>1. CoreInv => TypeOK
    BY DEF CoreInv
  <1> QED
    BY <1>1, InitCore, StepCore, PTL DEF Spec

(* targets_num, by which insert_target_to_head decides whether to drop a   *)
(* node, is the length of the device list in every state, and the list has *)
(* at most TARGET_NODE_MAX_NUMBER + 1 nodes.                               *)
THEOREM CounterIsLength == Spec => []CountMatches
  <1>1. CoreInv => CountMatches
    BY DEF CoreInv
  <1> QED
    BY <1>1, InitCore, StepCore, PTL DEF Spec
-----------------------------------------------------------------------------
(***************************************************************************)
(* The device list is a suffix of what was inserted.  Only three kinds of  *)
(* step change the list or the history: an insertion, a removal by the     *)
(* algorithm, and a step that empties the list.                            *)
(***************************************************************************)
(* Appending to the history and to its suffix.                             *)
LEMMA SuffixAppend ==
    ASSUME CoreInv, ListIsNewest, NEW m \in Target, InsertDevice(m)
    PROVE  ListIsNewest'
  <1>1. head \in Seq(Target) /\ devLog \in Seq(Target)
    BY DEF CoreInv, TypeOK
  <1>2. /\ devLog' = Append(devLog, m) /\ Len(devLog') = Len(devLog) + 1
        /\ devLog'[Len(devLog) + 1] = m
        /\ \A i \in 1..Len(devLog) : devLog'[i] = devLog[i]
    BY <1>1, AppendProperties DEF InsertDevice
  <1>3. Len(head) \in Nat /\ Len(devLog) \in Nat
    BY <1>1
  <1>4. CASE InsertDeviceRoom(m)
    <2>1. /\ Len(head') = Len(head) + 1 /\ head'[Len(head) + 1] = m
          /\ \A i \in 1..Len(head) : head'[i] = head[i]
      BY <1>1, <1>4, AppendProperties DEF InsertDeviceRoom
    <2>2. ASSUME NEW i \in 1..Len(head')
          PROVE  head'[i] = devLog'[(Len(devLog') - Len(head')) + i]
      <3>1. CASE i = Len(head) + 1
        BY <1>2, <1>3, <2>1, <3>1
      <3>2. CASE i \in 1..Len(head)
        <4>1. /\ (Len(devLog) - Len(head)) + i \in 1..Len(devLog)
              /\ head[i] = devLog[(Len(devLog) - Len(head)) + i]
          BY <1>3, <3>2 DEF ListIsNewest
        <4>2. (Len(devLog') - Len(head')) + i = (Len(devLog) - Len(head)) + i
          BY <1>2, <1>3, <2>1, <3>2
        <4> QED
          BY <1>2, <2>1, <3>2, <4>1, <4>2
      <3> QED
        BY <1>3, <2>1, <3>1, <3>2
    <2>3. Len(head') <= Len(devLog')
      BY <1>2, <1>3, <2>1 DEF ListIsNewest
    <2> QED
      BY <2>2, <2>3, Zenon DEF ListIsNewest
  <1>5. CASE InsertDeviceFull(m)
    <2>1. /\ Tail(head) \in Seq(Target) /\ Len(Tail(head)) = Len(head) - 1
          /\ \A i \in 1..(Len(head) - 1) : Tail(head)[i] = head[i + 1]
      BY <1>1, <1>5, HeadTailProperties DEF InsertDeviceFull
    <2>2. /\ Len(head') = Len(head) /\ head'[Len(head)] = m
          /\ \A i \in 1..(Len(head) - 1) : head'[i] = Tail(head)[i]
      BY <1>3, <1>5, <2>1, AppendProperties DEF InsertDeviceFull
    <2>3. ASSUME NEW i \in 1..Len(head')
          PROVE  head'[i] = devLog'[(Len(devLog') - Len(head')) + i]
      <3>1. CASE i = Len(head)
        <4>1. (Len(devLog') - Len(head')) + i = Len(devLog) + 1
          BY <1>2, <1>3, <2>2, <3>1
        <4> QED
          BY <1>2, <2>2, <3>1, <4>1
      <3>2. CASE i \in 1..(Len(head) - 1)
        <4>1. i + 1 \in 1..Len(head) /\ head'[i] = head[i + 1]
          BY <1>3, <2>1, <2>2, <3>2
        <4>2. /\ (Len(devLog) - Len(head)) + (i + 1) \in 1..Len(devLog)
              /\ head[i + 1] = devLog[(Len(devLog) - Len(head)) + (i + 1)]
          BY <1>3, <4>1 DEF ListIsNewest
        <4>3. (Len(devLog') - Len(head')) + i = (Len(devLog) - Len(head)) + (i + 1)
          BY <1>2, <1>3, <2>2, <3>2
        <4> QED
          BY <1>2, <4>1, <4>2, <4>3
      <3> QED
        BY <1>3, <2>2, <3>1, <3>2
    <2>4. Len(head') <= Len(devLog')
      BY <1>2, <1>3, <2>2 DEF ListIsNewest
    <2> QED
      BY <2>3, <2>4, Zenon DEF ListIsNewest
  <1> QED
    BY <1>4, <1>5 DEF InsertDevice

(* A step that empties the list, and one that leaves both alone.           *)
LEMMA SuffixEmpty ==
    ASSUME head' = <<>>, devLog' \in Seq(Target)
    PROVE  ListIsNewest'
  <1>1. Len(head') = 0 /\ Len(devLog') \in Nat
    BY LenProperties
  <1> QED
    BY <1>1 DEF ListIsNewest

(* A step that touches neither the list nor the history keeps the suffix.  *)
LEMMA SuffixKept ==
    ASSUME ListIsNewest, UNCHANGED <<head, devLog>>
    PROVE  ListIsNewest'
  BY DEF ListIsNewest

(* ListIsNewest is inductive: an insertion appends to both, a drop or a    *)
(* take shortens the list alone.                                           *)
LEMMA StepNewest == CoreInv /\ ListIsNewest /\ [Next]_vars => ListIsNewest'
  <1> SUFFICES ASSUME CoreInv, ListIsNewest, [Next]_vars PROVE ListIsNewest'
    OBVIOUS
  <1>1. CASE algs_handle_multiple_targets
    <2>1. cur \in Target
      BY <1>1 DEF algs_handle_multiple_targets, CoreInv, HandlesTarget
    <2>2. CASE InsertDevice(cur)
      BY <2>1, <2>2, SuffixAppend
    <2>3. CASE InsertUser(cur) \/ UNCHANGED targetVars
      BY <2>3, SuffixKept DEF InsertUser, targetVars
    <2> QED
      BY <1>1, <2>2, <2>3 DEF algs_handle_multiple_targets
  <1>2. CASE get_and_rm_one_target
    <2>1. CASE TakeUser \/ TakeNothing
      BY <1>2, <2>1, SuffixKept DEF get_and_rm_one_target, TakeUser, TakeNothing
    <2>2. CASE TakeDevice
      <3>1. head \in Seq(Target) /\ devLog \in Seq(Target) /\ head # <<>>
        BY <2>2 DEF CoreInv, TypeOK, TakeDevice
      <3>2. /\ head' = Tail(head) /\ devLog' = devLog
            /\ Len(head') = Len(head) - 1
            /\ \A i \in 1..Len(head') : head'[i] = head[i + 1]
        BY <1>2, <2>2, <3>1, HeadTailProperties DEF TakeDevice, get_and_rm_one_target
      <3>3. Len(head) \in Nat \ {0} /\ Len(devLog) \in Nat
        BY <3>1, EmptySeq
      <3> QED
        BY <3>2, <3>3 DEF ListIsNewest
    <2> QED
      BY <1>2, <2>1, <2>2 DEF get_and_rm_one_target
  <1>3. CASE alg_init
    <2>1. head' = <<>> /\ devLog' = devLog
      BY <1>3 DEF alg_init
    <2> QED
      BY <2>1, SuffixEmpty DEF CoreInv, TypeOK
  <1>4. CASE TaskReceiveStale \/ JoinFaults \/ Exit \/ Kill
    <2>1. head' = <<>> /\ devLog' = <<>>
      BY <1>4 DEF TaskReceiveStale, JoinFaults, Exit, Kill, Die
    <2> QED
      BY <2>1, SuffixEmpty
  <1>5. CASE \/ TaskReceive \/ TaskClose \/ AlgCapture \/ AlgRun \/ AlgEnd
             \/ UNCHANGED vars
    BY <1>5, SuffixKept
    DEF TaskReceive, TaskClose, AlgCapture, AlgRun, AlgEnd, vars, targetVars
  <1>6. CASE sysport_task_create \/ alg_uninit \/ JoinThreadZero
             \/ sysport_task_delete \/ MutexDestroy
    BY <1>6, SuffixKept
    DEF sysport_task_create, alg_uninit, JoinThreadZero, sysport_task_delete,
        MutexDestroy, targetVars
  <1>7. CASE \E p \in Producers, kind \in TargetKind : msg_send_to_alg(p, kind)
    BY <1>7, SuffixKept DEF msg_send_to_alg, targetVars
  <1> QED
    BY <1>1, <1>2, <1>3, <1>4, <1>5, <1>6, <1>7
    DEF Next, TaskThread, AlgThread, MainThread

(* The list insert_target_to_head keeps always holds the newest device     *)
(* targets, with no gap, whatever it dropped and the algorithm took.       *)
THEOREM NewestKept == Spec => []ListIsNewest
  <1>1. Init => ListIsNewest
    BY DEF Init, ZeroData, ListIsNewest
  <1> QED
    BY <1>1, InitCore, StepCore, StepNewest, PTL DEF Spec

-----------------------------------------------------------------------------
(***************************************************************************)
(* Pointers of an earlier process.  StaleFirst is not inductive: nothing   *)
(* in it says where in the queue such pointers are.  They are a prefix of  *)
(* it, because only a restart creates them and mq_send appends; so the     *)
(* first message that is not one is received after the last of them.       *)
(***************************************************************************)
IsStale(m) == m.kind = "stale"
NoStale == \A i \in DOMAIN mq : ~IsStale(mq[i])
StaleIsPrefix ==
    \A i, j \in DOMAIN mq : i < j /\ IsStale(mq[j]) => IsStale(mq[i])
WaitersFresh == \A i \in DOMAIN waiters : ~IsStale(waiters[i])
GotTarget == taskpc = "handle" \/ cur # NULL \/ devLog # <<>> \/ user_target # NULL

StaleInv == StaleIsPrefix /\ WaitersFresh /\ (GotTarget => NoStale)

(* A send appends a message of this process to the queue or to the line.   *)
LEMMA SendStale ==
    ASSUME CoreInv, StaleInv, NEW m \in Message, ~IsStale(m), mq_send(m)
    PROVE  StaleIsPrefix' /\ WaitersFresh' /\ (NoStale => NoStale')
  <1>1. mq \in Seq(Message) /\ waiters \in Seq(Message)
    BY DEF CoreInv, TypeOK
  <1>2. CASE Len(mq) < MaxMsg
    <2>1. mq' = Append(mq, m) /\ waiters' = waiters
      BY <1>2 DEF mq_send
    <2>2. /\ DOMAIN mq = 1..Len(mq) /\ DOMAIN mq' = 1..(Len(mq) + 1)
          /\ Len(mq) \in Nat /\ mq'[Len(mq) + 1] = m
          /\ \A i \in 1..Len(mq) : mq'[i] = mq[i]
      BY <1>1, <2>1, AppendProperties, LenProperties
    <2> QED
      BY <2>1, <2>2 DEF StaleInv, StaleIsPrefix, WaitersFresh, NoStale
  <1>3. CASE ~(Len(mq) < MaxMsg)
    <2>1. waiters' = Append(waiters, m) /\ mq' = mq
      BY <1>3 DEF mq_send
    <2>2. /\ DOMAIN waiters = 1..Len(waiters)
          /\ DOMAIN waiters' = 1..(Len(waiters) + 1)
          /\ Len(waiters) \in Nat /\ waiters'[Len(waiters) + 1] = m
          /\ \A i \in 1..Len(waiters) : waiters'[i] = waiters[i]
      BY <1>1, <2>1, AppendProperties, LenProperties
    <2> QED
      BY <2>1, <2>2 DEF StaleInv, StaleIsPrefix, WaitersFresh, NoStale
  <1> QED
    BY <1>2, <1>3

(* The first message of this process has only messages of this process     *)
(* behind it.                                                              *)
LEMMA ReceiveStale ==
    ASSUME CoreInv, StaleInv, TaskReceive
    PROVE  NoStale' /\ WaitersFresh'
  <1>1. mq \in Seq(Message) /\ waiters \in Seq(Message) /\ mq # <<>>
    BY DEF CoreInv, TypeOK, TaskReceive
  <1>2. /\ Tail(mq) \in Seq(Message) /\ DOMAIN Tail(mq) = 1..(Len(mq) - 1)
        /\ \A i \in 1..(Len(mq) - 1) : Tail(mq)[i] = mq[i + 1]
        /\ Len(mq) \in Nat \ {0} /\ DOMAIN mq = 1..Len(mq)
        /\ Len(Tail(mq)) = Len(mq) - 1
    BY <1>1, HeadTailProperties, EmptySeq, LenProperties
  <1>3. ~IsStale(mq[1])
    BY <1>1 DEF TaskReceive, IsStale
  <1>4. \A i \in DOMAIN Tail(mq) : ~IsStale(Tail(mq)[i])
    BY <1>2, <1>3 DEF StaleInv, StaleIsPrefix
  <1>5. CASE waiters = <<>>
    BY <1>4, <1>5 DEF TaskReceive, QueueAfterReceive, NoStale, StaleInv, WaitersFresh
  <1>6. CASE waiters # <<>>
    <2>1. mq' = Append(Tail(mq), Head(waiters)) /\ waiters' = Tail(waiters)
      BY <1>6 DEF TaskReceive, QueueAfterReceive
    <2>2. /\ Head(waiters) \in Message /\ Head(waiters) = waiters[1]
          /\ DOMAIN Tail(waiters) = 1..(Len(waiters) - 1)
          /\ \A i \in 1..(Len(waiters) - 1) : Tail(waiters)[i] = waiters[i + 1]
          /\ Len(waiters) \in Nat \ {0} /\ DOMAIN waiters = 1..Len(waiters)
      BY <1>1, <1>6, HeadTailProperties, EmptySeq, LenProperties
    <2>3. /\ DOMAIN mq' = 1..Len(mq) /\ mq'[Len(mq)] = Head(waiters)
          /\ \A i \in 1..(Len(mq) - 1) : mq'[i] = Tail(mq)[i]
      BY <1>2, <2>1, <2>2, AppendProperties, LenProperties
    <2>4. WaitersFresh'
      BY <2>1, <2>2 DEF StaleInv, WaitersFresh
    <2>5. ~IsStale(Head(waiters))
      BY <2>2 DEF StaleInv, WaitersFresh
    <2>6. ASSUME NEW i \in DOMAIN mq' PROVE ~IsStale(mq'[i])
      <3>1. i = Len(mq) \/ i \in DOMAIN Tail(mq)
        BY <1>2, <2>3
      <3> QED
        BY <1>2, <1>4, <2>3, <2>5, <3>1
    <2> QED
      BY <2>4, <2>6 DEF NoStale
  <1> QED
    BY <1>5, <1>6

(* A dead process leaves nothing but stale pointers.                       *)
LEMMA DieStale ==
    ASSUME NEW q, Die(q)
    PROVE  StaleInv'
  <1>1. \A i \in DOMAIN mq' : mq'[i] = Stale
    BY DEF Die
  <1>2. waiters' = <<>> /\ ~GotTarget'
    BY DEF Die, GotTarget
  <1> QED
    BY <1>1, <1>2 DEF StaleInv, StaleIsPrefix, WaitersFresh, IsStale, Stale

(* A step that leaves the queue alone and gets no target it did not have.  *)
LEMMA QuietStale ==
    ASSUME StaleInv, UNCHANGED <<mq, waiters>>, GotTarget' => GotTarget
    PROVE  StaleInv'
  BY DEF StaleInv, StaleIsPrefix, WaitersFresh, NoStale

(* StaleInv is inductive.                                                  *)
LEMMA StepStale == CoreInv /\ StaleInv /\ [Next]_vars => StaleInv'
  <1> SUFFICES ASSUME CoreInv, StaleInv, [Next]_vars PROVE StaleInv'
    OBVIOUS
  <1>1. CASE TaskReceive
    BY <1>1, ReceiveStale DEF StaleInv, StaleIsPrefix, NoStale
  <1>2. CASE TaskReceiveStale \/ JoinFaults \/ Exit \/ Kill
    BY <1>2, DieStale DEF TaskReceiveStale, JoinFaults, Exit, Kill
  <1>3. CASE TaskClose
    BY <1>3 DEF TaskClose, StaleInv, StaleIsPrefix, WaitersFresh, NoStale
  <1>4. CASE algs_handle_multiple_targets
    BY <1>4, QuietStale DEF algs_handle_multiple_targets, queueVars, GotTarget
  <1>5. CASE AlgThread
    BY <1>5, QuietStale
    DEF AlgThread, get_and_rm_one_target, TakeUser, TakeDevice, TakeNothing,
        AlgCapture, AlgRun, AlgEnd, queueVars, taskVars, targetVars, GotTarget
  <1>6. CASE \/ sysport_task_create \/ alg_init \/ alg_uninit \/ JoinThreadZero
             \/ MutexDestroy \/ UNCHANGED vars
    BY <1>6, QuietStale
    DEF sysport_task_create, alg_init, alg_uninit, JoinThreadZero, MutexDestroy,
        vars, queueVars, taskVars, targetVars, GotTarget
  <1>7. CASE sysport_task_delete
    <2>1. LET m == [n |-> 0, kind |-> "poison", from |-> Main]
          IN  m \in Message /\ ~IsStale(m) /\ mq_send(m)
      BY <1>7, MessageFacts DEF sysport_task_delete, IsStale
    <2>2. UNCHANGED <<taskpc, cur, devLog, user_target>>
      BY <1>7 DEF sysport_task_delete, taskVars, targetVars
    <2> QED
      BY <2>1, <2>2, SendStale DEF StaleInv, GotTarget
  <1>8. ASSUME NEW p \in Producers, NEW kind \in TargetKind, msg_send_to_alg(p, kind)
        PROVE  StaleInv'
    <2>1. UNCHANGED <<taskpc, cur, devLog, user_target>>
      BY <1>8 DEF msg_send_to_alg, taskVars, targetVars
    <2>2. LET m == [n |-> posted + 1, kind |-> kind, from |-> p]
          IN  m \in Message /\ ~IsStale(m)
      <3>1. posted + 1 \in Nat
        BY DEF CoreInv, TypeOK
      <3>2. kind # "stale"
        BY DEF TargetKind
      <3> QED
        BY <3>1, <3>2, MessageFacts DEF IsStale
    <2>3. CASE taskpc = "end"
      BY <1>8, <2>1, <2>3, QuietStale DEF msg_send_to_alg, queueVars, GotTarget
    <2>4. CASE taskpc # "end"
      BY <1>8, <2>1, <2>2, <2>4, SendStale DEF msg_send_to_alg, StaleInv, GotTarget
    <2> QED
      BY <2>3, <2>4
  <1> QED
    BY <1>1, <1>2, <1>3, <1>4, <1>5, <1>6, <1>7, <1>8
    DEF Next, TaskThread, MainThread

(* The queue of the first process is new.                                  *)
LEMMA InitStale == Init => StaleInv
  BY DEF Init, ZeroData, StaleInv, StaleIsPrefix, WaitersFresh, NoStale

(* A process that has received a target has no pointer of an earlier       *)
(* process left in the queue: it can die of one only before its first      *)
(* target, however often it was killed and whatever it left behind.        *)
THEOREM NoStaleAfterTarget == Spec => []StaleFirst
  <1>1. StaleInv => StaleFirst
    BY DEF StaleInv, GotTarget, NoStale, IsStale, StaleFirst
  <1> QED
    BY <1>1, InitCore, InitStale, StepCore, StepStale, PTL DEF Spec

-----------------------------------------------------------------------------
(***************************************************************************)
(* The heap.  HeapBalance needs to know what a step overwrites: the task   *)
(* thread receives only when it holds nothing, the algorithm takes only    *)
(* when it works on nothing, alg_init empties a list and a slot that are   *)
(* empty, and what TaskClose loses was sent by this process.               *)
(***************************************************************************)
HasCur == cur # NULL <=> taskpc = "handle"
Untaken == algpc # "run" => target_node = NULL
NotYet ==
    mainpc \in {"down", "loaded"} =>
        /\ head = <<>> /\ user_target = NULL /\ waiters = <<>>
        /\ taskpc \in {"none", "recv"} /\ algpc = "none"
        /\ \A i \in DOMAIN mq : IsStale(mq[i])
ClosedFresh == taskpc = "close" => NoStale

HeapInv == HasCur /\ Untaken /\ NotYet /\ ClosedFresh /\ HeapBalance

(* The places of the messages that Fresh counts.                           *)
FreshPlaces(s) == {i \in DOMAIN s : ~IsStale(s[i])}

(* What Fresh counts in a queue of any length.                             *)
LEMMA FreshCount ==
    ASSUME NEW s \in Seq(Message)
    PROVE  /\ IsFiniteSet(FreshPlaces(s))
           /\ Fresh(s) = Cardinality(FreshPlaces(s)) /\ Fresh(s) \in Nat
           /\ (\A i \in DOMAIN s : IsStale(s[i])) => Fresh(s) = 0
           /\ (\A i \in DOMAIN s : ~IsStale(s[i])) => Fresh(s) = Len(s)
  <1>1. DOMAIN s = 1 .. Len(s) /\ Len(s) \in Nat
    BY LenProperties
  <1>2. IsFiniteSet(1 .. Len(s)) /\ Cardinality(1 .. Len(s)) = Len(s)
    BY <1>1, FS_Interval
  <1>3. FreshPlaces(s) \subseteq 1 .. Len(s)
    BY <1>1 DEF FreshPlaces
  <1>4. IsFiniteSet(FreshPlaces(s)) /\ Cardinality(FreshPlaces(s)) \in Nat
    BY <1>2, <1>3, FS_Subset, FS_CardinalityType
  <1>5. Fresh(s) = Cardinality(FreshPlaces(s))
    BY DEF Fresh, FreshPlaces, IsStale
  <1>6. ASSUME \A i \in DOMAIN s : IsStale(s[i]) PROVE Fresh(s) = 0
    <2>1. FreshPlaces(s) = {}
      BY <1>6 DEF FreshPlaces
    <2> QED
      BY <1>5, <2>1, FS_EmptySet
  <1>7. ASSUME \A i \in DOMAIN s : ~IsStale(s[i]) PROVE Fresh(s) = Len(s)
    <2>1. FreshPlaces(s) = 1 .. Len(s)
      BY <1>1, <1>7 DEF FreshPlaces
    <2> QED
      BY <1>2, <1>5, <2>1
  <1> QED
    BY <1>4, <1>5, <1>6, <1>7

(* A message of this process is appended, or is the first and received.    *)
LEMMA FreshAppend ==
    ASSUME NEW s \in Seq(Message), NEW m \in Message, ~IsStale(m)
    PROVE  Fresh(Append(s, m)) = Fresh(s) + 1
  <1>1. PICK r : r = Append(s, m)
    OBVIOUS
  <1>2. /\ r \in Seq(Message) /\ Len(r) = Len(s) + 1 /\ r[Len(s) + 1] = m
        /\ Len(s) \in Nat /\ DOMAIN s = 1 .. Len(s)
    BY <1>1, AppendProperties, LenProperties
  <1>3. \A i \in 1 .. Len(s) : r[i] = s[i]
    BY <1>1, AppendProperties, Zenon
  <1>4. DOMAIN r = 1 .. (Len(s) + 1)
    BY <1>2, LenProperties
  <1>5. FreshPlaces(r) = FreshPlaces(s) \cup {Len(s) + 1}
    BY <1>2, <1>3, <1>4 DEF FreshPlaces
  <1>6. Len(s) + 1 \notin FreshPlaces(s)
    BY <1>2 DEF FreshPlaces
  <1>7. Cardinality(FreshPlaces(r)) = Cardinality(FreshPlaces(s)) + 1
    BY <1>5, <1>6, FreshCount, FS_AddElement
  <1> QED
    BY <1>1, <1>2, <1>7, FreshCount

(* The first message, one of this process, leaves the queue.               *)
LEMMA FreshTail ==
    ASSUME NEW s \in Seq(Message), s # <<>>, ~IsStale(Head(s))
    PROVE  Fresh(Tail(s)) = Fresh(s) - 1
  <1>1. PICK r : r = Tail(s)
    OBVIOUS
  <1>2. /\ r \in Seq(Message) /\ DOMAIN r = 1 .. (Len(s) - 1)
        /\ Len(s) \in Nat \ {0} /\ DOMAIN s = 1 .. Len(s) /\ Head(s) = s[1]
    BY <1>1, HeadTailProperties, EmptySeq, LenProperties
  <1>3. \A i \in 1 .. (Len(s) - 1) : r[i] = s[i + 1]
    BY <1>1, <1>2, HeadTailProperties
  <1>4. 1 \in FreshPlaces(s)
    BY <1>2 DEF FreshPlaces
  <1>5. \A i \in FreshPlaces(r) : i \in Nat /\ i + 1 \in FreshPlaces(s) \ {1}
    BY <1>2, <1>3 DEF FreshPlaces
  <1>6. \A j \in FreshPlaces(s) \ {1} : j - 1 \in FreshPlaces(r) /\ (j - 1) + 1 = j
    <2> SUFFICES ASSUME NEW j \in FreshPlaces(s) \ {1}
                 PROVE  j - 1 \in FreshPlaces(r) /\ (j - 1) + 1 = j
      OBVIOUS
    <2>1. j \in 2 .. Len(s) /\ ~IsStale(s[j])
      BY <1>2 DEF FreshPlaces
    <2>2. j - 1 \in 1 .. (Len(s) - 1) /\ (j - 1) + 1 = j
      BY <1>2, <2>1
    <2> QED
      BY <1>2, <1>3, <2>1, <2>2 DEF FreshPlaces
  <1>7. PICK f : f = [i \in FreshPlaces(r) |-> i + 1]
    OBVIOUS
  <1>8. f \in Bijection(FreshPlaces(r), FreshPlaces(s) \ {1})
    <2>1. f \in [FreshPlaces(r) -> FreshPlaces(s) \ {1}]
      BY <1>5, <1>7
    <2>2. \A i, j \in FreshPlaces(r) : f[i] = f[j] => i = j
      BY <1>5, <1>7
    <2>3. \A j \in FreshPlaces(s) \ {1} : \E i \in FreshPlaces(r) : f[i] = j
      BY <1>6, <1>7
    <2> QED
      BY <2>1, <2>2, <2>3 DEF Bijection, Injection, IsInjective, Surjection
  <1>9. Cardinality(FreshPlaces(r)) = Cardinality(FreshPlaces(s) \ {1})
    BY <1>2, <1>8, FreshCount, FS_Bijection DEF ExistsBijection
  <1>10. Cardinality(FreshPlaces(s) \ {1}) = Cardinality(FreshPlaces(s)) - 1
    BY <1>4, FreshCount, FS_RemoveElement
  <1> QED
    BY <1>1, <1>2, <1>9, <1>10, FreshCount

(* A send puts one more message of this process in the queue or the line;  *)
(* a receive takes one out.                                                *)
LEMMA SendHeap ==
    ASSUME CoreInv, NEW m \in Message, ~IsStale(m), mq_send(m)
    PROVE  /\ Fresh(mq) \in Nat /\ Len(waiters) \in Nat
           /\ Fresh(mq') \in Nat /\ Len(waiters') \in Nat
           /\ Fresh(mq') + Len(waiters') = (Fresh(mq) + Len(waiters)) + 1
  <1>1. mq \in Seq(Message) /\ waiters \in Seq(Message)
    BY DEF CoreInv, TypeOK
  <1>2. /\ mq' \in Seq(Message) /\ waiters' \in Seq(Message)
    BY SendTypes DEF CoreInv, TypeOK
  <1>3. /\ Fresh(mq) \in Nat /\ Len(waiters) \in Nat
        /\ Fresh(mq') \in Nat /\ Len(waiters') \in Nat
    BY <1>1, <1>2, FreshCount, LenProperties
  <1>4. CASE Len(mq) < MaxMsg
    <2>1. mq' = Append(mq, m) /\ waiters' = waiters
      BY <1>4 DEF mq_send
    <2>2. Fresh(mq') = Fresh(mq) + 1
      BY <1>1, <2>1, FreshAppend
    <2> QED
      BY <1>3, <2>1, <2>2
  <1>5. CASE ~(Len(mq) < MaxMsg)
    <2>1. waiters' = Append(waiters, m) /\ mq' = mq
      BY <1>5 DEF mq_send
    <2>2. Len(waiters') = Len(waiters) + 1
      BY <1>1, <2>1, AppendProperties
    <2> QED
      BY <1>3, <2>1, <2>2
  <1> QED
    BY <1>4, <1>5

(* A receive takes one out, also when it lets a blocked sender in.         *)
LEMMA ReceiveHeap ==
    ASSUME CoreInv, StaleInv, TaskReceive
    PROVE  /\ Fresh(mq) \in Nat /\ Len(waiters) \in Nat
           /\ Fresh(mq') \in Nat /\ Len(waiters') \in Nat
           /\ Fresh(mq') + Len(waiters') = (Fresh(mq) + Len(waiters)) - 1
  <1>1. /\ mq \in Seq(Message) /\ waiters \in Seq(Message) /\ mq # <<>>
        /\ ~IsStale(Head(mq)) /\ Len(mq) <= MaxMsg
    BY DEF CoreInv, TypeOK, TaskReceive, IsStale
  <1>2. /\ mq' = QueueAfterReceive
        /\ waiters' = IF waiters = <<>> THEN waiters ELSE Tail(waiters)
    BY DEF TaskReceive
  <1>3. mq' \in Seq(Message) /\ waiters' \in Seq(Message) /\ Tail(mq) \in Seq(Message)
    BY <1>1, <1>2, ReceiveTypes, HeadTailProperties
  <1>4. /\ Fresh(mq) \in Nat /\ Len(waiters) \in Nat
        /\ Fresh(mq') \in Nat /\ Len(waiters') \in Nat
    BY <1>1, <1>3, FreshCount, LenProperties
  <1>5. Fresh(Tail(mq)) = Fresh(mq) - 1
    BY <1>1, FreshTail
  <1>6. CASE waiters = <<>>
    BY <1>2, <1>4, <1>5, <1>6 DEF QueueAfterReceive
  <1>7. CASE waiters # <<>>
    <2>1. mq' = Append(Tail(mq), Head(waiters)) /\ waiters' = Tail(waiters)
      BY <1>2, <1>7 DEF QueueAfterReceive
    <2>2. /\ Head(waiters) \in Message /\ Head(waiters) = waiters[1]
          /\ 1 \in DOMAIN waiters /\ Len(Tail(waiters)) = Len(waiters) - 1
      BY <1>1, <1>7, HeadTailProperties, EmptySeq, LenProperties
    <2>3. ~IsStale(Head(waiters))
      BY <2>2 DEF StaleInv, WaitersFresh
    <2>4. Fresh(mq') = Fresh(Tail(mq)) + 1
      BY <1>3, <2>1, <2>2, <2>3, FreshAppend
    <2> QED
      BY <1>4, <1>5, <2>1, <2>2, <2>4
  <1> QED
    BY <1>6, <1>7

(* The end of the process: there is no heap, and what is queued is stale.  *)
LEMMA DieHeap ==
    ASSUME NEW q \in Seq(Message), Die(q)
    PROVE  HeapInv'
  <1>1. /\ mainpc' = "down" /\ mq' = [i \in DOMAIN q |-> Stale] /\ waiters' = <<>>
        /\ taskpc' = "none" /\ cur' = NULL /\ head' = <<>> /\ user_target' = NULL
        /\ algpc' = "none" /\ target_node' = NULL /\ live' = 0 /\ leaked' = 0
    BY DEF Die
  <1>2. mq' \in Seq(Message) /\ \A i \in DOMAIN mq' : IsStale(mq'[i])
    BY <1>1, StaleSeq DEF IsStale, Stale
  <1>3. Fresh(mq') = 0 /\ Len(waiters') = 0 /\ Len(head') = 0
    BY <1>1, <1>2, FreshCount
  <1>4. HeapBalance'
    BY <1>1, <1>3 DEF HeapBalance, Blocks
  <1>5. HasCur' /\ Untaken' /\ NotYet' /\ ClosedFresh'
    BY <1>1, <1>2 DEF HasCur, Untaken, NotYet, ClosedFresh
  <1> QED
    BY <1>4, <1>5 DEF HeapInv

(* The summands of HeapBalance.                                            *)
InTask == Blocks(mainpc # "down" /\ taskpc # "end")
InInit == Blocks(mainpc \in {"up", "releasing"})
InCur  == Blocks(cur # NULL)
InSlot == Blocks(user_target # NULL)
InAlg  == Blocks(target_node # NULL)

(* They are numbers.                                                       *)
LEMMA HeapTypes ==
    ASSUME CoreInv
    PROVE  /\ Fresh(mq) \in Nat /\ Len(waiters) \in Nat /\ Len(head) \in Nat
           /\ live \in Int /\ leaked \in Nat /\ Len(mq) \in Nat
           /\ InTask \in Int /\ InInit \in Int /\ InCur \in Int
           /\ InSlot \in Int /\ InAlg \in Int
  <1>1. /\ mq \in Seq(Message) /\ waiters \in Seq(Message) /\ head \in Seq(Target)
        /\ live \in Int /\ leaked \in Nat
    BY DEF CoreInv, TypeOK
  <1>2. InTask \in Int /\ InInit \in Int /\ InCur \in Int /\ InSlot \in Int /\ InAlg \in Int
    BY DEF InTask, InInit, InCur, InSlot, InAlg, Blocks
  <1> QED
    BY <1>1, <1>2, FreshCount, LenProperties

(* A step keeps the balance when live changes by what it changes.          *)
Change ==
    (InTask' - InTask) + (InInit' - InInit) + (Fresh(mq') - Fresh(mq))
    + (Len(waiters') - Len(waiters)) + (InCur' - InCur) + 2 * (Len(head') - Len(head))
    + 2 * (InSlot' - InSlot) + 2 * (InAlg' - InAlg) + (leaked' - leaked)

(* The sum carries over when live changes by Change.                       *)
LEMMA Balance ==
    ASSUME CoreInv, CoreInv', HeapBalance, live' - live = Change
    PROVE  HeapBalance'
  <1>1. /\ Fresh(mq) \in Int /\ Len(waiters) \in Int /\ Len(head) \in Int
        /\ live \in Int /\ leaked \in Int /\ InTask \in Int /\ InInit \in Int
        /\ InCur \in Int /\ InSlot \in Int /\ InAlg \in Int
    BY HeapTypes
  <1>2. PICK a \in Int, b \in Int, f \in Int, w \in Int, c \in Int,
             h \in Int, u \in Int, t \in Int, k \in Int, x \in Int :
           /\ a = InTask /\ b = InInit /\ f = Fresh(mq) /\ w = Len(waiters) /\ c = InCur
           /\ h = Len(head) /\ u = InSlot /\ t = InAlg /\ k = leaked /\ x = live
    BY <1>1
  <1>3. /\ Fresh(mq') \in Int /\ Len(waiters') \in Int /\ Len(head') \in Int
        /\ live' \in Int /\ leaked' \in Int
    <2>1. /\ mq' \in Seq(Message) /\ waiters' \in Seq(Message) /\ head' \in Seq(Target)
          /\ live' \in Int /\ leaked' \in Nat
      BY DEF CoreInv, TypeOK
    <2> QED
      BY <2>1, FreshCount, LenProperties
  <1>4. /\ InTask' \in Int /\ InInit' \in Int /\ InCur' \in Int
        /\ InSlot' \in Int /\ InAlg' \in Int
    BY DEF InTask, InInit, InCur, InSlot, InAlg, Blocks
  <1>5. PICK a1 \in Int, b1 \in Int, f1 \in Int, w1 \in Int, c1 \in Int,
             h1 \in Int, u1 \in Int, t1 \in Int, k1 \in Int, x1 \in Int :
           /\ a1 = InTask' /\ b1 = InInit' /\ f1 = Fresh(mq') /\ w1 = Len(waiters')
           /\ c1 = InCur' /\ h1 = Len(head') /\ u1 = InSlot' /\ t1 = InAlg'
           /\ k1 = leaked' /\ x1 = live'
    BY <1>3, <1>4
  <1>6. x = a + b + f + w + c + 2 * h + 2 * u + 2 * t + k
    BY <1>2, Zenon DEF HeapBalance, InTask, InInit, InCur, InSlot, InAlg
  <1>7. x1 - x = (a1 - a) + (b1 - b) + (f1 - f) + (w1 - w) + (c1 - c) + 2 * (h1 - h)
                 + 2 * (u1 - u) + 2 * (t1 - t) + (k1 - k)
    BY <1>2, <1>5, Zenon DEF Change
  <1>8. x1 = a1 + b1 + f1 + w1 + c1 + 2 * h1 + 2 * u1 + 2 * t1 + k1
    BY ONLY <1>6, <1>7
  <1> QED
    BY <1>5, <1>8, Zenon DEF HeapBalance, InTask, InInit, InCur, InSlot, InAlg

(* The task thread: what it receives it holds, what it handles it frees or *)
(* lists.                                                                  *)
LEMMA TaskHeap ==
    ASSUME CoreInv, StaleInv, HeapInv, TaskThread
    PROVE  HeapInv'
  <1> USE DEF HeapInv
  <1>0. /\ Fresh(mq) \in Int /\ Len(waiters) \in Int /\ Len(head) \in Int
        /\ live \in Int /\ leaked \in Int /\ InTask \in Int /\ InInit \in Int
        /\ InCur \in Int /\ InSlot \in Int /\ InAlg \in Int
    BY HeapTypes
  <1>1. CASE TaskReceive
    <2>1. /\ taskpc = "recv" /\ Head(mq).kind # "stale" /\ mq # <<>>
          /\ UNCHANGED <<mainpc, head, user_target, algpc, target_node, live>>
          /\ mq \in Seq(Message)
      BY <1>1 DEF TaskReceive, targetVars, algVars, CoreInv, TypeOK
    <2>2. mainpc \notin {"down", "loaded"}
      <3>1. 1 \in DOMAIN mq /\ Head(mq) = mq[1]
        BY <2>1, HeadTailProperties, EmptySeq, LenProperties
      <3> QED
        BY <2>1, <3>1 DEF NotYet, IsStale
    <2>3. NoStale'
      BY <1>1, ReceiveStale
    <2>4. cur = NULL
      BY <2>1 DEF HasCur
    <2>5. \/ /\ taskpc' = "close" /\ leaked' = leaked + 1 /\ cur' = cur
          \/ /\ taskpc' = "handle" /\ leaked' = leaked /\ cur' \in Target
      BY <1>1, <2>1, ReceiveTypes, MessageFacts DEF TaskReceive, CoreInv, TypeOK
    <2>6. NULL \notin Target
      BY NullAssumption DEF Target
    <2>7. HeapBalance'
      <3>1. /\ Fresh(mq') \in Nat /\ Len(waiters') \in Nat
            /\ Fresh(mq') + Len(waiters') = (Fresh(mq) + Len(waiters)) - 1
        BY <1>1, ReceiveHeap
      <3>2. /\ InTask' = InTask /\ InInit' = InInit /\ InSlot' = InSlot /\ InAlg' = InAlg
        BY <2>1, <2>5 DEF InTask, InInit, InSlot, InAlg
      <3>3. \/ leaked' = leaked + 1 /\ InCur' = InCur
            \/ leaked' = leaked /\ InCur' = InCur + 1
        BY <2>4, <2>5, <2>6 DEF InCur, Blocks
      <3>4. live' = live /\ Len(head') = Len(head)
        BY <2>1
      <3>5. live' - live = Change
        BY ONLY <1>0, <3>1, <3>2, <3>3, <3>4 DEF Change
      <3> QED
        BY <1>1, <3>5, TaskCore, Balance DEF TaskThread
    <2>8. HasCur' /\ Untaken' /\ NotYet' /\ ClosedFresh'
      BY <2>1, <2>2, <2>3, <2>4, <2>5, <2>6 DEF HasCur, Untaken, NotYet, ClosedFresh
    <2> QED
      BY <2>7, <2>8
  <1>2. CASE TaskReceiveStale
    <2>1. QueueAfterReceive \in Seq(Message)
      BY <1>2, ReceiveTypes DEF TaskReceiveStale, CoreInv, TypeOK
    <2> QED
      BY <1>2, <2>1, DieHeap DEF TaskReceiveStale
  <1>3. CASE TaskClose
    <2>1. /\ taskpc = "close" /\ taskpc' = "end" /\ mq' = <<>> /\ live' = live - 1
          /\ leaked' = leaked + Len(mq)
          /\ UNCHANGED <<mainpc, waiters, cur, head, user_target, algpc, target_node>>
      BY <1>3 DEF TaskClose, targetVars, algVars
    <2>2. mainpc \notin {"down", "loaded"}
      BY <2>1 DEF NotYet
    <2>3. Fresh(mq) = Len(mq) /\ Fresh(mq') = 0 /\ Len(mq) \in Nat
      <3>1. mq \in Seq(Message) /\ <<>> \in Seq(Message) /\ DOMAIN <<>> = {}
        BY EmptySeq DEF CoreInv, TypeOK
      <3>2. \A i \in DOMAIN mq : ~IsStale(mq[i])
        BY <2>1 DEF ClosedFresh, NoStale
      <3>3. Fresh(<<>>) = 0
        BY <3>1, FreshCount
      <3> QED
        BY <2>1, <3>1, <3>2, <3>3, FreshCount, LenProperties
    <2>4. HeapBalance'
      <3>1. /\ InTask' = InTask - 1 /\ InInit' = InInit /\ InCur' = InCur
            /\ InSlot' = InSlot /\ InAlg' = InAlg
        BY <2>1, <2>2 DEF InTask, InInit, InCur, InSlot, InAlg, Blocks
      <3>2. live' - live = Change
        BY ONLY <1>0, <2>1, <2>3, <3>1 DEF Change
      <3> QED
        BY <1>3, <3>2, TaskCore, Balance DEF TaskThread
    <2>5. HasCur' /\ Untaken' /\ NotYet' /\ ClosedFresh'
      BY <2>1, <2>2 DEF HasCur, Untaken, NotYet, ClosedFresh
    <2> QED
      BY <2>4, <2>5
  <1>4. CASE algs_handle_multiple_targets
    <2>1. /\ taskpc = "handle" /\ taskpc' = "recv" /\ cur' = NULL
          /\ UNCHANGED <<mainpc, mq, waiters, algpc, target_node>>
      BY <1>4 DEF algs_handle_multiple_targets, queueVars, algVars
    <2>2. cur \in Target /\ cur # NULL
      BY <2>1, NullAssumption DEF CoreInv, HandlesTarget, Target
    <2>3. mainpc \notin {"down", "loaded"}
      BY <2>1 DEF NotYet
    <2>4. /\ InTask' = InTask /\ InInit' = InInit /\ InCur' = InCur - 1 /\ InAlg' = InAlg
      BY <2>1, <2>2 DEF InTask, InInit, InCur, InAlg, Blocks
    <2>5. ASSUME InsertUser(cur) PROVE live' - live = Change
      <3>1. /\ user_target' = cur /\ head' = head
            /\ live' = IF user_target = NULL THEN live + 1 ELSE live
            /\ leaked' = IF user_target = NULL THEN leaked ELSE leaked + 1
        BY <2>5 DEF InsertUser
      <3>2. InSlot' = (IF user_target = NULL THEN InSlot + 1 ELSE InSlot)
        BY <2>2, <3>1 DEF InSlot, Blocks
      <3> QED
        BY ONLY <1>0, <2>1, <2>4, <3>1, <3>2 DEF Change
    <2>6. ASSUME InsertDevice(cur) PROVE live' - live = Change
      <3>1. UNCHANGED <<user_target, leaked>> /\ head \in Seq(Target)
        BY <2>6 DEF InsertDevice, CoreInv, TypeOK
      <3>2. \/ Len(head') = Len(head) /\ live' = live - 1
            \/ Len(head') = Len(head) + 1 /\ live' = live + 1
        <4>1. CASE InsertDeviceFull(cur)
          <5>1. head # <<>> /\ head' = Append(Tail(head), cur) /\ live' = live - 1
            BY <4>1 DEF InsertDeviceFull
          <5>2. PICK q : q = Tail(head)
            OBVIOUS
          <5>3. q \in Seq(Target) /\ Len(q) = Len(head) - 1
            BY <3>1, <5>1, <5>2, HeadTailProperties
          <5>4. Len(Append(q, cur)) = Len(q) + 1
            BY <2>2, <5>3, AppendProperties
          <5>5. PICK n \in Int : n = Len(head)
            BY <1>0
          <5>6. Len(head') = (n - 1) + 1
            BY <5>1, <5>2, <5>3, <5>4, <5>5, Zenon
          <5>7. (n - 1) + 1 = n
            BY ONLY <5>5
          <5> QED
            BY <5>1, <5>5, <5>6, <5>7
        <4>2. CASE InsertDeviceRoom(cur)
          <5>1. head' = Append(head, cur) /\ live' = live + 1
            BY <4>2 DEF InsertDeviceRoom
          <5> QED
            BY <2>2, <3>1, <5>1, AppendProperties
        <4> QED
          BY <2>6, <4>1, <4>2 DEF InsertDevice
      <3>3. InSlot' = InSlot
        BY <3>1 DEF InSlot
      <3> QED
        BY ONLY <1>0, <2>1, <2>4, <3>1, <3>2, <3>3 DEF Change
    <2>7. ASSUME live' = live - 1, UNCHANGED <<targetVars, leaked>>
          PROVE  live' - live = Change
      <3>1. UNCHANGED <<head, user_target, leaked>> /\ InSlot' = InSlot
        BY <2>7 DEF targetVars, InSlot
      <3> QED
        BY ONLY <1>0, <2>1, <2>4, <2>7, <3>1 DEF Change
    <2>8. HeapBalance'
      <3>1. live' - live = Change
        BY <1>4, <2>5, <2>6, <2>7 DEF algs_handle_multiple_targets
      <3> QED
        BY <1>4, <3>1, TaskCore, Balance DEF TaskThread
    <2>9. HasCur' /\ Untaken' /\ NotYet' /\ ClosedFresh'
      BY <2>1, <2>3 DEF HasCur, Untaken, NotYet, ClosedFresh
    <2> QED
      BY <2>8, <2>9
  <1> QED
    BY <1>1, <1>2, <1>3, <1>4 DEF TaskThread

(* The algorithm: a node changes hands, and is freed after use.            *)
LEMMA AlgHeap ==
    ASSUME CoreInv, HeapInv, AlgThread
    PROVE  HeapInv'
  <1> USE DEF HeapInv
  <1>0. /\ Fresh(mq) \in Int /\ Len(waiters) \in Int /\ Len(head) \in Int
        /\ live \in Int /\ leaked \in Int /\ InTask \in Int /\ InInit \in Int
        /\ InCur \in Int /\ InSlot \in Int /\ InAlg \in Int
    BY HeapTypes
  <1>1. UNCHANGED <<mainpc, mq, waiters, taskpc, cur, leaked>>
    BY DEF AlgThread, AlgCapture, get_and_rm_one_target, AlgRun, AlgEnd, queueVars,
           taskVars, heapVars
  <1>2. HasCur' /\ ClosedFresh'
    BY <1>1 DEF HasCur, ClosedFresh, NoStale
  <1>3. CASE get_and_rm_one_target
    <2>1. algpc = "capture" /\ algpc' = "run" /\ live' = live /\ target_node = NULL
      BY <1>3 DEF get_and_rm_one_target, heapVars, Untaken
    <2>2. NULL \notin Target /\ head \in Seq(Target) /\ target_node' \in Target \cup {NULL}
      BY <1>3, AlgCore, NullAssumption DEF AlgThread, CoreInv, TypeOK, Target
    <2>3. CASE TakeUser
      <3>1. /\ user_target # NULL /\ target_node' = user_target /\ user_target' = NULL
            /\ head' = head
        BY <2>3 DEF TakeUser
      <3>2. target_node' # NULL
        BY <3>1
      <3>3. /\ InTask' = InTask /\ InInit' = InInit /\ InCur' = InCur /\ InSlot' = InSlot - 1
            /\ InAlg' = InAlg + 1
        BY <1>1, <2>1, <3>1, <3>2 DEF InTask, InInit, InCur, InSlot, InAlg, Blocks
      <3>4. live' - live = Change
        BY ONLY <1>0, <1>1, <2>1, <3>1, <3>3 DEF Change
      <3>5. HeapBalance'
        BY <1>3, <3>4, AlgCore, Balance DEF AlgThread
      <3> QED
        BY <1>1, <1>2, <2>1, <3>1, <3>5 DEF NotYet, Untaken
    <2>4. CASE TakeDevice
      <3>1. /\ head # <<>> /\ target_node' = Head(head) /\ head' = Tail(head)
            /\ user_target' = user_target
        BY <2>4 DEF TakeDevice
      <3>2. target_node' # NULL /\ Len(head') = Len(head) - 1
        BY <2>2, <3>1, HeadTailProperties
      <3>3. /\ InTask' = InTask /\ InInit' = InInit /\ InCur' = InCur /\ InSlot' = InSlot
            /\ InAlg' = InAlg + 1
        BY <1>1, <2>1, <3>1, <3>2 DEF InTask, InInit, InCur, InSlot, InAlg, Blocks
      <3>4. live' - live = Change
        BY ONLY <1>0, <1>1, <2>1, <3>2, <3>3 DEF Change
      <3>5. HeapBalance'
        BY <1>3, <3>4, AlgCore, Balance DEF AlgThread
      <3> QED
        BY <1>1, <1>2, <2>1, <3>1, <3>5 DEF NotYet, Untaken
    <2>5. CASE TakeNothing
      BY <1>1, <1>2, <2>1, <2>5 DEF TakeNothing, HeapBalance, NotYet, Untaken
    <2> QED
      BY <1>3, <2>3, <2>4, <2>5 DEF get_and_rm_one_target
  <1>4. CASE AlgRun
    <2>1. /\ algpc = "run" /\ algpc' = "loop" /\ target_node' = NULL
          /\ live' = IF target_node = NULL THEN live ELSE live - 2
          /\ UNCHANGED <<head, user_target>>
      BY <1>4 DEF AlgRun, targetVars
    <2>2. CASE target_node = NULL
      BY <1>1, <1>2, <2>1, <2>2 DEF HeapBalance, NotYet, Untaken
    <2>3. CASE target_node # NULL
      <3>1. /\ InTask' = InTask /\ InInit' = InInit /\ InCur' = InCur /\ InSlot' = InSlot
            /\ InAlg' = InAlg - 1
        BY <1>1, <2>1, <2>3 DEF InTask, InInit, InCur, InSlot, InAlg, Blocks
      <3>2. live' - live = Change
        BY ONLY <1>0, <1>1, <2>1, <2>3, <3>1 DEF Change
      <3>3. HeapBalance'
        BY <1>4, <3>2, AlgCore, Balance DEF AlgThread
      <3> QED
        BY <1>1, <1>2, <2>1, <3>3 DEF NotYet, Untaken
    <2> QED
      BY <2>2, <2>3
  <1>5. CASE AlgCapture \/ AlgEnd
    <2>1. /\ algpc = "loop" /\ algpc' \in {"capture", "done"}
          /\ UNCHANGED <<head, user_target, target_node, live>>
      BY <1>5 DEF AlgCapture, AlgEnd, targetVars, heapVars
    <2> QED
      BY <1>1, <1>2, <2>1 DEF HeapBalance, NotYet, Untaken
  <1> QED
    BY <1>3, <1>4, <1>5 DEF AlgThread

(* What a send needs to be known of.                                       *)
LEMMA SendHeapInv ==
    ASSUME CoreInv, CoreInv', StaleInv, HeapInv,
           NEW m \in Message, ~IsStale(m), mq_send(m),
           mainpc \notin {"down", "loaded"}, mainpc' \notin {"down", "loaded"},
           mainpc \in {"up", "releasing"} <=> mainpc' \in {"up", "releasing"},
           live' = live + 1,
           UNCHANGED <<taskpc, cur, head, user_target, algpc, target_node, leaked>>
    PROVE  HeapInv'
  <1>0. /\ Fresh(mq) \in Int /\ Len(waiters) \in Int /\ Len(head) \in Int
        /\ live \in Int /\ leaked \in Int /\ InTask \in Int /\ InInit \in Int
        /\ InCur \in Int /\ InSlot \in Int /\ InAlg \in Int
    BY HeapTypes
  <1>1. NoStale => NoStale'
    BY SendStale
  <1>2. HasCur' /\ Untaken' /\ NotYet' /\ ClosedFresh'
    BY <1>1 DEF HeapInv, HasCur, Untaken, NotYet, ClosedFresh
  <1>3. /\ Fresh(mq) \in Nat /\ Len(waiters) \in Nat
        /\ Fresh(mq') \in Nat /\ Len(waiters') \in Nat
        /\ Fresh(mq') + Len(waiters') = (Fresh(mq) + Len(waiters)) + 1
    BY SendHeap
  <1>4. HeapBalance'
    <2>1. /\ InTask' = InTask /\ InInit' = InInit /\ InCur' = InCur /\ InSlot' = InSlot
          /\ InAlg' = InAlg
      BY DEF InTask, InInit, InCur, InSlot, InAlg, Blocks
    <2>2. live' = live + 1 /\ leaked' = leaked /\ Len(head') = Len(head)
      OBVIOUS
    <2>3. live' - live = Change
      BY ONLY <1>0, <1>3, <2>1, <2>2 DEF Change
    <2> QED
      BY <2>3, Balance DEF HeapInv
  <1> QED
    BY <1>2, <1>4 DEF HeapInv

(* main: what a start allocates, and the end of the process.               *)
LEMMA MainHeap ==
    ASSUME CoreInv, StaleInv, HeapInv, MainThread \/ Kill
    PROVE  HeapInv'
  <1>0. /\ Fresh(mq) \in Int /\ Len(waiters) \in Int /\ Len(head) \in Int
        /\ live \in Int /\ leaked \in Int /\ InTask \in Int /\ InInit \in Int
        /\ InCur \in Int /\ InSlot \in Int /\ InAlg \in Int
    BY HeapTypes
  <1>1. CASE sysport_task_create
    <2>1. /\ mainpc = "down" /\ mainpc' = "loaded" /\ taskpc' \in {"recv", "none"}
          /\ live' = live + 1
          /\ UNCHANGED <<mq, waiters, cur, head, user_target, algpc, target_node, leaked>>
      BY <1>1 DEF sysport_task_create, queueVars, targetVars, algVars
    <2>2. taskpc \in {"none", "recv"}
      BY <2>1 DEF HeapInv, NotYet
    <2>3. HeapBalance'
      <3>1. /\ InTask' = InTask + 1 /\ InInit' = InInit /\ InCur' = InCur
            /\ InSlot' = InSlot /\ InAlg' = InAlg
        BY <2>1, <2>2 DEF InTask, InInit, InCur, InSlot, InAlg, Blocks
      <3>2. live' - live = Change
        BY ONLY <1>0, <2>1, <3>1 DEF Change
      <3> QED
        BY <1>1, <3>2, MainCore, Balance DEF MainThread, HeapInv
    <2> QED
      BY <2>1, <2>2, <2>3 DEF HeapInv, HasCur, Untaken, NotYet, ClosedFresh
  <1>2. CASE alg_init
    <2>1. /\ mainpc = "loaded" /\ mainpc' = "up" /\ head' = <<>> /\ user_target' = NULL
          /\ live' = live + 1 /\ algpc' \in {"loop", "none"}
          /\ UNCHANGED <<mq, waiters, taskpc, cur, target_node, leaked>>
      BY <1>2 DEF alg_init, queueVars, taskVars
    <2>2. head = <<>> /\ user_target = NULL /\ taskpc \in {"none", "recv"}
      BY <2>1 DEF HeapInv, NotYet
    <2>3. HeapBalance'
      <3>1. /\ InTask' = InTask /\ InInit' = InInit + 1 /\ InCur' = InCur
            /\ InSlot' = InSlot /\ InAlg' = InAlg
        BY <2>1, <2>2 DEF InTask, InInit, InCur, InSlot, InAlg, Blocks
      <3>2. live' - live = Change
        BY ONLY <1>0, <2>1, <2>2, <3>1 DEF Change
      <3> QED
        BY <1>2, <3>2, MainCore, Balance DEF MainThread, HeapInv
    <2>4. Untaken'
      BY <2>1 DEF HeapInv, Untaken, NotYet
    <2> QED
      BY <2>1, <2>2, <2>3, <2>4 DEF HeapInv, HasCur, NotYet, ClosedFresh
  <1>3. CASE alg_uninit \/ JoinThreadZero \/ MutexDestroy
    <2>1. /\ UNCHANGED <<mq, waiters, taskpc, cur, head, user_target, algpc, target_node, leaked>>
          /\ \/ mainpc = "up" /\ mainpc' = "releasing" /\ live' = live
             \/ mainpc = "releasing" /\ mainpc' = "deleting" /\ live' = live - 1
             \/ mainpc = "unloading" /\ mainpc' = "exiting" /\ live' = live
      BY <1>3 DEF alg_uninit, JoinThreadZero, MutexDestroy, queueVars, taskVars,
                  targetVars, algVars, heapVars
    <2>2. HeapBalance'
      <3>1. /\ InTask' = InTask /\ InCur' = InCur /\ InSlot' = InSlot /\ InAlg' = InAlg
        BY <2>1 DEF InTask, InCur, InSlot, InAlg
      <3>2. InInit' - InInit = live' - live /\ InInit' \in Int
        BY <2>1, HeapTypes DEF InInit, Blocks
      <3>3. live' - live = Change
        BY ONLY <1>0, <2>1, <3>1, <3>2 DEF Change
      <3> QED
        BY <1>3, <3>3, MainCore, Balance DEF MainThread, HeapInv
    <2> QED
      BY <2>1, <2>2 DEF HeapInv, HasCur, Untaken, NotYet, ClosedFresh, NoStale
  <1>4. CASE sysport_task_delete
    <2>1. PICK m : m = [n |-> 0, kind |-> "poison", from |-> Main]
      OBVIOUS
    <2>2. m \in Message /\ ~IsStale(m) /\ mq_send(m)
      BY <1>4, <2>1, MessageFacts DEF sysport_task_delete, IsStale
    <2>3. /\ mainpc = "deleting" /\ mainpc' = "unloading" /\ live' = live + 1
          /\ UNCHANGED <<taskpc, cur, head, user_target, algpc, target_node, leaked>>
      BY <1>4 DEF sysport_task_delete, taskVars, targetVars, algVars
    <2> QED
      BY <1>4, <2>2, <2>3, SendHeapInv, MainCore DEF MainThread
  <1>5. CASE JoinFaults \/ Exit \/ Kill
    <2>1. mq \in Seq(Message) /\ Die(mq)
      BY <1>5 DEF JoinFaults, Exit, Kill, CoreInv, TypeOK
    <2> QED
      BY <2>1, DieHeap
  <1> QED
    BY <1>1, <1>2, <1>3, <1>4, <1>5 DEF MainThread

(* HeapInv is inductive, given StaleInv for what TaskClose discards.       *)
LEMMA StepHeap == CoreInv /\ StaleInv /\ HeapInv /\ [Next]_vars => HeapInv'
  <1> SUFFICES ASSUME CoreInv, StaleInv, HeapInv, [Next]_vars PROVE HeapInv'
    OBVIOUS
  <1>1. CASE UNCHANGED vars
    <2>1. UNCHANGED <<mainpc, mq, waiters, taskpc, cur, head, user_target, algpc,
                      target_node, live, leaked>>
      BY <1>1 DEF vars, queueVars, taskVars, targetVars, algVars, heapVars
    <2> QED
      BY <2>1 DEF HeapInv, HasCur, Untaken, NotYet, ClosedFresh, NoStale, HeapBalance
  <1>2. ASSUME NEW p \in Producers, NEW kind \in TargetKind, msg_send_to_alg(p, kind)
        PROVE  HeapInv'
    <2>1. /\ mainpc \notin {"down", "loaded"} /\ mainpc' = mainpc
          /\ UNCHANGED <<taskpc, cur, head, user_target, algpc, target_node, leaked>>
      BY <1>2 DEF msg_send_to_alg, taskVars, targetVars, algVars, Serving
    <2>2. CASE UNCHANGED <<queueVars, live>>
      BY <2>1, <2>2
      DEF HeapInv, HasCur, Untaken, NotYet, ClosedFresh, NoStale, HeapBalance, queueVars
    <2>3. CASE ~UNCHANGED <<queueVars, live>>
      <3>1. PICK m : m = [n |-> posted + 1, kind |-> kind, from |-> p]
        OBVIOUS
      <3>2. posted + 1 \in Nat /\ kind # "stale"
        BY DEF CoreInv, TypeOK, TargetKind
      <3>3. m \in Message /\ ~IsStale(m)
        BY <3>1, <3>2, MessageFacts DEF IsStale
      <3>4. mq_send(m) /\ live' = live + 1
        BY <1>2, <2>3, <3>1 DEF msg_send_to_alg
      <3> QED
        BY <1>2, <2>1, <3>3, <3>4, SendHeapInv, PostCore
    <2> QED
      BY <2>2, <2>3
  <1> QED
    BY <1>1, <1>2, TaskHeap, AlgHeap, MainHeap DEF Next

(* Before the first start nothing is allocated.                            *)
LEMMA InitHeap == Init => HeapInv
  <1> SUFFICES ASSUME Init PROVE HeapInv
    OBVIOUS
  <1>1. Fresh(<<>>) = 0 /\ Len(<<>>) = 0 /\ DOMAIN <<>> = {}
    <2>1. <<>> \in Seq(Message) /\ DOMAIN <<>> = {}
      BY EmptySeq
    <2> QED
      BY <2>1, FreshCount
  <1>2. HeapBalance
    BY <1>1 DEF Init, ZeroData, HeapBalance, Blocks
  <1> QED
    BY <1>1, <1>2 DEF Init, ZeroData, HeapInv, HasCur, Untaken, NotYet, ClosedFresh

(* Every block the pipeline allocates is freed, reachable or counted as    *)
(* leaked, for any capacities and however the process is started, stopped  *)
(* and killed.                                                             *)
THEOREM HeapBalanced == Spec => []HeapBalance
  <1>1. HeapInv => HeapBalance
    BY DEF HeapInv
  <1> QED
    BY <1>1, InitCore, InitStale, InitHeap, StepCore, StepStale, StepHeap, PTL DEF Spec
=============================================================================
