--------------------------- MODULE TargetPipeline ---------------------------
(***************************************************************************)
(* The way a target takes from a network thread to the vision algorithm:   *)
(*                                                                         *)
(*   msg_send_to_alg -> POSIX queue "/alg_task" -> task thread             *)
(*     -> user slot / device list -> fusion_ai_alg_thread                  *)
(*                                                                         *)
(* translated from app/alg_app/alg_app.cpp, srv/algs/alg_interface.c and   *)
(* common/sysport/task/sysport_task.c, with the start and the stop of the  *)
(* process as main.c drives them.                                          *)
(*                                                                         *)
(* Every critical section of alg_t.mutex is one action.  The queue holds   *)
(* POINTERS and its name outlives the process, so what a dead process left *)
(* in it is kept, as "stale" messages.  Contents of a target are           *)
(* abstracted to the order in which the targets were posted (n) and to     *)
(* whether an operator or a device sent them (kind).                       *)
(***************************************************************************)
EXTENDS Integers, Sequences, FiniteSets

CONSTANTS
    Producers,  (* network threads that call msg_send_to_alg               *)
    Main,       (* the main thread, which posts the delete message         *)
    MaxMsg,     (* SYSPORT_TASK_MSG_SIZE: capacity of the queue            *)
    NodeMax,    (* TARGET_NODE_MAX_NUMBER                                  *)
    CanFail,    (* whether malloc and thread creation may fail             *)
    MaxPost,    (* bound: targets posted by one process                    *)
    MaxBoot,    (* bound: starts of the process                            *)
    NULL

ASSUME PipelineAssumption ==
    /\ Main \notin Producers
    /\ MaxMsg \in Nat \ {0}
    /\ NodeMax \in Nat \ {0}
    /\ CanFail \in BOOLEAN
    /\ MaxPost \in Nat
    /\ MaxBoot \in Nat

VARIABLES
    boots,        (* starts so far                                         *)
    mainpc,       (* where main is in alg_init / alg_uninit                *)
    mq,           (* the named queue: survives the process                 *)
    waiters,      (* threads blocked in mq_send, longest waiting first     *)
    taskpc,       (* sysport_task_pthread                                  *)
    cur,          (* the message the task thread works on                  *)
    head,         (* alg_t.head, oldest first                              *)
    targets_num,  (* alg_t.targets_num                                     *)
    user_target,  (* alg_t.user_target                                     *)
    release,      (* alg_t.release                                         *)
    mutexOk,      (* alg_t.mutex can be locked                             *)
    algpc,        (* fusion_ai_alg_thread                                  *)
    target_node,  (* the target the algorithm works on                     *)
    posted,       (* targets posted by this process                        *)
    live,         (* heap blocks of the pipeline not freed                 *)
    leaked,       (* of these, the ones no pointer leads to any more       *)
    devLog        (* history: device targets inserted by this process      *)

queueVars  == <<mq, waiters>>
taskVars   == <<taskpc, cur>>
targetVars == <<head, targets_num, user_target, devLog>>
algVars    == <<algpc, target_node>>
heapVars   == <<live, leaked>>
vars == <<boots, mainpc, queueVars, taskVars, targetVars, release, mutexOk,
          algVars, posted, heapVars>>

TargetKind == {"user", "dev"}
Message == [n : Nat, kind : TargetKind \cup {"poison", "stale"},
            from : Producers \cup {Main}]
Target == {m \in Message : m.kind \in TargetKind}

(* A null pointer is no message.                                           *)
ASSUME NullAssumption == NULL \notin Message

Stale == [n |-> 0, kind |-> "stale", from |-> Main]

(* The states of main in which the threads that post targets run.          *)
Serving == {"up", "releasing", "deleting", "unloading", "exiting"}

(***************************************************************************)
(* Static data is zero when a process starts.                              *)
(***************************************************************************)
ZeroData ==
    /\ waiters = <<>>
    /\ taskpc = "none" /\ cur = NULL
    /\ head = <<>> /\ targets_num = 0 /\ user_target = NULL /\ devLog = <<>>
    /\ release = FALSE /\ mutexOk = TRUE
    /\ algpc = "none" /\ target_node = NULL
    /\ posted = 0 /\ live = 0 /\ leaked = 0

Init ==
    /\ boots = 0 /\ mainpc = "down" /\ mq = <<>>
    /\ ZeroData

(* The process is gone: the heap with it, and the pointers left in the     *)
(* queue q lead nowhere.                                                   *)
Die(q) ==
    /\ mainpc' = "down"
    /\ mq' = [i \in DOMAIN q |-> Stale]
    /\ waiters' = <<>>
    /\ taskpc' = "none" /\ cur' = NULL
    /\ head' = <<>> /\ targets_num' = 0 /\ user_target' = NULL /\ devLog' = <<>>
    /\ release' = FALSE /\ mutexOk' = TRUE
    /\ algpc' = "none" /\ target_node' = NULL
    /\ posted' = 0 /\ live' = 0 /\ leaked' = 0
    /\ UNCHANGED boots

(***************************************************************************)
(* mq_send and mq_receive.  A full queue blocks the sender; a receiver     *)
(* that makes room lets in the message of the thread that waited longest.  *)
(***************************************************************************)
(* Mutated: sent with a higher priority than the messages in the queue.   *)
mq_send_Urgent(m) ==
    IF Len(mq) < MaxMsg
    THEN mq' = <<m>> \o mq /\ UNCHANGED waiters
    ELSE waiters' = Append(waiters, m) /\ UNCHANGED mq

mq_send(m) ==
    IF Len(mq) < MaxMsg
    THEN mq' = Append(mq, m) /\ UNCHANGED waiters
    ELSE waiters' = Append(waiters, m) /\ UNCHANGED mq

QueueAfterReceive ==
    IF waiters = <<>> THEN Tail(mq) ELSE Append(Tail(mq), Head(waiters))

Blocked(t) == \E i \in DOMAIN waiters : waiters[i].from = t

(***************************************************************************)
(* alg_init: the task thread is started before the mutex and the target    *)
(* list are initialised.  pthread_create reports failure with a positive   *)
(* number, which "0 > pthread_create(...)" does not see, and which         *)
(* opt_thread_task does not look at: the process then runs without its     *)
(* task thread, or without its algorithm.  (A failed mq_open or malloc     *)
(* ends the process: Kill.)                                                *)
(***************************************************************************)
sysport_task_create ==
    /\ mainpc = "down" /\ boots < MaxBoot
    /\ boots' = boots + 1
    /\ mainpc' = "loaded"
    /\ \/ taskpc' = "recv"
       \/ CanFail /\ taskpc' = "none"
    /\ live' = live + 1
    /\ UNCHANGED <<queueVars, cur, targetVars, release, mutexOk, algVars,
                   posted, leaked>>

alg_init ==
    /\ mainpc = "loaded"
    /\ mainpc' = "up"
    /\ mutexOk' = TRUE /\ release' = FALSE
    /\ head' = <<>> /\ targets_num' = 0 /\ user_target' = NULL
    /\ algpc' = "loop" \/ (CanFail /\ algpc' = "none")
    /\ live' = live + 1      \* alg_t.task_list
    /\ UNCHANGED <<boots, queueVars, taskVars, devLog, target_node, posted,
                   leaked>>

(***************************************************************************)
(* msg_send_to_alg.  After the task thread has closed the queue, mq_send   *)
(* on the closed descriptor fails and the block is freed again; the caller *)
(* is told 0 all the same.                                                 *)
(***************************************************************************)
msg_send_to_alg(p, kind) ==
    /\ mainpc \in Serving
    /\ posted < MaxPost
    /\ ~Blocked(p)
    /\ posted' = posted + 1
    /\ \/ /\ taskpc # "end"
          /\ mq_send([n |-> posted + 1, kind |-> kind, from |-> p])
          /\ live' = live + 1
       \/ /\ taskpc = "end"
          /\ UNCHANGED <<queueVars, live>>
    /\ UNCHANGED <<boots, mainpc, taskVars, targetVars, release, mutexOk,
                   algVars, leaked>>

(***************************************************************************)
(* sysport_task_pthread.                                                   *)
(***************************************************************************)
TaskReceive ==
    /\ taskpc = "recv" /\ mq # <<>>
    /\ Head(mq).kind # "stale"
    /\ mq' = QueueAfterReceive
    /\ waiters' = IF waiters = <<>> THEN waiters ELSE Tail(waiters)
    /\ \/ /\ Head(mq).kind = "poison"
          /\ taskpc' = "close" /\ leaked' = leaked + 1    \* never freed
          /\ UNCHANGED cur
       \/ /\ Head(mq).kind \in TargetKind
          /\ taskpc' = "handle" /\ cur' = Head(mq)
          /\ UNCHANGED leaked
    /\ UNCHANGED <<boots, mainpc, targetVars, release, mutexOk, algVars,
                   posted, live>>

(* A pointer of an earlier process: its address space is gone, and so is   *)
(* this process when it follows the pointer.                               *)
TaskReceiveStale ==
    /\ taskpc = "recv" /\ mq # <<>>
    /\ Head(mq).kind = "stale"
    /\ Die(QueueAfterReceive)

TaskClose ==
    /\ taskpc = "close"
    /\ taskpc' = "end"
    /\ mq' = <<>>
    /\ live' = live - 1                    \* psModule
    /\ leaked' = leaked + Len(mq)          \* queued behind the delete message
    /\ UNCHANGED <<boots, mainpc, waiters, cur, targetVars, release, mutexOk,
                   algVars, posted>>

(***************************************************************************)
(* insert_target_to_head, called by the task thread for cur; the message   *)
(* block is freed afterwards.  A node is two blocks, the node and its      *)
(* target_pack.  A replaced user target loses its pack.                    *)
(***************************************************************************)
(* Mutated: waits for the algorithm to take the pending user target.      *)
InsertUser_Waits(m) ==
    /\ user_target = NULL
    /\ user_target' = m
    /\ live' = live + 1
    /\ UNCHANGED <<head, targets_num, devLog, leaked>>

InsertUser(m) ==
    /\ user_target' = m
    /\ live' = IF user_target = NULL THEN live + 1 ELSE live
    /\ leaked' = IF user_target = NULL THEN leaked ELSE leaked + 1
    /\ UNCHANGED <<head, targets_num, devLog>>

(* More than TARGET_NODE_MAX_NUMBER nodes: the oldest makes room.          *)
(* Mutated: targets_num forgets the dropped node.                          *)
InsertDeviceFull_Uncounted(m) ==
    /\ targets_num > NodeMax /\ head # <<>>
    /\ head' = Append(Tail(head), m)
    /\ targets_num' = targets_num + 1
    /\ live' = live - 1

(* Mutated: the last node is dropped, not the first.                       *)
InsertDeviceFull_DropsLast(m) ==
    /\ targets_num > NodeMax /\ head # <<>>
    /\ head' = [head EXCEPT ![Len(head)] = m]
    /\ targets_num' = (targets_num - 1) + 1
    /\ live' = live - 1

(* Mutated: the dropped node is freed without its pack.                    *)
InsertDeviceFull_KeepsPack(m) ==
    /\ targets_num > NodeMax /\ head # <<>>
    /\ head' = Append(Tail(head), m)
    /\ targets_num' = (targets_num - 1) + 1
    /\ live' = live

InsertDeviceFull(m) ==
    /\ targets_num > NodeMax /\ head # <<>>
    /\ head' = Append(Tail(head), m)
    /\ targets_num' = (targets_num - 1) + 1
    /\ live' = live - 1

(* Mutated: inserted where the function's name says.                       *)
InsertDeviceRoom_AtHead(m) ==
    /\ targets_num <= NodeMax \/ head = <<>>
    /\ head' = <<m>> \o head
    /\ targets_num' = targets_num + 1
    /\ live' = live + 1

InsertDeviceRoom(m) ==
    /\ targets_num <= NodeMax \/ head = <<>>
    /\ head' = Append(head, m)
    /\ targets_num' = targets_num + 1
    /\ live' = live + 1

InsertDevice(m) ==
    /\ InsertDeviceFull(m) \/ InsertDeviceRoom(m)
    /\ devLog' = Append(devLog, m)
    /\ UNCHANGED <<user_target, leaked>>

algs_handle_multiple_targets ==
    /\ taskpc = "handle"
    /\ taskpc' = "recv" /\ cur' = NULL
    /\ \/ mutexOk /\ cur.kind = "user" /\ InsertUser(cur)
       \/ mutexOk /\ cur.kind = "dev" /\ InsertDevice(cur)
       \/ /\ ~mutexOk \/ CanFail           \* no lock or no memory
          /\ live' = live - 1
          /\ UNCHANGED <<targetVars, leaked>>
    /\ UNCHANGED <<boots, mainpc, queueVars, release, mutexOk, algVars, posted>>

(***************************************************************************)
(* fusion_ai_alg_thread.  release is read at the head of the loop, before  *)
(* a picture is waited for: the take that follows may come after           *)
(* alg_uninit has set it, and on the destroyed mutex.  A round without a   *)
(* picture changes nothing.                                                *)
(***************************************************************************)
AlgCapture ==
    /\ algpc = "loop" /\ ~release
    /\ algpc' = "capture"
    /\ UNCHANGED <<boots, mainpc, queueVars, taskVars, targetVars, release,
                   mutexOk, target_node, posted, heapVars>>

TakeUser ==
    /\ mutexOk /\ user_target # NULL
    /\ target_node' = user_target
    /\ user_target' = NULL
    /\ UNCHANGED <<head, targets_num>>

(* Mutated: the device list is looked at without regard to the user.       *)
TakeDevice_BeforeUser ==
    /\ mutexOk /\ head # <<>>
    /\ target_node' = Head(head)
    /\ head' = Tail(head)
    /\ targets_num' = targets_num - 1
    /\ UNCHANGED user_target

TakeDevice ==
    /\ mutexOk /\ user_target = NULL /\ head # <<>>
    /\ target_node' = Head(head)
    /\ head' = Tail(head)
    /\ targets_num' = targets_num - 1
    /\ UNCHANGED user_target

(* Mutated: counts a target that is not there.                             *)
TakeNothing_Counts ==
    /\ ~mutexOk \/ (user_target = NULL /\ head = <<>>)
    /\ targets_num' = targets_num - 1
    /\ UNCHANGED <<target_node, head, user_target>>

TakeNothing ==
    /\ ~mutexOk \/ (user_target = NULL /\ head = <<>>)
    /\ UNCHANGED <<target_node, head, targets_num, user_target>>

get_and_rm_one_target ==
    /\ algpc = "capture"
    /\ algpc' = "run"
    /\ TakeUser \/ TakeDevice \/ TakeNothing
    /\ UNCHANGED <<boots, mainpc, queueVars, taskVars, release, mutexOk, devLog,
                   posted, heapVars>>

(* ai_alg_run7 and target_node_destory.                                    *)
AlgRun ==
    /\ algpc = "run"
    /\ algpc' = "loop"
    /\ target_node' = NULL
    /\ live' = IF target_node = NULL THEN live ELSE live - 2
    /\ UNCHANGED <<boots, mainpc, queueVars, taskVars, targetVars, release,
                   mutexOk, posted, leaked>>

AlgEnd ==
    /\ algpc = "loop" /\ release
    /\ algpc' = "done"
    /\ UNCHANGED <<boots, mainpc, queueVars, taskVars, targetVars, release,
                   mutexOk, target_node, posted, heapVars>>

(***************************************************************************)
(* alg_uninit.  The thread ids were copied to alg_t.task_list before the   *)
(* threads were created, so opt_thread_task joins thread 0: the C library  *)
(* follows a null pointer or reports an error, and never waits.  The queue *)
(* thread is not joined either.                                            *)
(***************************************************************************)
alg_uninit ==
    /\ mainpc = "up"
    /\ mainpc' = "releasing" /\ release' = TRUE
    /\ UNCHANGED <<boots, queueVars, taskVars, targetVars, mutexOk, algVars,
                   posted, heapVars>>

JoinThreadZero ==
    /\ mainpc = "releasing"
    /\ mainpc' = "deleting"
    /\ live' = live - 1                    \* alg_t.task_list
    /\ UNCHANGED <<boots, queueVars, taskVars, targetVars, release, mutexOk,
                   algVars, posted, leaked>>

JoinFaults == mainpc = "releasing" /\ Die(mq)

sysport_task_delete ==
    /\ mainpc = "deleting"
    /\ mainpc' = "unloading"
    /\ mq_send([n |-> 0, kind |-> "poison", from |-> Main])
    /\ live' = live + 1
    /\ UNCHANGED <<boots, taskVars, targetVars, release, mutexOk, algVars,
                   posted, leaked>>

MutexDestroy ==
    /\ mainpc = "unloading" /\ ~Blocked(Main)
    /\ mainpc' = "exiting" /\ mutexOk' = FALSE
    /\ UNCHANGED <<boots, queueVars, taskVars, targetVars, release, algVars,
                   posted, heapVars>>

(* main returns, or the process is killed at any point.                    *)
Exit == mainpc = "exiting" /\ Die(mq)
Kill == mainpc # "down" /\ Die(mq)

TaskThread == TaskReceive \/ TaskReceiveStale \/ TaskClose
              \/ algs_handle_multiple_targets
AlgThread  == AlgCapture \/ get_and_rm_one_target \/ AlgRun \/ AlgEnd
MainThread == sysport_task_create \/ alg_init \/ alg_uninit \/ JoinThreadZero
              \/ JoinFaults \/ sysport_task_delete \/ MutexDestroy \/ Exit

Next ==
    \/ \E p \in Producers, kind \in TargetKind : msg_send_to_alg(p, kind)
    \/ TaskThread
    \/ AlgThread
    \/ MainThread
    \/ Kill

Spec == Init /\ [][Next]_vars

-----------------------------------------------------------------------------
(***************************************************************************)
(* Properties.                                                             *)
(***************************************************************************)

(* Types of the variables, and the bounds the queue and the waiting        *)
(* threads obey.                                                           *)
TypeOK ==
    /\ boots \in 0..MaxBoot
    /\ mainpc \in Serving \cup {"down", "loaded"}
    /\ mq \in Seq(Message) /\ Len(mq) <= MaxMsg
    /\ waiters \in Seq(Message)
    /\ taskpc \in {"none", "recv", "handle", "close", "end"}
    /\ cur \in Target \cup {NULL}
    /\ head \in Seq(Target) /\ devLog \in Seq(Target)
    /\ targets_num \in Nat
    /\ user_target \in Target \cup {NULL}
    /\ release \in BOOLEAN /\ mutexOk \in BOOLEAN
    /\ algpc \in {"none", "loop", "capture", "run", "done"}
    /\ target_node \in Target \cup {NULL}
    /\ posted \in 0..MaxPost
    /\ live \in Int /\ leaked \in Nat

(* targets_num is a counter kept beside the list: two threads change it,   *)
(* and insert_target_to_head decides from it, not from the list, whether   *)
(* to drop the oldest node.  It always equals the length of the list,      *)
(* which never exceeds TARGET_NODE_MAX_NUMBER + 1.                         *)
CountMatches ==
    /\ targets_num = Len(head)
    /\ Len(head) <= NodeMax + 1

(* Whatever was dropped or taken, the device list holds the newest targets *)
(* inserted, with none missing between them: only the oldest is dropped.   *)
ListIsNewest ==
    /\ Len(head) <= Len(devLog)
    /\ \A i \in 1..Len(head) :
          head[i] = devLog[(Len(devLog) - Len(head)) + i]

(* From the algorithm back to the blocked senders, the device targets      *)
(* stand in the order in which they were posted, and so do the user        *)
(* targets: no target is overtaken by a later one of its kind.             *)
Opt(m) == IF m = NULL THEN <<>> ELSE <<m>>
Stream(listed) == Opt(target_node) \o listed \o Opt(cur) \o mq \o waiters
InPostOrder(s, kind) ==
    \A i, j \in DOMAIN s :
        i < j /\ s[i].kind = kind /\ s[j].kind = kind => s[i].n < s[j].n
PostOrder ==
    /\ InPostOrder(Stream(head), "dev")
    /\ InPostOrder(Stream(Opt(user_target)), "user")

(* "the poriority of user targets is highest" (get_and_rm_one_target):     *)
(* while the algorithm works on a device target, a user target that is     *)
(* pending was posted after it.                                            *)
UserFirst ==
    target_node # NULL /\ user_target # NULL /\ target_node.kind = "dev"
        => target_node.n < user_target.n

(* Every heap block is reachable or counted as leaked: in a process that   *)
(* is not shutting down, the only blocks lost are the packs of replaced    *)
(* user targets.                                                           *)
Blocks(p) == IF p THEN 1 ELSE 0
Fresh(s) == Cardinality({i \in DOMAIN s : s[i].kind # "stale"})
HeapBalance ==
    live = Blocks(mainpc # "down" /\ taskpc # "end")
           + Blocks(mainpc \in {"up", "releasing"})
           + Fresh(mq) + Len(waiters) + Blocks(cur # NULL) + 2 * Len(head)
           + 2 * Blocks(user_target # NULL) + 2 * Blocks(target_node # NULL)
           + leaked

(* A start may be killed by pointers an earlier process left in the queue, *)
(* but only before it has received its first target: once the task thread  *)
(* has one, no pointer of an earlier process is left.                      *)
StaleFirst ==
    cur # NULL \/ devLog # <<>> \/ user_target # NULL
        => \A i \in DOMAIN mq : mq[i].kind # "stale"

(***************************************************************************)
(* Liveness.  The threads of a running process are scheduled; nothing is   *)
(* assumed of the camera, the senders, the restarts or the kills.          *)
(***************************************************************************)
Shutdown == JoinThreadZero \/ JoinFaults \/ sysport_task_delete
            \/ MutexDestroy \/ Exit

FairSpec == Spec /\ WF_vars(TaskThread) /\ WF_vars(Shutdown)

(* A network thread blocked in mq_send on the full queue gets on, unless   *)
(* the task thread has been deleted.                                       *)
SenderReleased ==
    \A p \in Producers : Blocked(p) ~> ~Blocked(p) \/ taskpc = "end"

(* alg_uninit, which posts to the same full queue, lets the process end.   *)
ShutdownEnds == mainpc = "releasing" ~> mainpc = "down"
=============================================================================
