---------------------------- MODULE RadarServers ----------------------------
(***************************************************************************)
(* The TCP servers the AGX opens for radars: srv/eth_link/eth_link_server.c *)
(* with srv/eth_link/socket/tcp_server.c and app/radars_network.           *)
(*                                                                         *)
(* A radar that answers the UDP lookup is given a server of its own (port, *)
(* thread, list entry) and is told the port to connect to.  A server that  *)
(* nobody connects to, or whose radar falls silent, ends and deletes its   *)
(* own entry.  Threads: main, which registers the first server and closes  *)
(* all of them; the UDP thread, which registers radars; the detect thread, *)
(* which broadcasts the lookup; one thread per server.                     *)
(*                                                                         *)
(* A list entry is a heap block, here a slot.  The singly linked list is   *)
(* the sequence of slots that following psNext from psEthList->list meets. *)
(***************************************************************************)
EXTENDS Integers, Sequences

CONSTANTS
    Slots,     (* heap blocks for list entries; bounds the live servers    *)
    Sns,       (* serial numbers of radars                                 *)
    InitSn,    (* NETPOTOCAL_INITILA_SN, the server that waits for anyone  *)
    MaxConn,   (* AGX_MAX_DEFAULT_NUM, psEthList->max                      *)
    BasePort,  (* AGX_DEFAULT_PORT_HEAD                                    *)
    Tries,     (* ports get_unused_port looks at: 100                      *)
    Timeout,   (* SERVER_TCP_TIMEOUT, in rounds of one second              *)
    CanFail,   (* whether socket, bind, listen or pthread_create may fail  *)
    NULL

ASSUME ServersAssumption ==
    /\ InitSn \notin Sns /\ NULL \notin Sns \cup Slots \cup {InitSn}
    /\ MaxConn \in Nat \ {0}
    /\ BasePort \in Nat
    /\ Tries \in Nat /\ Tries > MaxConn
    /\ Timeout \in Nat \ {0}
    /\ CanFail \in BOOLEAN

VARIABLES
    mainpc,   (* main thread                                               *)
    udppc,    (* UDP thread: eth_protocol_handler                          *)
    detectpc, (* find_online_detect_task                                   *)
    exit_relase, (* detect_task.exit_relase                                *)
    reg,      (* the serial number being registered                        *)
    creating, (* the slot whose thread runs but which is not filled in yet *)
    list,     (* psEthList->list                                           *)
    cur_con,  (* psEthList->cur_con                                        *)
    pc,       (* tcp_server_task of each slot                              *)
    port,     (* sCfg.wlocalPort                                           *)
    sn,       (* sserver.radar_sn                                          *)
    filled,   (* psRoot and psUserCbk are set                              *)
    count,    (* uConnectCount                                             *)
    closeReq  (* bFlagClose                                                *)

detectVars == <<detectpc, exit_relase>>
regVars  == <<mainpc, udppc, detectVars, reg, creating>>
slotVars == <<port, sn, filled>>
vars == <<regVars, list, cur_con, pc, slotVars, count, closeReq>>

(* pc of a server thread: "free" no block; "start" before bind; "dead" the *)
(* thread returned early and its entry stays; "accept" and "conn" (that is *)
(* bFlagConnect) listening; "close" left the loop; "delete" sockets closed.*)
Listening == {"accept", "conn", "close"}
Running   == {"start", "accept", "conn", "close", "delete"}

Listed == {list[i] : i \in DOMAIN list}

Init ==
    /\ mainpc = "boot" /\ udppc = "none" /\ reg = NULL /\ creating = NULL
    /\ detectpc = "none" /\ exit_relase = FALSE
    /\ list = <<>> /\ cur_con = 0
    /\ pc = [s \in Slots |-> "free"]
    /\ port = [s \in Slots |-> 0]
    /\ sn = [s \in Slots |-> NULL]
    /\ filled = [s \in Slots |-> FALSE]
    /\ count = [s \in Slots |-> 0]
    /\ closeReq = [s \in Slots |-> FALSE]

(***************************************************************************)
(* Registration: eth_link_add_tcp_server_list and what it calls.           *)
(***************************************************************************)
PortUsed(p) == \E s \in Listed : port[s] = p

(* Mutated: the port after the last entry, as the log line there computes. *)
get_unused_port_ByCount == BasePort + Len(list)

get_unused_port ==
    CHOOSE p \in BasePort..(BasePort + Tries) :
        /\ ~PortUsed(p) \/ p = BasePort + Tries
        /\ \A q \in BasePort..(p - 1) : PortUsed(q)

(* Mutated: the search stops before it compares the last entry.            *)
Registered_SkipsLast(n) == \E i \in 1..(Len(list) - 1) : sn[list[i]] = n

Registered(n) == \E i \in DOMAIN list : sn[list[i]] = n

(* Mutated: counts from zero.                                              *)
HasRoom_OffByOne == MaxConn >= Len(list)

HasRoom == MaxConn > Len(list)

(* eth_link_create_tcp_server_list up to the start of the thread: the      *)
(* block is zeroed (the model zeroes a slot when it is freed), so psRoot,  *)
(* psUserCbk and radar_sn are not set yet.                                 *)
tcp_server_create(s, p) ==
    /\ pc[s] = "free"
    /\ pc' = [pc EXCEPT ![s] = "start"]
    /\ port' = [port EXCEPT ![s] = p]
    /\ creating' = s
    /\ UNCHANGED <<sn, filled, count, closeReq>>

(* ... and from there: ps_init, the link at the end of the list, psRoot    *)
(* and the serial number.                                                  *)
FillEntry(s, n) ==
    /\ creating = s
    /\ list' = Append(list, s)
    /\ filled' = [filled EXCEPT ![s] = TRUE]
    /\ sn' = [sn EXCEPT ![s] = n]
    /\ creating' = NULL

(***************************************************************************)
(* main: eth_server_register, without the lock, then eth_link_server_init. *)
(***************************************************************************)
eth_server_register ==
    /\ mainpc = "boot"
    /\ mainpc' = "register"
    /\ \E s \in Slots : tcp_server_create(s, BasePort)
    /\ UNCHANGED <<udppc, detectVars, reg, list, cur_con>>

RegisterFill ==
    /\ mainpc = "register"
    /\ mainpc' = "registered"
    /\ FillEntry(creating, InitSn)
    /\ cur_con' = BasePort
    /\ UNCHANGED <<udppc, detectVars, reg, pc, port, count, closeReq>>

(* pthread_create failed: the block is freed again and nothing is listed.  *)
RegisterFails ==
    /\ mainpc = "boot" /\ CanFail
    /\ mainpc' = "registered"
    /\ UNCHANGED <<udppc, detectVars, reg, creating, list, cur_con, pc, slotVars, count,
                   closeReq>>

(* main goes on when the UDP socket or one of the two threads could not be *)
(* had: then there is no detect thread (its pid stays 0), or no UDP thread *)
(* either.                                                                 *)
eth_link_server_init ==
    /\ mainpc = "registered" /\ udppc = "none"
    /\ mainpc' = "serving"
    /\ \/ udppc' = "idle" /\ detectpc' = "start"
       \/ CanFail /\ udppc' \in {"idle", "none"} /\ UNCHANGED detectpc
    /\ UNCHANGED <<exit_relase, reg, creating, list, cur_con, pc, slotVars, count,
                   closeReq>>

(***************************************************************************)
(* UDP thread: eth_protocol_search_handler for a lookup answer of radar n. *)
(* psEthList->mutex is held from the search to the end of the fill.        *)
(***************************************************************************)
MutexFree == udppc # "fill"

(* The radar takes over the server eth_server_register made: the port      *)
(* announced is whatever cur_con holds.                                    *)
TakeOverInit(n) ==
    /\ udppc = "idle"
    /\ ~Registered(n) /\ Len(list) = 1 /\ sn[list[1]] = InitSn
    /\ sn' = [sn EXCEPT ![list[1]] = n]
    /\ reg' = n /\ udppc' = "announce"
    /\ UNCHANGED <<mainpc, detectVars, creating, list, cur_con, pc, port, filled, count,
                   closeReq>>

(* Mutated: cur_con is set only for the servers after the first.           *)
CurConAfter_FirstForgotten(p) == IF list = <<>> THEN cur_con ELSE p

CurConAfter(p) == p

(* (For the first server the code sets cur_con a step later, when the      *)
(* entry is filled in; only the UDP thread itself reads it.)               *)
NewServer(n) ==
    /\ udppc = "idle"
    /\ ~Registered(n) /\ ~(Len(list) = 1 /\ sn[list[1]] = InitSn) /\ HasRoom
    /\ LET p == IF list = <<>> THEN BasePort ELSE get_unused_port
       IN  /\ \E s \in Slots : tcp_server_create(s, p)
           /\ cur_con' = CurConAfter(p)
    /\ reg' = n /\ udppc' = "fill"
    /\ UNCHANGED <<mainpc, detectVars, list>>

NewServerFails(n) ==
    /\ CanFail
    /\ udppc = "idle"
    /\ ~Registered(n) /\ ~(Len(list) = 1 /\ sn[list[1]] = InitSn) /\ HasRoom
    /\ list # <<>>
    /\ cur_con' = get_unused_port
    /\ UNCHANGED <<regVars, list, pc, slotVars, count, closeReq>>

NewServerFill ==
    /\ udppc = "fill"
    /\ udppc' = "announce"
    /\ FillEntry(creating, reg)
    /\ UNCHANGED <<mainpc, detectVars, reg, cur_con, pc, port, count, closeReq>>

(* The connect request carries cur_con as the port of radar reg.           *)
Announce ==
    /\ udppc = "announce"
    /\ udppc' = "idle" /\ reg' = NULL
    /\ UNCHANGED <<mainpc, detectVars, creating, list, cur_con, pc, slotVars, count,
                   closeReq>>

UdpExit ==
    /\ udppc = "idle" /\ mainpc = "closing"
    /\ udppc' = "done"
    /\ UNCHANGED <<mainpc, detectVars, reg, creating, list, cur_con, pc, slotVars, count,
                   closeReq>>

(***************************************************************************)
(* tcp_server_task.                                                        *)
(***************************************************************************)
PortTaken(s) == \E t \in Slots \ {s} : port[t] = port[s] /\ pc[t] \in Listening

ServerBind(s) ==
    /\ pc[s] = "start"
    /\ \/ ~PortTaken(s) /\ pc' = [pc EXCEPT ![s] = "accept"]
       \/ /\ PortTaken(s) \/ CanFail
          /\ pc' = [pc EXCEPT ![s] = "dead"]       \* no pv_cbk_delete
    /\ UNCHANGED <<regVars, list, cur_con, slotVars, count, closeReq>>

(* Mutated: the count is compared before it is increased.                  *)
SilentSecond_ComparesFirst(s) ==
    \/ /\ Timeout <= count[s]
       /\ pc' = [pc EXCEPT ![s] = "close"]
       /\ count' = [count EXCEPT ![s] = 0]
    \/ /\ Timeout > count[s]
       /\ count' = [count EXCEPT ![s] = @ + 1]
       /\ UNCHANGED pc

(* Mutated: a silent second is not counted.                                *)
SilentSecond_Uncounted(s) ==
    /\ count' = count
    /\ pc' = pc

(* One more second without a client or without data; at wConnectTime the   *)
(* server ends.  The state TCP_INFO reports is that of the listening       *)
(* socket, so it never ends a connection earlier.                          *)
SilentSecond(s) ==
    \/ /\ Timeout <= count[s] + 1
       /\ pc' = [pc EXCEPT ![s] = "close"]
       /\ count' = [count EXCEPT ![s] = 0]
    \/ /\ Timeout > count[s] + 1
       /\ count' = [count EXCEPT ![s] = @ + 1]
       /\ UNCHANGED pc

AcceptTimeout(s) ==
    /\ pc[s] = "accept"
    /\ SilentSecond(s)
    /\ UNCHANGED <<regVars, list, cur_con, slotVars, closeReq>>

Accept(s) ==
    /\ pc[s] = "accept"
    /\ pc' = [pc EXCEPT ![s] = "conn"]
    /\ count' = [count EXCEPT ![s] = 0]
    /\ UNCHANGED <<regVars, list, cur_con, slotVars, closeReq>>

Data(s) ==
    /\ pc[s] = "conn" /\ ~closeReq[s]
    /\ count' = [count EXCEPT ![s] = 0]
    /\ UNCHANGED <<regVars, list, cur_con, pc, slotVars, closeReq>>

(* The radar closed the connection, or main asked for the end of it and    *)
(* the round that looks at bFlagClose is over.                             *)
Hangup(s) ==
    /\ pc[s] = "conn"
    /\ pc' = [pc EXCEPT ![s] = "close"]
    /\ count' = [count EXCEPT ![s] = 0]
    /\ UNCHANGED <<regVars, list, cur_con, slotVars, closeReq>>

ConnSilent(s) ==
    /\ pc[s] = "conn" /\ ~closeReq[s]
    /\ SilentSecond(s)
    /\ UNCHANGED <<regVars, list, cur_con, slotVars, closeReq>>

CloseSockets(s) ==
    /\ pc[s] = "close"
    /\ pc' = [pc EXCEPT ![s] = "delete"]
    /\ closeReq' = [closeReq EXCEPT ![s] = FALSE]
    /\ UNCHANGED <<regVars, list, cur_con, slotVars, count>>

(***************************************************************************)
(* eth_link_del_tcp_server_list.  psLast stays on the head of the list, so *)
(* deleting an entry further down cuts off those before it as well: they   *)
(* keep running, unlisted.                                                 *)
(***************************************************************************)
Index(s) == CHOOSE i \in DOMAIN list : list[i] = s

(* Mutated: only the head is ever unlinked.                                *)
Unlinked_HeadOnly(s) == IF list # <<>> /\ list[1] = s THEN Tail(list) ELSE list

Unlinked(s) ==
    IF s \notin Listed THEN list
    ELSE IF list[1] = s THEN Tail(list)
    ELSE <<list[1]>> \o SubSeq(list, Index(s) + 1, Len(list))

cbk_delete(s) ==
    /\ pc[s] = "delete" /\ filled[s]
    /\ MutexFree
    /\ list' = Unlinked(s)
    /\ pc' = [pc EXCEPT ![s] = "free"]
    /\ port' = [port EXCEPT ![s] = 0]
    /\ sn' = [sn EXCEPT ![s] = NULL]
    /\ filled' = [filled EXCEPT ![s] = FALSE]
    /\ UNCHANGED <<regVars, cur_con, count, closeReq>>

ProcessEnds ==
    /\ mainpc' = "crashed" /\ udppc' = "none"
    /\ detectpc' = "none" /\ exit_relase' = FALSE
    /\ list' = <<>> /\ creating' = NULL /\ reg' = NULL
    /\ pc' = [t \in Slots |-> "free"]
    /\ port' = [t \in Slots |-> 0]
    /\ sn' = [t \in Slots |-> NULL]
    /\ filled' = [t \in Slots |-> FALSE]
    /\ count' = [t \in Slots |-> 0]
    /\ closeReq' = [t \in Slots |-> FALSE]
    /\ UNCHANGED cur_con

(* psRoot is still null: the process faults.                               *)
cbk_delete_NullRoot(s) ==
    /\ pc[s] = "delete" /\ ~filled[s]
    /\ ProcessEnds

(***************************************************************************)
(* eth_link_server_uninit: the UDP thread is told to close and joined, the *)
(* detect thread as well, then every listed server is told to close.  A    *)
(* server without a connection ignores that.                               *)
(***************************************************************************)
eth_link_server_uninit ==
    /\ mainpc = "serving"
    /\ mainpc' = "closing"
    /\ UNCHANGED <<udppc, detectVars, reg, creating, list, cur_con, pc, slotVars, count,
                   closeReq>>

(* Mutated: the detect thread is joined without being told.                *)
StopDetect_Untold ==
    /\ mainpc = "closing" /\ udppc \in {"none", "done"}
    /\ mainpc' = "joindetect"
    /\ UNCHANGED <<udppc, detectVars, reg, creating, list, cur_con, pc, slotVars, count,
                   closeReq>>

(* (pthread_join of a thread that was never created returns at once; it    *)
(* may fault as well, see JoinFaults.)                                     *)
StopDetect ==
    /\ mainpc = "closing" /\ udppc \in {"none", "done"}
    /\ mainpc' = "joindetect"
    /\ exit_relase' = TRUE
    /\ UNCHANGED <<udppc, detectpc, reg, creating, list, cur_con, pc, slotVars, count,
                   closeReq>>

CloseAll ==
    /\ mainpc = "joindetect" /\ detectpc \in {"none", "done"}
    /\ mainpc' = "closed"
    /\ closeReq' = [s \in Slots |-> closeReq[s] \/ (s \in Listed /\ pc[s] = "conn")]
    /\ UNCHANGED <<udppc, detectVars, reg, creating, list, cur_con, pc, slotVars, count>>

JoinFaults ==
    /\ \/ mainpc = "closing" /\ udppc = "none"
       \/ mainpc = "joindetect" /\ detectpc = "none"
    /\ ProcessEnds

(***************************************************************************)
(* find_online_detect_task.  It resets the flag when it starts to run.     *)
(***************************************************************************)
DetectStart ==
    /\ detectpc = "start"
    /\ detectpc' = "loop" /\ exit_relase' = FALSE
    /\ UNCHANGED <<mainpc, udppc, reg, creating, list, cur_con, pc, slotVars, count,
                   closeReq>>

(* A round ends.  (What it sends changes nothing here: radars answer as    *)
(* they please.)                                                           *)
DetectLeave ==
    /\ detectpc = "loop" /\ exit_relase
    /\ detectpc' = "done"
    /\ UNCHANGED <<mainpc, udppc, exit_relase, reg, creating, list, cur_con, pc, slotVars,
                   count, closeReq>>

Server(s) ==
    \/ ServerBind(s) \/ AcceptTimeout(s) \/ Accept(s) \/ Data(s) \/ Hangup(s)
    \/ ConnSilent(s) \/ CloseSockets(s) \/ cbk_delete(s) \/ cbk_delete_NullRoot(s)

Udp ==
    \/ \E n \in Sns : TakeOverInit(n) \/ NewServer(n) \/ NewServerFails(n)
    \/ NewServerFill \/ Announce \/ UdpExit

MainThread ==
    \/ eth_server_register \/ RegisterFill \/ RegisterFails
    \/ eth_link_server_init \/ eth_link_server_uninit \/ StopDetect \/ CloseAll
    \/ JoinFaults

Detect == DetectStart \/ DetectLeave

Next == (\E s \in Slots : Server(s)) \/ Udp \/ Detect \/ MainThread

Spec == Init /\ [][Next]_vars
-----------------------------------------------------------------------------
(***************************************************************************)
(* Properties.                                                             *)
(***************************************************************************)

(* Types of the variables.                                                 *)
TypeOK ==
    /\ mainpc \in {"boot", "register", "registered", "serving", "closing",
                   "joindetect", "closed", "crashed"}
    /\ detectpc \in {"none", "start", "loop", "done"} /\ exit_relase \in BOOLEAN
    /\ udppc \in {"none", "idle", "fill", "announce", "done"}
    /\ reg \in Sns \cup {NULL}
    /\ creating \in Slots \cup {NULL}
    /\ list \in Seq(Slots)
    /\ cur_con \in Nat
    /\ pc \in [Slots -> Running \cup {"free", "dead"}]
    /\ port \in [Slots -> Nat]
    /\ sn \in [Slots -> Sns \cup {InitSn, NULL}]
    /\ filled \in [Slots -> BOOLEAN]
    /\ count \in [Slots -> 0..(Timeout - 1)]
    /\ closeReq \in [Slots -> BOOLEAN]

(* The search for a serial number or a free port walks the list while      *)
(* server threads delete entries: every entry it meets is allocated and    *)
(* filled in, and none is met twice.                                       *)
ListSound ==
    /\ \A i \in DOMAIN list : pc[list[i]] # "free" /\ filled[list[i]]
    /\ \A i, j \in DOMAIN list : list[i] = list[j] => i = j

(* The list never holds more than max entries, whoever takes over the      *)
(* first server.                                                           *)
ListBound == Len(list) <= MaxConn

(* No two listed servers share a port.                                     *)
PortsDistinct ==
    \A i, j \in DOMAIN list : port[list[i]] = port[list[j]] => i = j

(* No two listed servers are for the same radar.                           *)
SnDistinct ==
    \A i, j \in DOMAIN list : sn[list[i]] = sn[list[j]] => i = j

(* The port sent to a radar is the port of the server listed for it, both  *)
(* for a new server and for the one it takes over, although the port       *)
(* travels through the shared field cur_con.                               *)
AnnouncedPort ==
    udppc = "announce" =>
        \A s \in Listed : sn[s] = reg => port[s] = cur_con

(* "find sn has been registered": a radar that has a server is not given   *)
(* another one, so no two servers wait for, or serve, the same radar.      *)
OneServerPerRadar ==
    \A s, t \in Slots :
        /\ pc[s] \in {"accept", "conn"} /\ pc[t] \in {"accept", "conn"}
        /\ sn[s] \in Sns /\ sn[s] = sn[t]
        => s = t

(***************************************************************************)
(* Liveness: every thread is scheduled, and a thread that waits for        *)
(* psEthList->mutex gets it when it is free again and again (no starvation *)
(* by the UDP thread).  A round of a server ends after a second at most,   *)
(* and the UDP thread looks at bFlagClose before every round.  Radars may  *)
(* do as they please: nothing makes them connect, send or hang up.         *)
(***************************************************************************)
Progress(s) ==
    \/ ServerBind(s) \/ AcceptTimeout(s) \/ Data(s) \/ ConnSilent(s)
    \/ closeReq[s] /\ Hangup(s)
    \/ CloseSockets(s) \/ cbk_delete(s) \/ cbk_delete_NullRoot(s)

FairSpec ==
    /\ Spec
    /\ \A s \in Slots : WF_vars(Progress(s)) /\ SF_vars(cbk_delete(s))
    /\ WF_vars(NewServerFill) /\ WF_vars(RegisterFill)
    /\ WF_vars(Announce) /\ SF_vars(UdpExit)
    /\ WF_vars(Detect) /\ WF_vars(StopDetect \/ CloseAll)

(* A server nobody connects to, or whose radar has fallen silent, ends and *)
(* gives its entry back: only a server that is sent data again and again   *)
(* may keep it.                                                            *)
IdleServerFreed ==
    \A s \in Slots :
        <>[][~Data(s)]_vars => (pc[s] \in {"accept", "conn"} ~> pc[s] = "free")

(* A shutdown that finds the detect thread past the reset of its flag gets *)
(* as far as closing the servers.  Otherwise the reset may undo the        *)
(* request, and main joins a thread that never ends.                       *)
ShutdownCloses ==
    mainpc = "closing" /\ detectpc # "start" ~> mainpc \in {"closed", "crashed"}
=============================================================================
