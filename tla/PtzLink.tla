------------------------------- MODULE PtzLink -------------------------------
(***************************************************************************)
(* The link to the PTZ camera: app/ptz/ptz_app.cpp with                    *)
(* srv/eth_link/eth_link_ptz.c, socket/udp_socket.c and ptz_protocol.      *)
(*                                                                         *)
(* Threads: main (load_ptz, relase_ptz_resource), the UDP thread that      *)
(* hands the camera's reports to the registered handlers, the stream       *)
(* thread that queues pictures, and the users, which send commands and     *)
(* take pictures: in this build the algorithm thread alone (the sends of   *)
(* alink_track.c are compiled out).  It is started before the link is, and *)
(* main stops the link before it stops the algorithm.                      *)
(*                                                                         *)
(* Handlers are registered while the UDP thread already walks their list.  *)
(* A command is sent to the port it is received on, by broadcast: every    *)
(* command comes back to the sender.                                       *)
(***************************************************************************)
EXTENDS Integers, Sequences

CONSTANTS
    NReg,       (* commands with a handler, registered in the order 1..NReg *)
    Sent,       (* commands the program sends                               *)
    Users,      (* threads that send commands and take pictures             *)
    QueueMax,   (* pictures kept when another one is queued: 4              *)
    CanFail,    (* whether sockets, memory and threads may be refused       *)
    NULL

ASSUME PtzLinkAssumption ==
    /\ NReg \in Nat \ {0}
    /\ Sent \cap (0 .. NReg) = {}
    /\ QueueMax \in Nat
    /\ CanFail \in BOOLEAN
    /\ NULL \notin Users /\ NULL \notin 1 .. NReg

VARIABLES
    mainpc,        (* main in load_ptz and relase_ptz_resource              *)
    list,          (* ptz_list_obj: nodes with their msg_id and cbk         *)
    freed,         (* the nodes were freed                                  *)
    bFlagInit,     (* sUdpSocket.bFlagInit                                  *)
    bFlagClose,    (* sUdpSocket.bFlagClose                                 *)
    mutex,         (* sUdpSocket.mutex: "none", "ok", "destroyed"           *)
    owner,         (* the user that holds it                                *)
    uSendIp,       (* sUdpCfg.uSendIp: "all", or "subnet" of a sender       *)
    udppc,         (* udp_socket_task                                       *)
    lmsg,          (* the report being handled, as analysed                 *)
    pos,           (* the node eth_protocol_handler stands on, 0 = none     *)
    echo,          (* commands on their way back to the socket              *)
    userpc,        (* udp_socket_send of each user                          *)
    stop_capture, stop_stream,
    campc,         (* ptz_camera_stream_thread                              *)
    q              (* number of pictures in ptzobj.q                        *)

linkVars == <<list, freed>>
sockVars == <<bFlagInit, bFlagClose, mutex>>
udpVars  == <<udppc, lmsg, pos, uSendIp>>
userVars == <<userpc, owner>>
camVars  == <<stop_capture, stop_stream, campc, q>>
vars == <<mainpc, linkVars, sockVars, udpVars, echo, userVars, camVars>>

Handlers == 1 .. NReg

(* A report as it arrives: its head and checksum are right or wrong.       *)
Datagrams ==
    [head : BOOLEAN, crc : BOOLEAN, command : Handlers, body : BOOLEAN]

(* checked: head and checksum were right.  whole (history): every handler  *)
(* was registered when the walk began.                                     *)
NoReport ==
    [ret |-> -1, command |-> 0, msg |-> FALSE, checked |-> FALSE, whole |-> FALSE]

(* A node as it is malloced: skyfend_malloc clears it.                     *)
EmptyNode == [msg_id |-> 0, cbk |-> NULL]

Init ==
    /\ mainpc = "init"
    /\ list = <<>> /\ freed = FALSE
    /\ bFlagInit = FALSE /\ bFlagClose = FALSE /\ mutex = "none"
    /\ owner = NULL
    /\ uSendIp = "all"
    /\ udppc = "none" /\ lmsg = NoReport /\ pos = 0
    /\ echo = {}
    /\ userpc = [u \in Users |-> "idle"]
    /\ stop_capture = FALSE /\ stop_stream = FALSE
    /\ campc = "none" /\ q = 0

-----------------------------------------------------------------------------
(***************************************************************************)
(* main: load_ptz.                                                         *)
(***************************************************************************)
(* udp_socket_crate; when it fails load_ptz and main return.               *)
eth_link_ptz_init ==
    /\ mainpc = "init"
    /\ bFlagInit' = TRUE /\ bFlagClose' = FALSE
    /\ \/ /\ mainpc' = "append" /\ udppc' = "loop" /\ mutex' = "ok"
       \/ /\ CanFail
          /\ mainpc' = "exited" /\ udppc' = "none"
          /\ mutex' \in {"none", "destroyed"}
    /\ UNCHANGED <<linkVars, lmsg, pos, uSendIp, echo, userVars, camVars>>

(* eth_ptz_command_register: the node is in the list before it is filled.  *)
(* Without memory for it the remaining handlers are registered, then       *)
(* load_ptz fails and main returns; the model ends the process at once.    *)
RegisterAppend ==
    /\ mainpc = "append"
    /\ \/ list' = Append(list, EmptyNode) /\ mainpc' = "fill"
       \/ CanFail /\ mainpc' = "exited" /\ UNCHANGED list
    /\ UNCHANGED <<freed, sockVars, udpVars, echo, userVars, camVars>>

(* The node's two fields are plain stores: the UDP thread, on another      *)
(* core, may see either first.                                             *)
RegisterFill ==
    LET n == Len(list)
        node == list[n]
        id == [node EXCEPT !.msg_id = n]
        cb == [node EXCEPT !.cbk = n]
    IN  /\ mainpc = "fill"
        /\ \/ node.msg_id = 0 /\ list' = [list EXCEPT ![n] = id]
           \/ node.cbk = NULL /\ list' = [list EXCEPT ![n] = cb]
        /\ mainpc' = IF list'[n].msg_id # 0 /\ list'[n].cbk # NULL
                     THEN IF n = NReg THEN "stream" ELSE "append"
                     ELSE "fill"
        /\ UNCHANGED <<freed, sockVars, udpVars, echo, userVars, camVars>>

ptz_thread_load ==
    /\ mainpc = "stream"
    /\ stop_capture' = FALSE
    /\ \/ mainpc' = "run" /\ campc' = "start"
       \/ CanFail /\ mainpc' = "exited" /\ UNCHANGED campc
    /\ UNCHANGED <<linkVars, sockVars, udpVars, echo, userVars, stop_stream, q>>

(***************************************************************************)
(* main: relase_ptz_resource, after a signal.                              *)
(***************************************************************************)
StopCapture ==
    /\ mainpc = "run"
    /\ stop_capture' = TRUE /\ mainpc' = "stop"
    /\ UNCHANGED <<linkVars, sockVars, udpVars, echo, userVars, stop_stream, campc, q>>

StopStream ==
    /\ mainpc = "stop"
    /\ stop_stream' = TRUE /\ mainpc' = "join"
    /\ UNCHANGED <<linkVars, sockVars, udpVars, echo, userVars, stop_capture, campc, q>>

(* The stream thread is joined, then the socket is told to close.          *)
JoinStream ==
    /\ mainpc = "join" /\ campc = "done"
    /\ bFlagClose' = (bFlagClose \/ bFlagInit)
    /\ mainpc' = "joinudp"
    /\ UNCHANGED <<linkVars, bFlagInit, mutex, udpVars, echo, userVars, camVars>>

eth_link_ptz_uninit ==
    /\ mainpc = "joinudp" /\ udppc = "done"
    /\ list' = <<>> /\ freed' = TRUE
    /\ mainpc' = "released"
    /\ UNCHANGED <<sockVars, udpVars, echo, userVars, camVars>>

-----------------------------------------------------------------------------
(* Mutated: a wrong checksum is only logged, like a wrong stop bit.        *)
Analysis_CrcLogged(d) ==
    IF ~d.head THEN [NoReport EXCEPT !.ret = 0]
    ELSE [ret |-> 0, command |-> d.command, msg |-> d.body,
          checked |-> d.crc, whole |-> FALSE]

(***************************************************************************)
(* The UDP thread: udp_socket_task, eth_link_udp_cbk_data,                 *)
(* eth_protocol_handler.                                                   *)
(***************************************************************************)
(* ptz_protocol_network_data_analysis: a wrong head leaves the report      *)
(* empty and is not an error; a wrong checksum is.  A report without body  *)
(* has no msg.                                                             *)
Analysis(d) ==
    IF ~d.head THEN [NoReport EXCEPT !.ret = 0]
    ELSE IF ~d.crc THEN [NoReport EXCEPT !.command = d.command]
    ELSE [ret |-> 0, command |-> d.command, msg |-> d.body,
          checked |-> TRUE, whole |-> FALSE]

(* Where the handler goes with what it analysed.                           *)
Handle(m) ==
    /\ lmsg' = [m EXCEPT !.whole = mainpc \notin {"append", "fill"}]
    /\ IF m.ret = 0 /\ list # <<>> THEN udppc' = "visit" /\ pos' = 1
       ELSE udppc' = "handled" /\ pos' = 0

(* A datagram comes in, from the camera or from another device, or a       *)
(* command of this program comes back; commands go to its sender's subnet  *)
(* until it has been handled.                                              *)
UdpRecv ==
    /\ udppc = "loop" /\ ~bFlagClose
    /\ uSendIp' = "subnet"
    /\ \/ /\ \E d \in Datagrams : Handle(Analysis(d))
          /\ UNCHANGED echo
       \/ \E c \in echo :
             /\ Handle(Analysis([head |-> TRUE, crc |-> TRUE, command |-> c, body |-> TRUE]))
             /\ echo' = echo \ {c}
    /\ UNCHANGED <<mainpc, linkVars, sockVars, userVars, camVars>>

(* recvfrom fails: the zeroed buffer is handled, and the thread ends.      *)
UdpRecvFails ==
    /\ udppc = "loop" /\ ~bFlagClose /\ CanFail
    /\ bFlagClose' = TRUE
    /\ uSendIp' = "all"
    /\ Handle([NoReport EXCEPT !.ret = 0])
    /\ UNCHANGED <<mainpc, linkVars, bFlagInit, mutex, echo, userVars, camVars>>

(* The node's two fields are read one after the other, and main may fill   *)
(* the node in between.                                                    *)
Matches(node)    == node.msg_id = lmsg.command
HasHandler(node) == node.cbk # NULL

VisitId ==
    /\ udppc = "visit"
    /\ udppc' = IF Matches(list[pos]) THEN "test" ELSE "next"
    /\ UNCHANGED <<mainpc, linkVars, sockVars, lmsg, pos, uSendIp, echo, userVars, camVars>>

VisitCbk ==
    /\ udppc = "test"
    /\ udppc' = IF HasHandler(list[pos]) THEN "call" ELSE "next"
    /\ UNCHANGED <<mainpc, linkVars, sockVars, lmsg, pos, uSendIp, echo, userVars, camVars>>

(* Mutated: the walk ends before the last node.                            *)
VisitNext_ButLast ==
    /\ udppc = "next"
    /\ IF pos + 1 < Len(list) THEN udppc' = "visit" /\ pos' = pos + 1
       ELSE udppc' = "handled" /\ pos' = 0
    /\ UNCHANGED <<mainpc, linkVars, sockVars, lmsg, uSendIp, echo, userVars, camVars>>

VisitNext ==
    /\ udppc = "next"
    /\ IF pos < Len(list) THEN udppc' = "visit" /\ pos' = pos + 1
       ELSE udppc' = "handled" /\ pos' = 0
    /\ UNCHANGED <<mainpc, linkVars, sockVars, lmsg, uSendIp, echo, userVars, camVars>>

(* The handler returns, and the walk is left where it stands.              *)
CallReturns ==
    /\ udppc = "call"
    /\ udppc' = "handled"
    /\ UNCHANGED <<mainpc, linkVars, sockVars, lmsg, pos, uSendIp, echo, userVars, camVars>>

(* Most handlers copy from msg without looking whether there is one.       *)
CallFaults ==
    /\ udppc = "call" /\ ~lmsg.msg
    /\ mainpc' = "exited"
    /\ UNCHANGED <<linkVars, sockVars, udpVars, echo, userVars, camVars>>

(* ptz_protocol_msg_destory, and the address is put back.                  *)
UdpHandled ==
    /\ udppc = "handled"
    /\ lmsg' = NoReport /\ pos' = 0 /\ uSendIp' = "all" /\ udppc' = "loop"
    /\ UNCHANGED <<mainpc, linkVars, sockVars, echo, userVars, camVars>>

(* The loop is left when the socket is to close or select fails; the       *)
(* socket is closed, then the link is marked down and its mutex destroyed. *)
UdpLeave ==
    /\ udppc = "loop" /\ (bFlagClose \/ CanFail)
    /\ udppc' = "closed"
    /\ UNCHANGED <<mainpc, linkVars, sockVars, lmsg, pos, uSendIp, echo, userVars, camVars>>

UdpDown ==
    /\ udppc = "closed"
    /\ bFlagInit' = FALSE /\ udppc' = "down"
    /\ UNCHANGED <<mainpc, linkVars, bFlagClose, mutex, lmsg, pos, uSendIp, echo, userVars, camVars>>

UdpEnd ==
    /\ udppc = "down"
    /\ mutex' = "destroyed" /\ udppc' = "done"
    /\ UNCHANGED <<mainpc, linkVars, bFlagInit, bFlagClose, lmsg, pos, uSendIp, echo, userVars, camVars>>

-----------------------------------------------------------------------------
(***************************************************************************)
(* A user: send_ptz_* of ptz_control.c, send_ptz_package, udp_socket_send. *)
(* The caller is told 0 whatever becomes of the command.                   *)
(***************************************************************************)
SendCheck(u) ==
    /\ mainpc \notin {"init", "exited"}
    /\ userpc[u] = "idle" /\ bFlagInit
    /\ userpc' = [userpc EXCEPT ![u] = "lock"]
    /\ UNCHANGED <<mainpc, linkVars, sockVars, udpVars, echo, owner, camVars>>

(* The mutex is taken; if it has been destroyed meanwhile the call returns *)
(* an error nobody looks at, and the user goes on without it.              *)
SendLock(u) ==
    /\ userpc[u] = "lock"
    /\ \/ mutex = "ok" /\ owner = NULL /\ owner' = u
       \/ mutex = "destroyed" /\ UNCHANGED owner
    /\ userpc' = [userpc EXCEPT ![u] = "send"]
    /\ UNCHANGED <<mainpc, linkVars, sockVars, udpVars, echo, camVars>>

(* sendto, which fails on a closed socket.                                 *)
SendTo(u) ==
    /\ userpc[u] = "send"
    /\ \E c \in Sent :
          echo' = IF udppc \in {"closed", "down", "done"} THEN echo ELSE echo \cup {c}
    /\ owner' = IF owner = u THEN NULL ELSE owner
    /\ userpc' = [userpc EXCEPT ![u] = "idle"]
    /\ UNCHANGED <<mainpc, linkVars, sockVars, udpVars, camVars>>

(* capture_ptz_vstream_pic: the oldest picture, or -1 when there is none.  *)
capture_ptz_vstream_pic(u) ==
    /\ userpc[u] = "idle" /\ q > 0
    /\ q' = q - 1
    /\ UNCHANGED <<mainpc, linkVars, sockVars, udpVars, echo, userVars, stop_capture, stop_stream, campc>>

-----------------------------------------------------------------------------
(***************************************************************************)
(* The stream thread: ptz_camera_stream_thread.  It resets the flags that  *)
(* ask it to stop when it starts to run.                                   *)
(***************************************************************************)
CamStart ==
    /\ \/ campc = "start" /\ stop_capture' = FALSE /\ campc' = "reset"
          /\ UNCHANGED stop_stream
       \/ campc = "reset" /\ stop_stream' = FALSE /\ campc' = "open"
          /\ UNCHANGED stop_capture
    /\ UNCHANGED <<mainpc, linkVars, sockVars, udpVars, echo, userVars, q>>

(* Mutated: after an open that fails the thread begins again.              *)
CamOpen_Again ==
    /\ campc = "open"
    /\ campc' \in {"read", "start"}
    /\ UNCHANGED <<mainpc, linkVars, sockVars, udpVars, echo, userVars, stop_capture, stop_stream, q>>

(* "continue" in a do-while goes to its condition.                         *)
CamOpen ==
    /\ campc = "open"
    /\ campc' \in {"read", "again"}
    /\ UNCHANGED <<mainpc, linkVars, sockVars, udpVars, echo, userVars, stop_capture, stop_stream, q>>

(* Mutated: nothing makes room.                                            *)
CamRead_NoDrop ==
    /\ campc = "read" /\ ~stop_capture /\ q < QueueMax + 3
    /\ q' = q + 1
    /\ UNCHANGED <<mainpc, linkVars, sockVars, udpVars, echo, userVars, stop_capture, stop_stream, campc>>

(* A picture is read and queued; the oldest one makes room for it.         *)
CamRead ==
    /\ campc = "read" /\ ~stop_capture
    /\ q' = (IF q > QueueMax THEN q - 1 ELSE q) + 1
    /\ UNCHANGED <<mainpc, linkVars, sockVars, udpVars, echo, userVars, stop_capture, stop_stream, campc>>

(* The read loop ends when told to, or when the stream does.               *)
CamStopRead ==
    /\ campc = "read"
    /\ campc' = "again"
    /\ UNCHANGED <<mainpc, linkVars, sockVars, udpVars, echo, userVars, stop_capture, stop_stream, q>>

CamAgain ==
    /\ campc = "again"
    /\ campc' = IF stop_stream THEN "done" ELSE "open"
    /\ UNCHANGED <<mainpc, linkVars, sockVars, udpVars, echo, userVars, stop_capture, stop_stream, q>>

-----------------------------------------------------------------------------
Main == \/ eth_link_ptz_init \/ RegisterAppend \/ RegisterFill \/ ptz_thread_load
        \/ StopCapture \/ StopStream \/ JoinStream \/ eth_link_ptz_uninit

Udp == \/ UdpRecv \/ UdpRecvFails \/ VisitId \/ VisitCbk \/ VisitNext
       \/ CallReturns \/ CallFaults \/ UdpHandled \/ UdpLeave \/ UdpDown \/ UdpEnd

User(u) == SendCheck(u) \/ SendLock(u) \/ SendTo(u) \/ capture_ptz_vstream_pic(u)

Camera == CamStart \/ CamOpen \/ CamRead \/ CamStopRead \/ CamAgain

(* The process ends when main returns early, or faults.                    *)
Next == /\ mainpc # "exited"
        /\ Main \/ Udp \/ Camera \/ \E u \in Users : User(u)

Spec == Init /\ [][Next]_vars

(* The threads are scheduled; main's wait for a signal need not end.       *)
FairSpec ==
    /\ Spec
    /\ WF_vars(StopStream \/ JoinStream \/ eth_link_ptz_uninit)
    /\ WF_vars(Udp) /\ WF_vars(Camera)

-----------------------------------------------------------------------------
Nodes == [msg_id : 0 .. NReg, cbk : Handlers \cup {NULL}]

Reports ==
    [ret : {-1, 0}, command : 0 .. NReg \cup Sent, msg : BOOLEAN, checked : BOOLEAN, whole : BOOLEAN]

(* Types; the picture queue holds at most one more than the number it is   *)
(* cut down to, however slow its reader is (ptz_app.cpp).                  *)
TypeOK ==
    /\ mainpc \in {"init", "append", "fill", "stream", "run", "stop", "join",
                   "joinudp", "released", "exited"}
    /\ list \in Seq(Nodes) /\ Len(list) <= NReg
    /\ freed \in BOOLEAN /\ bFlagInit \in BOOLEAN /\ bFlagClose \in BOOLEAN
    /\ mutex \in {"none", "ok", "destroyed"}
    /\ owner \in Users \cup {NULL}
    /\ uSendIp \in {"all", "subnet"}
    /\ udppc \in {"none", "loop", "visit", "test", "next", "call", "handled",
                  "closed", "down", "done"}
    /\ lmsg \in Reports
    /\ pos \in 0 .. Len(list)
    /\ echo \subseteq Sent
    /\ userpc \in [Users -> {"idle", "lock", "send"}]
    /\ stop_capture \in BOOLEAN /\ stop_stream \in BOOLEAN
    /\ campc \in {"none", "start", "reset", "open", "read", "again", "done"}
    /\ q \in 0 .. QueueMax + 1

(* The walk of eth_protocol_handler through the list that main fills and   *)
(* frees.  The UDP thread never stands on a node eth_link_ptz_uninit       *)
(* freed; and a report whose head and checksum are right and whose command *)
(* has a handler has reached it when the walk is over, if every handler    *)
(* was registered when it began.                                           *)
WalkSound ==
    /\ udppc \in {"visit", "test", "next", "call"} => ~freed
    /\ udppc = "handled" /\ lmsg.whole /\ lmsg.checked /\ lmsg.command \in Handlers
       => pos # 0 /\ Matches(list[pos]) /\ HasHandler(list[pos])

(* A handler is only ever called on a report of its own command that was   *)
(* checked, so not on the program's own commands coming back.  The one     *)
(* exception is an empty report (a wrong head, or a recvfrom that failed): *)
(* its command 0 matches a node whose msg_id main has yet to set, and its  *)
(* handler is called if it is there by the time cbk is read, main being    *)
(* then where it may.  That needs a walk that began before every handler   *)
(* was registered.                                                         *)
DispatchSound ==
    [][udppc = "test" /\ udppc' = "call" =>
          \/ lmsg.checked /\ lmsg.command = list[pos].cbk
          \/ lmsg.command = 0 /\ ~lmsg.whole]_vars

(* A release that finds the stream thread past the reset of its flags      *)
(* ends, whether or not the camera can be reached (or the process does).   *)
(* Otherwise the reset may undo the request, and main joins a thread that  *)
(* never ends (ptz_app.cpp).                                               *)
ReleaseEnds ==
    /\ mainpc = "stop" /\ stop_capture /\ campc \notin {"start", "reset"}
    ~> mainpc \in {"released", "exited"}
=============================================================================
