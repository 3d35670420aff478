--------------------------- MODULE PtzLinkProofs ----------------------------
(***************************************************************************)
(* Proofs about the PTZ link, for any number of handlers, of commands, of  *)
(* users and of queued pictures, with and without failures.                *)
(*                                                                         *)
(* LinkInv relates three threads: what the list holds at each place of     *)
(* main (NodesFilled), that the list outlives the walk (Lifetime), and how *)
(* far a walk that began with every handler registered can have got        *)
(* without calling the one it looks for (Reaching).  Between the reads of  *)
(* a node's two fields main may fill them; Chosen says what is left of the *)
(* first read then.                                                        *)
(***************************************************************************)
EXTENDS PtzLink, SequenceTheorems, TLAPS

Walking == udppc \in {"visit", "test", "next", "call"}
Loaded == mainpc \in {"stream", "run", "stop", "join", "joinudp"}

(* The i-th node holds the i-th command and its handler.                   *)
Filled(i) == list[i] = [msg_id |-> i, cbk |-> i]

(* Only the last node may be half filled, while main fills it (or when the *)
(* process ended meanwhile).                                               *)
NodesFilled ==
    /\ \A i \in DOMAIN list : i < Len(list) \/ mainpc \notin {"fill", "exited"} => Filled(i)
    /\ mainpc = "init" => list = <<>>
    /\ mainpc = "append" => Len(list) < NReg
    /\ mainpc = "fill" =>
          /\ list # <<>>
          /\ list[Len(list)] \in [msg_id : {0, Len(list)}, cbk : {NULL, Len(list)}]
    /\ Loaded => Len(list) = NReg

(* The list is freed after the UDP thread has ended.                       *)
Lifetime ==
    /\ freed <=> mainpc = "released"
    /\ freed => udppc = "done"
    /\ mainpc = "init" => udppc = "none"

(* A walk stands on a node; a report that is walked with is checked or     *)
(* empty.                                                                  *)
OnNode ==
    /\ Walking => pos # 0 /\ (lmsg.checked <=> lmsg.command # 0)
    /\ ~Walking /\ udppc # "handled" => pos = 0

(* A walk that began after the registration sees the whole list, and it    *)
(* does not get past the handler it looks for.                             *)
Reaching ==
    lmsg.whole /\ (Walking \/ udppc = "handled") =>
        /\ mainpc \notin {"init", "append", "fill"}
        /\ Len(list) = NReg /\ \A i \in DOMAIN list : Filled(i)
        /\ lmsg.checked /\ lmsg.command \in Handlers =>
              /\ udppc = "visit" => pos <= lmsg.command
              /\ udppc = "next" => pos < lmsg.command
              /\ udppc \in {"test", "call", "handled"} => pos = lmsg.command

(* The node a walk has chosen by its msg_id still has that msg_id, unless  *)
(* the report is empty and the node was filled in since.                   *)
Chosen ==
    udppc = "test" => \/ list[pos].msg_id = lmsg.command
                      \/ lmsg.command = 0 /\ ~lmsg.whole

LinkInv == TypeOK /\ NodesFilled /\ Lifetime /\ OnNode /\ Reaching /\ Chosen

-----------------------------------------------------------------------------
(* At the start nothing is registered and no thread runs.                  *)
LEMMA InitLink == Init => LinkInv
  <1> SUFFICES ASSUME Init PROVE LinkInv
    OBVIOUS
  <1>1. list \in Seq(Nodes) /\ Len(list) = 0 /\ DOMAIN list = {}
    BY EmptySeq DEF Init
  <1>2. lmsg \in Reports /\ lmsg.whole = FALSE
    BY PtzLinkAssumption DEF Init, NoReport, Reports
  <1>3. TypeOK
    <2>1. Len(list) <= NReg /\ pos \in 0 .. Len(list) /\ q \in 0 .. QueueMax + 1
      BY <1>1, PtzLinkAssumption DEF Init
    <2>2. userpc \in [Users -> {"idle", "lock", "send"}]
      BY DEF Init
    <2> QED
      BY <1>1, <1>2, <2>1, <2>2 DEF Init, TypeOK
  <1>4. NodesFilled
    BY <1>1 DEF Init, NodesFilled, Loaded
  <1>5. Lifetime /\ OnNode /\ Reaching /\ Chosen
    BY <1>2 DEF Init, Lifetime, OnNode, Reaching, Chosen, Walking
  <1> QED
    BY <1>3, <1>4, <1>5 DEF LinkInv

(* Steps that leave the list and the walk alone: those of the users, of    *)
(* the camera, and of main between the registration and the release.       *)
LEMMA AsideLink ==
    ASSUME LinkInv, TypeOK', UNCHANGED <<list, freed, udppc, lmsg, pos>>,
           \/ mainpc' = mainpc
           \/ Loaded /\ Loaded'
           \/ mainpc' = "exited" /\ mainpc \notin {"released", "init"}
    PROVE  LinkInv'
  <1> USE DEF LinkInv
  <1>1. NodesFilled'
    BY DEF NodesFilled, Filled, Loaded
  <1>2. Lifetime' /\ OnNode' /\ Chosen'
    BY DEF Lifetime, OnNode, Chosen, Walking, Loaded
  <1>3. Reaching'
    BY DEF Reaching, Walking, Filled, Loaded
  <1> QED
    BY <1>1, <1>2, <1>3

(* The users of the link touch neither the handlers nor the report being   *)
(* walked.                                                                 *)
LEMMA UserLink ==
    ASSUME LinkInv, NEW u \in Users, User(u)
    PROVE  LinkInv'
  <1> USE DEF LinkInv
  <1>1. UNCHANGED <<mainpc, list, freed, bFlagInit, bFlagClose, mutex, udppc, lmsg, pos,
                    uSendIp, stop_capture, stop_stream, campc>>
    BY DEF User, SendCheck, SendLock, SendTo, capture_ptz_vstream_pic, linkVars, sockVars,
           udpVars, userVars, camVars
  <1>2. /\ userpc' \in [Users -> {"idle", "lock", "send"}] /\ owner' \in Users \cup {NULL}
        /\ echo' \subseteq Sent
    BY DEF User, SendCheck, SendLock, SendTo, capture_ptz_vstream_pic, TypeOK, userVars
  <1>3. q' \in 0 .. QueueMax + 1
    BY PtzLinkAssumption
    DEF User, SendCheck, SendLock, SendTo, capture_ptz_vstream_pic, TypeOK, camVars
  <1>4. TypeOK'
    BY <1>1, <1>2, <1>3 DEF TypeOK
  <1> QED
    BY <1>1, <1>4, AsideLink

(* The picture that is queued takes the place of one, if there are many.   *)
LEMMA CameraLink ==
    ASSUME LinkInv, Camera
    PROVE  LinkInv'
  <1> USE DEF LinkInv
  <1>1. UNCHANGED <<mainpc, list, freed, bFlagInit, bFlagClose, mutex, udppc, lmsg, pos,
                    uSendIp, userpc, owner, echo>>
    BY DEF Camera, CamStart, CamOpen, CamRead, CamStopRead, CamAgain, linkVars, sockVars,
           udpVars, userVars
  <1>2. /\ stop_capture' \in BOOLEAN /\ stop_stream' \in BOOLEAN
        /\ campc' \in {"none", "start", "reset", "open", "read", "again", "done"}
    BY DEF Camera, CamStart, CamOpen, CamRead, CamStopRead, CamAgain, TypeOK
  <1>3. q' \in 0 .. QueueMax + 1
    BY PtzLinkAssumption
    DEF Camera, CamStart, CamOpen, CamRead, CamStopRead, CamAgain, TypeOK
  <1>4. TypeOK'
    BY <1>1, <1>2, <1>3 DEF TypeOK
  <1> QED
    BY <1>1, <1>4, AsideLink

(* Nor does the start and the stop of the camera stream.                   *)
LEMMA StreamLink ==
    ASSUME LinkInv, ptz_thread_load \/ StopCapture \/ StopStream \/ JoinStream
    PROVE  LinkInv'
  <1> USE DEF LinkInv
  <1>1. /\ UNCHANGED <<list, freed, bFlagInit, mutex, udppc, lmsg, pos, uSendIp, userpc,
                       owner, echo, q>>
        /\ Loaded /\ (Loaded' \/ mainpc' = "exited")
        /\ mainpc' \in {"run", "stop", "join", "joinudp", "exited"}
    BY DEF ptz_thread_load, StopCapture, StopStream, JoinStream, linkVars, sockVars,
           udpVars, userVars, camVars, Loaded
  <1>2. /\ stop_capture' \in BOOLEAN /\ stop_stream' \in BOOLEAN /\ bFlagClose' \in BOOLEAN
        /\ campc' \in {"none", "start", "reset", "open", "read", "again", "done"}
    BY DEF ptz_thread_load, StopCapture, StopStream, JoinStream, TypeOK, sockVars, camVars
  <1>3. TypeOK'
    BY <1>1, <1>2 DEF TypeOK
  <1> QED
    BY <1>1, <1>3, AsideLink DEF Loaded

(* eth_link_ptz_init starts the UDP thread before any handler is           *)
(* registered, or fails and main ends.                                     *)
LEMMA BeginLink ==
    ASSUME LinkInv, eth_link_ptz_init
    PROVE  LinkInv'
  <1> USE DEF LinkInv
  <1>1. /\ UNCHANGED <<list, freed, lmsg, pos, uSendIp, userpc, owner, echo, q,
                       stop_capture, stop_stream, campc>>
        /\ mainpc = "init" /\ mainpc' \in {"append", "exited"}
        /\ udppc' \in {"loop", "none"} /\ mutex' \in {"ok", "none", "destroyed"}
        /\ bFlagInit' \in BOOLEAN /\ bFlagClose' \in BOOLEAN
    BY DEF eth_link_ptz_init, linkVars, userVars, camVars
  <1>2. list = <<>> /\ Len(list) = 0 /\ DOMAIN list = {} /\ udppc = "none" /\ freed = FALSE
    BY <1>1, EmptySeq DEF NodesFilled, Lifetime, TypeOK
  <1>3. TypeOK'
    BY <1>1 DEF TypeOK
  <1>4. NodesFilled'
    BY <1>1, <1>2, PtzLinkAssumption DEF NodesFilled, Loaded
  <1>5. Lifetime' /\ OnNode' /\ Reaching' /\ Chosen'
    BY <1>1, <1>2 DEF Lifetime, OnNode, Reaching, Chosen, Walking
  <1> QED
    BY <1>3, <1>4, <1>5

(* A new node is in the list, empty.                                       *)
LEMMA AppendLink ==
    ASSUME LinkInv, RegisterAppend
    PROVE  LinkInv'
  <1> USE DEF LinkInv
  <1>1. /\ UNCHANGED <<freed, bFlagInit, bFlagClose, mutex, udppc, lmsg, pos, uSendIp,
                       userpc, owner, echo, q, stop_capture, stop_stream, campc>>
        /\ mainpc = "append"
    BY DEF RegisterAppend, sockVars, udpVars, userVars, camVars
  <1>2. CASE UNCHANGED list /\ mainpc' = "exited"
    <2>1. TypeOK'
      BY <1>1, <1>2 DEF TypeOK
    <2> QED
      BY <1>1, <1>2, <2>1, AsideLink
  <1>3. CASE list' = Append(list, EmptyNode) /\ mainpc' = "fill"
    <2>1. list \in Seq(Nodes) /\ EmptyNode \in Nodes /\ Len(list) < NReg
      BY <1>1, PtzLinkAssumption DEF TypeOK, NodesFilled, EmptyNode, Nodes
    <2>2. /\ list' \in Seq(Nodes) /\ Len(list') = Len(list) + 1 /\ Len(list) \in Nat
          /\ list' # <<>> /\ list'[Len(list) + 1] = EmptyNode
          /\ DOMAIN list = 1 .. Len(list) /\ DOMAIN list' = 1 .. Len(list) + 1
          /\ \A i \in 1 .. Len(list) : list'[i] = list[i]
      BY <1>3, <2>1, AppendProperties, LenProperties
    <2>3. TypeOK'
      <3>1. Len(list') <= NReg
        BY <2>1, <2>2, PtzLinkAssumption
      <3>2. pos' \in 0 .. Len(list')
        BY <1>1, <2>2 DEF TypeOK
      <3> QED
        BY <1>1, <1>3, <2>2, <3>1, <3>2 DEF TypeOK
    <2>4. NodesFilled'
      <3>1. \A i \in 1 .. Len(list) : Filled(i)'
        BY <1>1, <2>2 DEF NodesFilled, Filled
      <3>2. list'[Len(list')] \in [msg_id : {0, Len(list')}, cbk : {NULL, Len(list')}]
        BY <2>2 DEF EmptyNode
      <3> QED
        BY <1>3, <2>2, <3>1, <3>2 DEF NodesFilled, Loaded
    <2>5. Lifetime' /\ OnNode'
      BY <1>1, <1>3 DEF Lifetime, OnNode, Walking
    <2>6. Reaching'
      BY <1>1 DEF Reaching, Walking
    <2>7. Chosen'
      <3>1. udppc = "test" => pos \in 1 .. Len(list)
        BY <2>2 DEF OnNode, Walking, TypeOK
      <3> QED
        BY <1>1, <2>2, <3>1 DEF Chosen
    <2> QED
      BY <2>3, <2>4, <2>5, <2>6, <2>7
  <1> QED
    BY <1>2, <1>3 DEF RegisterAppend

(* One of its fields is filled in; the list is as long as before.          *)
LEMMA FillLink ==
    ASSUME LinkInv, RegisterFill
    PROVE  LinkInv'
  <1> USE DEF LinkInv
  <1>1. /\ UNCHANGED <<freed, bFlagInit, bFlagClose, mutex, udppc, lmsg, pos, uSendIp,
                       userpc, owner, echo, q, stop_capture, stop_stream, campc>>
        /\ mainpc = "fill"
    BY DEF RegisterFill, sockVars, udpVars, userVars, camVars
  <1>2. PICK n \in 1 .. NReg :
            /\ n = Len(list) /\ n \in Nat /\ list \in Seq(Nodes)
            /\ DOMAIN list = 1 .. n /\ list[n] \in Nodes
            /\ list[n].msg_id \in {0, n} /\ list[n].cbk \in {NULL, n}
    <2>1. list \in Seq(Nodes) /\ Len(list) <= NReg /\ list # <<>>
      BY <1>1 DEF TypeOK, NodesFilled
    <2>2. /\ Len(list) \in 1 .. NReg /\ DOMAIN list = 1 .. Len(list) /\ Len(list) \in Nat
          /\ list[Len(list)] \in Nodes
      BY <2>1, LenProperties, EmptySeq, ElementOfSeq, PtzLinkAssumption
    <2> QED
      BY <1>1, <2>1, <2>2 DEF NodesFilled
  <1>3. PICK b \in Nodes : /\ list' = [list EXCEPT ![n] = b]
                           /\ b.msg_id \in {0, n} /\ b.cbk \in {NULL, n}
                           /\ list[n].msg_id \in {0, b.msg_id}
    BY <1>2 DEF RegisterFill, Nodes, Handlers
  <1>4. /\ list' \in Seq(Nodes) /\ Len(list') = n /\ DOMAIN list' = 1 .. n
        /\ list'[n] = b /\ \A i \in 1 .. n : i # n => list'[i] = list[i]
    BY <1>2, <1>3, ExceptSeq, LenProperties
  <1>5. /\ mainpc' \in {"fill", "append", "stream"}
        /\ mainpc' # "fill" => b.msg_id # 0 /\ b.cbk # NULL
        /\ mainpc' = "append" => n # NReg
        /\ mainpc' = "stream" => n = NReg
    BY <1>4 DEF RegisterFill
  <1>6. b = [msg_id |-> b.msg_id, cbk |-> b.cbk]
    BY DEF Nodes
  <1>7. TypeOK'
    BY <1>1, <1>2, <1>4, <1>5 DEF TypeOK
  <1>8. NodesFilled'
    <2>1. \A i \in 1 .. n : i # n => Filled(i)'
      <3>1. \A i \in 1 .. n : i # n => i \in DOMAIN list /\ i < Len(list)
        BY <1>2
      <3> QED
        BY <1>4, <3>1 DEF NodesFilled, Filled
    <2>2. mainpc' # "fill" => Filled(n)'
      BY <1>3, <1>4, <1>5, <1>6 DEF Filled
    <2>3. b \in [msg_id : {0, n}, cbk : {NULL, n}]
      BY <1>3, <1>6
    <2>4. list' # <<>>
      BY <1>2, <1>4, EmptySeq
    <2>5. mainpc' = "append" => n < NReg
      BY <1>2, <1>5, PtzLinkAssumption
    <2> QED
      BY <1>2, <1>4, <1>5, <2>1, <2>2, <2>3, <2>4, <2>5 DEF NodesFilled, Loaded
  <1>9. Lifetime' /\ OnNode' /\ Reaching'
    BY <1>1, <1>5 DEF Lifetime, OnNode, Reaching, Walking
  <1>10. Chosen'
    <2> SUFFICES ASSUME udppc = "test"
                 PROVE  \/ list'[pos].msg_id = lmsg.command
                        \/ lmsg.command = 0 /\ ~lmsg.whole
      BY <1>1 DEF Chosen
    <2>1. pos \in 1 .. n /\ ~lmsg.whole
      BY <1>1, <1>2 DEF OnNode, Reaching, Walking, TypeOK
    <2>2. list[pos].msg_id = lmsg.command \/ lmsg.command = 0
      BY DEF Chosen
    <2>3. CASE pos # n
      BY <1>4, <2>1, <2>2, <2>3
    <2>4. CASE pos = n
      BY <1>3, <1>4, <2>1, <2>2, <2>4
    <2> QED
      BY <2>3, <2>4
  <1> QED
    BY <1>7, <1>8, <1>9, <1>10

(* eth_link_ptz_uninit frees the handlers only after the UDP thread has    *)
(* ended.                                                                  *)
LEMMA UninitLink ==
    ASSUME LinkInv, eth_link_ptz_uninit
    PROVE  LinkInv'
  <1> USE DEF LinkInv
  <1>1. /\ UNCHANGED <<bFlagInit, bFlagClose, mutex, udppc, lmsg, pos, uSendIp,
                       userpc, owner, echo, q, stop_capture, stop_stream, campc>>
        /\ udppc = "done" /\ mainpc' = "released" /\ list' = <<>> /\ freed' = TRUE
    BY DEF eth_link_ptz_uninit, sockVars, udpVars, userVars, camVars
  <1>2. pos = 0
    BY <1>1 DEF OnNode, Walking
  <1>3. list' \in Seq(Nodes) /\ Len(list') = 0 /\ DOMAIN list' = {}
    BY <1>1, EmptySeq
  <1>4. TypeOK'
    <2>1. Len(list') <= NReg /\ pos' \in 0 .. Len(list') /\ freed' \in BOOLEAN
      BY <1>1, <1>2, <1>3, PtzLinkAssumption
    <2> QED
      BY <1>1, <1>3, <2>1 DEF TypeOK
  <1>5. NodesFilled'
    BY <1>1, <1>3 DEF NodesFilled, Loaded
  <1>6. Lifetime' /\ OnNode' /\ Reaching' /\ Chosen'
    BY <1>1, <1>2 DEF Lifetime, OnNode, Reaching, Chosen, Walking
  <1> QED
    BY <1>4, <1>5, <1>6

(* What ptz_protocol_network_data_analysis leaves of a datagram or of a    *)
(* zeroed buffer: nothing, an error, or a command that was checked.        *)
Analysed(m) ==
    /\ m \in Reports
    /\ m.checked => m.ret = 0
    /\ m.ret = 0 => (m.checked <=> m.command # 0)

(* What the analysis of a datagram returns.                                *)
LEMMA AnalysisFacts ==
    /\ Analysed([NoReport EXCEPT !.ret = 0])
    /\ \A d \in Datagrams : Analysed(Analysis(d))
    /\ \A c \in Sent : Analysed(Analysis([head |-> TRUE, crc |-> TRUE, command |-> c, body |-> TRUE]))
  <1>1. NoReport \in Reports /\ NoReport.command = 0 /\ NoReport.ret = -1 /\ ~NoReport.checked
    BY PtzLinkAssumption DEF NoReport, Reports
  <1>2. Analysed([NoReport EXCEPT !.ret = 0])
    BY <1>1 DEF Analysed, Reports
  <1>3. ASSUME NEW d \in Datagrams PROVE Analysed(Analysis(d))
    <2>1. /\ d.head \in BOOLEAN /\ d.crc \in BOOLEAN /\ d.body \in BOOLEAN
          /\ d.command \in 1 .. NReg
      BY DEF Datagrams, Handlers
    <2>2. CASE ~d.head
      BY <1>2, <2>2 DEF Analysis
    <2>3. CASE d.head /\ ~d.crc
      BY <1>1, <2>1, <2>3, PtzLinkAssumption DEF Analysis, Analysed, Reports
    <2>4. CASE d.head /\ d.crc
      BY <2>1, <2>4, PtzLinkAssumption DEF Analysis, Analysed, Reports
    <2> QED
      BY <2>2, <2>3, <2>4, <2>1
  <1>4. ASSUME NEW c \in Sent
        PROVE  Analysed(Analysis([head |-> TRUE, crc |-> TRUE, command |-> c, body |-> TRUE]))
    BY PtzLinkAssumption DEF Analysed, Analysis, NoReport, Reports
  <1> QED
    BY <1>2, <1>3, <1>4

(* A walk begins.  If every handler is registered by now, the list is      *)
(* whole, and the first node is not past the handler looked for.           *)
LEMMA ReceiveLink ==
    ASSUME LinkInv, mainpc # "exited", UdpRecv \/ UdpRecvFails
    PROVE  LinkInv'
  <1> USE DEF LinkInv
  <1>1. /\ UNCHANGED <<mainpc, list, freed, bFlagInit, mutex, userpc, owner, q, stop_capture,
                       stop_stream, campc>>
        /\ udppc = "loop" /\ echo' \subseteq Sent /\ bFlagClose' \in BOOLEAN
        /\ uSendIp' \in {"all", "subnet"}
    BY DEF UdpRecv, UdpRecvFails, TypeOK, linkVars, sockVars, userVars, camVars
  <1>2. PICK m : Analysed(m) /\ Handle(m)
    BY AnalysisFacts DEF UdpRecv, UdpRecvFails, TypeOK
  <1>3. /\ lmsg' \in Reports /\ lmsg'.command = m.command /\ lmsg'.checked = m.checked
        /\ lmsg'.whole <=> mainpc \notin {"append", "fill"}
    BY <1>2 DEF Handle, Analysed, Reports
  <1>4. \/ udppc' = "visit" /\ pos' = 1 /\ m.ret = 0 /\ list # <<>>
        \/ udppc' = "handled" /\ pos' = 0 /\ (m.ret # 0 \/ list = <<>>)
    BY <1>2 DEF Handle
  <1>5. list \in Seq(Nodes) /\ Len(list) \in Nat /\ DOMAIN list = 1 .. Len(list)
    BY LenProperties DEF TypeOK
  <1>6. TypeOK'
    <2>1. pos' \in 0 .. Len(list)
      BY <1>4, <1>5, EmptySeq
    <2> QED
      BY <1>1, <1>3, <1>4, <2>1 DEF TypeOK
  <1>7. NodesFilled' /\ Lifetime'
    BY <1>1, <1>4 DEF NodesFilled, Lifetime, Filled, Loaded
  <1>8. OnNode' /\ Chosen'
    BY <1>2, <1>3, <1>4 DEF OnNode, Chosen, Walking, Analysed
  <1>9. Reaching'
    <2> SUFFICES ASSUME lmsg'.whole PROVE Reaching'
      BY DEF Reaching
    <2>1. Loaded
      BY <1>1, <1>3 DEF Loaded, Lifetime, TypeOK
    <2>2. Len(list) = NReg /\ \A i \in DOMAIN list : Filled(i)
      BY <2>1 DEF NodesFilled, Loaded
    <2>3. list # <<>>
      BY <2>2, EmptySeq, PtzLinkAssumption
    <2>4. \A c \in Handlers : 1 <= c
      BY PtzLinkAssumption DEF Handlers
    <2> QED
      BY <1>1, <1>2, <1>3, <1>4, <2>1, <2>2, <2>3, <2>4
      DEF Reaching, Walking, Filled, Loaded, Analysed
  <1> QED
    BY <1>6, <1>7, <1>8, <1>9

(* One step of the walk.  In a whole list the node with the number of the  *)
(* command matches and has a handler, so the walk does not go past it.     *)
LEMMA VisitLink ==
    ASSUME LinkInv, VisitId \/ VisitCbk \/ VisitNext \/ CallReturns
    PROVE  LinkInv'
  <1> USE DEF LinkInv
  <1>1. UNCHANGED <<mainpc, list, freed, bFlagInit, bFlagClose, mutex, lmsg, uSendIp,
                    userpc, owner, echo, q, stop_capture, stop_stream, campc>>
    BY DEF VisitId, VisitCbk, VisitNext, CallReturns, linkVars, sockVars, userVars, camVars
  <1>2. /\ Walking /\ pos \in 1 .. Len(list) /\ pos \in DOMAIN list
        /\ Len(list) \in Nat
        /\ lmsg.checked <=> lmsg.command # 0
    <2>1. Walking
      BY DEF Walking, VisitId, VisitCbk, VisitNext, CallReturns
    <2>2. list \in Seq(Nodes) /\ pos \in 0 .. Len(list)
      BY DEF TypeOK
    <2> QED
      BY <2>1, <2>2, LenProperties DEF OnNode
  <1>3. \/ udppc = "visit" /\ udppc' = "test" /\ pos' = pos /\ Matches(list[pos])
        \/ udppc = "visit" /\ udppc' = "next" /\ pos' = pos /\ ~Matches(list[pos])
        \/ udppc = "test" /\ udppc' = "call" /\ pos' = pos
        \/ udppc = "test" /\ udppc' = "next" /\ pos' = pos /\ ~HasHandler(list[pos])
        \/ udppc = "next" /\ udppc' = "visit" /\ pos' = pos + 1 /\ pos < Len(list)
        \/ udppc = "next" /\ udppc' = "handled" /\ pos' = 0 /\ ~(pos < Len(list))
        \/ udppc = "call" /\ udppc' = "handled" /\ pos' = pos
    BY DEF VisitId, VisitCbk, VisitNext, CallReturns
  <1>4. TypeOK'
    <2>1. pos' \in 0 .. Len(list)
      BY <1>2, <1>3
    <2> QED
      BY <1>1, <1>3, <2>1 DEF TypeOK
  <1>5. NodesFilled' /\ Lifetime'
    BY <1>1, <1>2, <1>3 DEF NodesFilled, Lifetime, Filled, Loaded, Walking
  <1>6. OnNode' /\ Chosen'
    BY <1>1, <1>2, <1>3 DEF OnNode, Chosen, Matches, Walking
  <1>7. Reaching'
    <2> SUFFICES ASSUME lmsg.whole PROVE Reaching'
      BY <1>1 DEF Reaching
    <2>1. /\ mainpc \notin {"init", "append", "fill"}
          /\ Len(list) = NReg /\ \A i \in DOMAIN list : Filled(i)
      BY <1>2 DEF Reaching
    <2>2. ASSUME lmsg.checked, lmsg.command \in Handlers
          PROVE  /\ udppc' = "visit" => pos' <= lmsg.command
                 /\ udppc' = "next" => pos' < lmsg.command
                 /\ udppc' \in {"test", "call", "handled"} => pos' = lmsg.command
      <3>1. /\ udppc = "visit" => pos <= lmsg.command
            /\ udppc = "next" => pos < lmsg.command
            /\ udppc \in {"test", "call"} => pos = lmsg.command
        BY <1>2, <2>2 DEF Reaching
      <3>2. HasHandler(list[pos]) /\ (Matches(list[pos]) <=> pos = lmsg.command)
        BY <1>2, <2>1, <2>2, PtzLinkAssumption DEF Matches, HasHandler, Filled, Handlers
      <3>3. lmsg.command \in 1 .. NReg /\ NReg \in Nat
        BY <2>2, PtzLinkAssumption DEF Handlers
      <3> QED
        BY <1>2, <1>3, <2>1, <3>1, <3>2, <3>3
    <2> QED
      BY <1>1, <2>1, <2>2 DEF Reaching, Filled
  <1> QED
    BY <1>4, <1>5, <1>6, <1>7

(* The report is given back and the thread receives, or leaves its loop:   *)
(* there is no walk.                                                       *)
LEMMA IdleLink ==
    ASSUME LinkInv, UdpHandled \/ UdpLeave \/ UdpDown \/ UdpEnd
    PROVE  LinkInv'
  <1> USE DEF LinkInv
  <1>1. /\ UNCHANGED <<mainpc, list, freed, bFlagClose, userpc, owner, echo, q, stop_capture,
                       stop_stream, campc>>
        /\ bFlagInit' \in BOOLEAN /\ mutex' \in {"none", "ok", "destroyed"}
        /\ udppc \in {"handled", "loop", "closed", "down"}
        /\ udppc' \in {"loop", "closed", "down", "done"}
        /\ uSendIp' \in {"all", "subnet"}
    BY DEF UdpHandled, UdpLeave, UdpDown, UdpEnd, TypeOK, linkVars, sockVars, userVars, camVars
  <1>2. pos' = 0
    BY DEF UdpHandled, UdpLeave, UdpDown, UdpEnd, OnNode, Walking
  <1>3. lmsg' \in Reports
    <2>1. NoReport \in Reports /\ lmsg \in Reports
      BY PtzLinkAssumption DEF NoReport, Reports, TypeOK
    <2> QED
      BY <2>1 DEF UdpHandled, UdpLeave, UdpDown, UdpEnd
  <1>4. TypeOK'
    <2>1. pos' \in 0 .. Len(list)
      BY <1>2, LenProperties DEF TypeOK
    <2> QED
      BY <1>1, <1>3, <2>1 DEF TypeOK
  <1>5. NodesFilled' /\ Lifetime'
    BY <1>1 DEF NodesFilled, Lifetime, Filled, Loaded
  <1>6. OnNode' /\ Reaching' /\ Chosen'
    BY <1>1, <1>2 DEF OnNode, Reaching, Chosen, Walking
  <1> QED
    BY <1>4, <1>5, <1>6

(* A handler that copies from a body the report does not have ends the     *)
(* process.                                                                *)
LEMMA FaultLink ==
    ASSUME LinkInv, CallFaults
    PROVE  LinkInv'
  <1> USE DEF LinkInv
  <1>1. /\ UNCHANGED <<list, freed, udppc, lmsg, pos>> /\ udppc = "call"
        /\ mainpc' = "exited" /\ TypeOK'
    BY DEF CallFaults, TypeOK, linkVars, sockVars, udpVars, userVars, camVars
  <1>2. mainpc \notin {"released", "init"}
    BY <1>1 DEF Lifetime
  <1> QED
    BY <1>1, <1>2, AsideLink

(* LinkInv is inductive.                                                   *)
LEMMA StepLink == LinkInv /\ [Next]_vars => LinkInv'
  <1> SUFFICES ASSUME LinkInv, [Next]_vars PROVE LinkInv'
    OBVIOUS
  <1>1. CASE UNCHANGED vars
    <2>1. UNCHANGED <<mainpc, list, freed, udppc, lmsg, pos>> /\ TypeOK'
      BY <1>1 DEF vars, linkVars, sockVars, udpVars, userVars, camVars, LinkInv, TypeOK
    <2> QED
      BY <2>1, AsideLink
  <1>2. CASE Main
    BY <1>2, BeginLink, AppendLink, FillLink, StreamLink, UninitLink DEF Main
  <1>3. CASE Udp /\ mainpc # "exited"
    BY <1>3, ReceiveLink, VisitLink, FaultLink, IdleLink DEF Udp
  <1>4. CASE Camera \/ \E u \in Users : User(u)
    BY <1>4, CameraLink, UserLink
  <1> QED
    BY <1>1, <1>2, <1>3, <1>4 DEF Next

-----------------------------------------------------------------------------
(* Types.  In particular the picture queue of ptz_app.cpp never holds more *)
(* than one picture over its limit, however slow its reader.               *)
THEOREM LinkTypes == Spec => []TypeOK
  <1>1. LinkInv => TypeOK
    BY DEF LinkInv
  <1> QED
    BY <1>1, InitLink, StepLink, PTL DEF Spec

(* The walk of eth_protocol_handler never stands on a freed node, and a    *)
(* checked report of a command with a handler reaches it, once every       *)
(* handler is registered.                                                  *)
THEOREM LinkWalkSound == Spec => []WalkSound
  <1>1. LinkInv => WalkSound
    <2> SUFFICES ASSUME LinkInv PROVE WalkSound
      OBVIOUS
    <2> USE DEF LinkInv
    <2>1. Walking => ~freed
      BY DEF Walking, Lifetime
    <2>2. ASSUME udppc = "handled", lmsg.whole, lmsg.checked, lmsg.command \in Handlers
          PROVE  pos # 0 /\ Matches(list[pos]) /\ HasHandler(list[pos])
      <3>1. pos = lmsg.command /\ Len(list) = NReg /\ \A i \in DOMAIN list : Filled(i)
        BY <2>2 DEF Reaching
      <3>2. pos \in 1 .. NReg /\ DOMAIN list = 1 .. Len(list)
        BY <2>2, <3>1, LenProperties DEF Handlers, TypeOK
      <3> QED
        BY <3>1, <3>2, PtzLinkAssumption DEF Matches, HasHandler, Filled
    <2> QED
      BY <2>1, <2>2 DEF WalkSound, Walking
  <1> QED
    BY <1>1, InitLink, StepLink, PTL DEF Spec

(* A handler is called only on a checked report of its own command, or on  *)
(* an empty report whose walk of eth_protocol_handler began before every   *)
(* handler was registered.                                                 *)
THEOREM LinkDispatchSound == Spec => DispatchSound
  <1>1. LinkInv /\ [Next]_vars =>
            [udppc = "test" /\ udppc' = "call" =>
                \/ lmsg.checked /\ lmsg.command = list[pos].cbk
                \/ lmsg.command = 0 /\ ~lmsg.whole]_vars
    <2> SUFFICES ASSUME LinkInv, Next, udppc = "test", udppc' = "call",
                        ~(lmsg.command = 0 /\ ~lmsg.whole)
                 PROVE  lmsg.checked /\ lmsg.command = list[pos].cbk
      OBVIOUS
    <2>1. list[pos].cbk # NULL /\ mainpc # "exited"
      <3>1. mainpc # "exited" /\ (Main \/ Udp \/ Camera \/ \E u \in Users : User(u))
        BY DEF Next
      <3>2. CASE Udp
        BY <3>1, <3>2 DEF Udp, UdpRecv, UdpRecvFails, VisitId, VisitCbk, HasHandler, VisitNext,
              CallReturns, CallFaults, UdpHandled, UdpLeave, UdpDown, UdpEnd, Handle
      <3>3. CASE Main
        BY <3>3 DEF Main, eth_link_ptz_init, RegisterAppend, RegisterFill, ptz_thread_load,
              StopCapture, StopStream, JoinStream, eth_link_ptz_uninit, udpVars
      <3>4. CASE Camera \/ \E u \in Users : User(u)
        BY <3>4 DEF Camera, CamStart, CamOpen, CamRead, CamStopRead, CamAgain, User,
              SendCheck, SendLock, SendTo, capture_ptz_vstream_pic, udpVars
      <3> QED
        BY <3>1, <3>2, <3>3, <3>4
    <2>2. /\ pos \in 1 .. Len(list) /\ Len(list) \in Nat /\ pos \in DOMAIN list
          /\ lmsg.checked <=> lmsg.command # 0
          /\ list[pos].msg_id = lmsg.command
      BY LenProperties DEF LinkInv, TypeOK, OnNode, Chosen, Walking
    (* Either the node is filled, or it is the one main is filling in.     *)
    <2>3. Filled(pos) \/ list[pos] \in [msg_id : {0, pos}, cbk : {NULL, pos}]
      <3>1. pos < Len(list) \/ pos = Len(list)
        BY <2>2
      <3> QED
        BY <2>1, <2>2, <3>1 DEF LinkInv, NodesFilled
    <2>4. list[pos].cbk = pos /\ (list[pos].msg_id = 0 \/ list[pos].msg_id = pos)
      BY <2>1, <2>3 DEF Filled
    <2>5. lmsg.command # 0
      <3>1. ASSUME lmsg.whole PROVE list[pos].msg_id = pos
        BY <2>2, <3>1 DEF LinkInv, Reaching, Walking, Filled
      <3> QED
        BY <2>2, <3>1 DEF LinkInv, TypeOK, Reports
    <2> QED
      BY <2>2, <2>4, <2>5
  <1> QED
    BY <1>1, InitLink, StepLink, PTL DEF Spec, DispatchSound
=============================================================================
