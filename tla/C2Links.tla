------------------------------ MODULE C2Links ------------------------------
(***************************************************************************)
(* The TCP links to the C2 stations and what is uploaded over them:        *)
(* srv/eth_link/eth_link.c with socket/tcp_client.c, app/c2_network and    *)
(* srv/alink/upload.                                                       *)
(*                                                                         *)
(* c2_network_init opens a link to the default C2 address, which retries   *)
(* for ever.  A C2 that sends a connect request gets a link as well, which *)
(* ends after Retries failed attempts in a row.  Every link subscribes to  *)
(* the heartbeat and to the target information; the heartbeat thread and   *)
(* the algorithm thread upload to the subscribers of one package each,     *)
(* from one shared buffer under sUpload.mutex.                             *)
(*                                                                         *)
(* The list of links has no lock: main and the UDP thread search it,       *)
(* create an entry and link it, while threads of links unlink theirs.  An  *)
(* entry is a heap block, here a slot.                                     *)
(***************************************************************************)
EXTENDS Integers, Sequences, FiniteSets

CONSTANTS
    Slots,      (* heap blocks for links                                   *)
    Peers,      (* addresses, records with fields ip and port              *)
    Default,    (* DEFAULT_AGX_ACCESS_IP, DEFAULT_AGX_ACCESS_PORT          *)
    Reachable,  (* addresses at which somebody may accept a connection     *)
    Max,        (* links of a type: 10                                     *)
    Retries,    (* wConnectTime of a requested link: 5                     *)
    Uploaders,  (* threads that upload; each its own package               *)
    SeqMod,     (* byReq is one byte: 256                                  *)
    CanFail,    (* whether socket or pthread_create may fail               *)
    NULL

ASSUME LinksAssumption ==
    /\ Default \in Peers /\ Reachable \subseteq Peers
    /\ NULL \notin Slots /\ NULL \notin Peers /\ NULL \notin Uploaders
    /\ Max \in Nat \ {0} /\ Retries \in Nat \ {0} /\ SeqMod \in Nat \ {0, 1}
    /\ CanFail \in BOOLEAN

Packages == {"heartbeat", "target"}      \* 0xD0 and 0x80
Adders == {"main", "udp"}                \* threads that add links

VARIABLES
    typed,    (* psEthList is set                                          *)
    add,      (* eth_link_add_tcp_client_list of each adder                *)
    list,     (* psEthList->list: the slots met by following psNext        *)
    pc,       (* tcp_client_task of each slot                              *)
    peer,     (* sCfg.uRemoteIp and wRemotePort                            *)
    timed,    (* wConnectTime # 0                                          *)
    count,    (* uConnectCount                                             *)
    network,  (* the c2_network_t of the link is allocated                 *)
    hasCbk,   (* psUserCbk is set                                          *)
    rooted,   (* psRoot is set                                             *)
    subs,     (* psSendList of each package                                *)
    up,       (* alink_upload_send_package of each uploader                *)
    lock,     (* holder of sUpload.mutex among the uploaders, or NULL      *)
    buf,      (* abyUploadBuffer: package and sequence number              *)
    byReq,    (* sUpload.byReq                                             *)
    crashed   (* a null psRoot or a freed link was followed                *)

entryVars  == <<peer, timed, hasCbk, rooted>>
uploadVars == <<up, lock, buf, byReq>>
vars == <<typed, add, list, pc, count, network, subs, entryVars, uploadVars,
          crashed>>

Idle == [pc |-> "idle", peer |-> NULL, tail |-> NULL, slot |-> NULL]
NoUpload == [pc |-> "idle", todo |-> <<>>, seq |-> 0]
Listed == {list[i] : i \in DOMAIN list}

Init ==
    /\ typed = FALSE
    /\ add = [t \in Adders |-> Idle]
    /\ list = <<>>
    /\ pc = [s \in Slots |-> "free"]
    /\ peer = [s \in Slots |-> NULL]
    /\ timed = [s \in Slots |-> FALSE]
    /\ count = [s \in Slots |-> 0]
    /\ network = [s \in Slots |-> FALSE]
    /\ hasCbk = [s \in Slots |-> FALSE]
    /\ rooted = [s \in Slots |-> FALSE]
    /\ subs = [p \in Packages |-> <<>>]
    /\ up = [u \in Uploaders |-> NoUpload]
    /\ lock = NULL /\ buf = NULL /\ byReq = 0
    /\ crashed = FALSE

(***************************************************************************)
(* eth_link_add_tcp_client_list.  The search stops at a link to the same   *)
(* peer or at the last entry, whose ip and port must BOTH differ.          *)
(***************************************************************************)
(* Mutated: one free place too many.                                       *)
MayAdd_OffByOne(a) ==
    list # <<>> =>
       /\ \A i \in DOMAIN list : peer[list[i]] # a
       /\ peer[list[Len(list)]].ip # a.ip /\ peer[list[Len(list)]].port # a.port
       /\ Max >= Len(list)

(* Mutated: the loop ends before the last entry and nothing looks at that. *)
MayAdd_SkipsLast(a) ==
    list # <<>> =>
       /\ \A i \in 1..(Len(list) - 1) : peer[list[i]] # a
       /\ Max > Len(list)

MayAdd(a) ==
    list # <<>> =>
       /\ \A i \in DOMAIN list : peer[list[i]] # a
       /\ peer[list[Len(list)]].ip # a.ip /\ peer[list[Len(list)]].port # a.port
       /\ Max > Len(list)

Search(t, a) ==
    /\ add[t].pc = "idle" /\ MayAdd(a)
    /\ add' = [add EXCEPT ![t] =
           [pc |-> "create", peer |-> a, slot |-> NULL,
            tail |-> IF list = <<>> THEN NULL ELSE list[Len(list)]]]

(* c2_network_init: psEthList is visible to the UDP thread, which runs     *)
(* since eth_link_init, before the default link is added.                  *)
eth_link_add_type ==
    /\ ~typed
    /\ typed' = TRUE
    /\ UNCHANGED <<add, list, pc, count, network, subs, entryVars, uploadVars,
                   crashed>>

DefaultAdded == add["main"].pc = "done"

AddDefault ==
    /\ typed
    /\ \/ Search("main", Default)
       \/ /\ add["main"].pc = "idle" /\ ~MayAdd(Default)
          /\ add' = [add EXCEPT !["main"].pc = "done"]
    /\ UNCHANGED <<typed, list, pc, count, network, subs, entryVars, uploadVars,
                   crashed>>

(* eth_protocol_cntinfo_handler for a connect request naming address a.    *)
eth_protocol_cntinfo_handler(a) ==
    /\ typed
    /\ Search("udp", a)
    /\ UNCHANGED <<typed, list, pc, count, network, subs, entryVars, uploadVars,
                   crashed>>

Finish(t) == IF t = "main" THEN [Idle EXCEPT !.pc = "done"] ELSE Idle

(* tcp_client_create: from here the thread of the link runs.               *)
CreateLink(t) ==
    /\ add[t].pc = "create"
    /\ \E s \in Slots :
          /\ pc[s] = "free"
          /\ pc' = [pc EXCEPT ![s] = "connect"]
          /\ peer' = [peer EXCEPT ![s] = add[t].peer]
          /\ timed' = [timed EXCEPT ![s] = (t = "udp")]
          /\ add' = [add EXCEPT ![t].pc = "heartbeat", ![t].slot = s]
    /\ UNCHANGED <<typed, list, count, network, subs, hasCbk, rooted, uploadVars,
                   crashed>>

(* It failed: the pointer to the next entry, or the list, is set to NULL.  *)
CreateFails(t) ==
    /\ add[t].pc = "create" /\ CanFail
    /\ add' = [add EXCEPT ![t] = Finish(t)]
    /\ list' = IF add[t].tail = NULL THEN <<>>
               ELSE IF add[t].tail \in Listed
               THEN SubSeq(list, 1, CHOOSE i \in DOMAIN list : list[i] = add[t].tail)
               ELSE list
    /\ UNCHANGED <<typed, pc, count, network, subs, entryVars, uploadVars, crashed>>

(* c2_network_create: alink_package_connect_send to one package after the  *)
(* other, each under sUpload.mutex, at the end of the list.                *)
alink_package_connect_send(p, s) ==
    /\ lock = NULL
    /\ subs' = [subs EXCEPT ![p] = Append(@, s)]

SubscribeHeartbeat(t) ==
    /\ add[t].pc = "heartbeat"
    /\ alink_package_connect_send("heartbeat", add[t].slot)
    /\ network' = [network EXCEPT ![add[t].slot] = TRUE]
    /\ add' = [add EXCEPT ![t].pc = "target"]
    /\ UNCHANGED <<typed, list, pc, count, entryVars, uploadVars, crashed>>

SubscribeTarget(t) ==
    /\ add[t].pc = "target"
    /\ alink_package_connect_send("target", add[t].slot)
    /\ hasCbk' = [hasCbk EXCEPT ![add[t].slot] = TRUE]
    /\ add' = [add EXCEPT ![t].pc = "link"]
    /\ UNCHANGED <<typed, list, pc, count, network, peer, timed, rooted,
                   uploadVars, crashed>>

(* The entry is linked behind the tail the search found.  When that entry  *)
(* has left the list meanwhile, the pointer is written where nobody reads  *)
(* it; when another entry was linked there meanwhile, it is overwritten.   *)
LinkEntry(t) ==
    /\ add[t].pc = "link"
    /\ list' = IF add[t].tail = NULL THEN <<add[t].slot>>
               ELSE IF add[t].tail \in Listed
               THEN Append(SubSeq(list, 1, CHOOSE i \in DOMAIN list :
                                                list[i] = add[t].tail),
                           add[t].slot)
               ELSE list
    /\ rooted' = [rooted EXCEPT ![add[t].slot] = TRUE]
    /\ add' = [add EXCEPT ![t] = Finish(t)]
    /\ UNCHANGED <<typed, pc, count, network, subs, peer, timed, hasCbk,
                   uploadVars, crashed>>

(***************************************************************************)
(* tcp_client_task.  Nothing in the program calls tcp_client_close, so the *)
(* thread ends only by Retries failures in a row.                          *)
(***************************************************************************)
Connect(s) ==
    /\ pc[s] = "connect" /\ peer[s] \in Reachable
    /\ pc' = [pc EXCEPT ![s] = "conn"]
    /\ count' = [count EXCEPT ![s] = 0]
    /\ UNCHANGED <<typed, add, list, network, subs, entryVars, uploadVars, crashed>>

Disconnect(s) ==
    /\ pc[s] = "conn"
    /\ pc' = [pc EXCEPT ![s] = "connect"]
    /\ UNCHANGED <<typed, add, list, count, network, subs, entryVars, uploadVars,
                   crashed>>

(* Mutated: the failures of no link are counted.                           *)
Counted_Never(s) == FALSE

Counted(s) == timed[s]

(* Mutated: the count is compared before it is increased.                  *)
ConnectFails_ComparesFirst(s) ==
    /\ pc[s] = "connect" /\ Counted(s)
    /\ \/ /\ Retries <= count[s]
          /\ pc' = [pc EXCEPT ![s] = "delete"]
          /\ count' = [count EXCEPT ![s] = 0]
       \/ /\ Retries > count[s]
          /\ count' = [count EXCEPT ![s] = @ + 1]
          /\ UNCHANGED pc
    /\ UNCHANGED <<typed, add, list, network, subs, entryVars, uploadVars, crashed>>

ConnectFails(s) ==
    /\ pc[s] = "connect" /\ Counted(s)
    /\ \/ /\ Retries <= count[s] + 1
          /\ pc' = [pc EXCEPT ![s] = "delete"]
          /\ count' = [count EXCEPT ![s] = 0]
       \/ /\ Retries > count[s] + 1
          /\ count' = [count EXCEPT ![s] = @ + 1]
          /\ UNCHANGED pc
    /\ UNCHANGED <<typed, add, list, network, subs, entryVars, uploadVars, crashed>>

(***************************************************************************)
(* eth_link_socket_cbk_delete: c2_network_cbk_delete if psUserCbk is set,  *)
(* then eth_link_del_tcp_client_list.  Removing the first subscriber of a  *)
(* package empties its list.                                               *)
(***************************************************************************)
IndexIn(q, s) == CHOOSE i \in DOMAIN q : q[i] = s
In(q, s) == \E i \in DOMAIN q : q[i] = s

(* Mutated: the subscribers behind the removed one are lost.               *)
Unsubscribed_CutsTail(q, s) ==
    IF ~In(q, s) THEN q ELSE SubSeq(q, 1, IndexIn(q, s) - 1)

(* Mutated: the last subscriber is never compared.                         *)
Unsubscribed_SkipsLast(q, s) ==
    IF ~In(q, s) \/ q[Len(q)] = s THEN q
    ELSE IF q[1] = s THEN <<>>
    ELSE SubSeq(q, 1, IndexIn(q, s) - 1) \o SubSeq(q, IndexIn(q, s) + 1, Len(q))

Unsubscribed(q, s) ==
    IF ~In(q, s) THEN q
    ELSE IF q[1] = s THEN <<>>
    ELSE SubSeq(q, 1, IndexIn(q, s) - 1) \o SubSeq(q, IndexIn(q, s) + 1, Len(q))

(* The thread gave up before its creator set psUserCbk: no callback.       *)
SkipCallback(s) ==
    /\ pc[s] = "delete" /\ ~hasCbk[s]
    /\ pc' = [pc EXCEPT ![s] = "unlink"]
    /\ UNCHANGED <<typed, add, list, count, network, subs, entryVars, uploadVars,
                   crashed>>

UnsubscribeHeartbeat(s) ==
    /\ pc[s] = "delete" /\ hasCbk[s] /\ lock = NULL
    /\ subs' = [subs EXCEPT !["heartbeat"] = Unsubscribed(@, s)]
    /\ pc' = [pc EXCEPT ![s] = "delete2"]
    /\ UNCHANGED <<typed, add, list, count, network, entryVars, uploadVars, crashed>>

UnsubscribeTarget(s) ==
    /\ pc[s] = "delete2" /\ lock = NULL
    /\ subs' = [subs EXCEPT !["target"] = Unsubscribed(@, s)]
    /\ network' = [network EXCEPT ![s] = FALSE]
    /\ pc' = [pc EXCEPT ![s] = "unlink"]
    /\ UNCHANGED <<typed, add, list, count, entryVars, uploadVars, crashed>>

(* psLast stays on the head: the entries between it and s are cut off too. *)
Unlinked(s) ==
    IF ~In(list, s) THEN list
    ELSE IF list[1] = s THEN Tail(list)
    ELSE <<list[1]>> \o SubSeq(list, IndexIn(list, s) + 1, Len(list))

(* A link whose callback was skipped leaves its c2_network_t behind, with  *)
(* the nodes subscribed: it is "lost", and its block is not used again     *)
(* (the allocator might).                                                  *)
eth_link_del_tcp_client_list(s) ==
    /\ pc[s] = "unlink" /\ rooted[s]
    /\ list' = Unlinked(s)
    /\ pc' = [pc EXCEPT ![s] = IF network[s] THEN "lost" ELSE "free"]
    /\ peer' = [peer EXCEPT ![s] = NULL]
    /\ timed' = [timed EXCEPT ![s] = FALSE]
    /\ hasCbk' = [hasCbk EXCEPT ![s] = FALSE]
    /\ rooted' = [rooted EXCEPT ![s] = FALSE]
    /\ UNCHANGED <<typed, add, count, network, subs, uploadVars, crashed>>

(* The thread gave up before its creator set psRoot.                       *)
NullRoot(s) ==
    /\ pc[s] = "unlink" /\ ~rooted[s]
    /\ crashed' = TRUE
    /\ UNCHANGED <<typed, add, list, pc, count, network, subs, entryVars, uploadVars>>

(***************************************************************************)
(* alink_upload_send_package by thread u, whose package is Package(u).     *)
(* The first look at the subscribers is without the lock.                  *)
(***************************************************************************)
Package(u) == IF u = "heartbeat" THEN "heartbeat" ELSE "target"

UploadCheck(u) ==
    /\ up[u].pc = "idle" /\ subs[Package(u)] # <<>>
    /\ up' = [up EXCEPT ![u].pc = "lock"]
    /\ UNCHANGED <<typed, add, list, pc, count, network, subs, entryVars, lock,
                   buf, byReq, crashed>>

(* Mutated: the mutex is not taken.                                        *)
MayUpload_Unlocked == TRUE

MayUpload == lock = NULL

UploadFill(u) ==
    /\ up[u].pc = "lock" /\ MayUpload
    /\ lock' = u
    /\ buf' = [package |-> Package(u), seq |-> byReq]
    /\ up' = [up EXCEPT ![u] =
                 [pc |-> "send", todo |-> subs[Package(u)], seq |-> byReq]]
    /\ byReq' = (byReq + 1) % SeqMod
    /\ UNCHANGED <<typed, add, list, pc, count, network, subs, entryVars, crashed>>

(* To one subscriber after the other; a link that is down takes nothing.   *)
UploadSend(u) ==
    /\ up[u].pc = "send" /\ up[u].todo # <<>>
    /\ up' = [up EXCEPT ![u].todo = Tail(@)]
    /\ UNCHANGED <<typed, add, list, pc, count, network, subs, entryVars, lock,
                   buf, byReq, crashed>>

(* The handle of the subscriber is the eth_link_user_t in a freed link,    *)
(* and the function pointer read from it leads anywhere.                   *)
UploadFaults(u) ==
    /\ up[u].pc = "send" /\ up[u].todo # <<>> /\ pc[Head(up[u].todo)] = "lost"
    /\ crashed' = TRUE
    /\ UNCHANGED <<typed, add, list, pc, count, network, subs, entryVars, uploadVars>>

UploadDone(u) ==
    /\ up[u].pc = "send" /\ up[u].todo = <<>>
    /\ lock' = NULL /\ buf' = NULL         \* nobody reads what is left in it
    /\ up' = [up EXCEPT ![u] = NoUpload]
    /\ UNCHANGED <<typed, add, list, pc, count, network, subs, entryVars, byReq,
                   crashed>>

Add(t) == \/ CreateLink(t) \/ CreateFails(t) \/ SubscribeHeartbeat(t)
          \/ SubscribeTarget(t) \/ LinkEntry(t)
GiveUp(s) == \/ ConnectFails(s) \/ SkipCallback(s) \/ UnsubscribeHeartbeat(s)
             \/ UnsubscribeTarget(s) \/ eth_link_del_tcp_client_list(s) \/ NullRoot(s)
Client(s) == Connect(s) \/ Disconnect(s) \/ GiveUp(s)
Upload(u) == \/ UploadCheck(u) \/ UploadFill(u) \/ UploadSend(u) \/ UploadFaults(u)
             \/ UploadDone(u)

Next ==
    /\ ~crashed
    /\ \/ eth_link_add_type \/ AddDefault
       \/ \E a \in Peers : eth_protocol_cntinfo_handler(a)
       \/ \E t \in Adders : Add(t)
       \/ \E s \in Slots : Client(s)
       \/ \E u \in Uploaders : Upload(u)

Spec == Init /\ [][Next]_vars
-----------------------------------------------------------------------------
(***************************************************************************)
(* Properties.                                                             *)
(***************************************************************************)

(* Types of the variables.                                                 *)
TypeOK ==
    /\ typed \in BOOLEAN /\ crashed \in BOOLEAN
    /\ add \in [Adders -> [pc : {"idle", "create", "heartbeat", "target", "link", "done"},
                           peer : Peers \cup {NULL}, tail : Slots \cup {NULL},
                           slot : Slots \cup {NULL}]]
    /\ list \in Seq(Slots)
    /\ pc \in [Slots -> {"free", "lost", "connect", "conn", "delete", "delete2",
                      "unlink"}]
    /\ peer \in [Slots -> Peers \cup {NULL}]
    /\ timed \in [Slots -> BOOLEAN]
    /\ count \in [Slots -> 0..(Retries - 1)]
    /\ network \in [Slots -> BOOLEAN] /\ hasCbk \in [Slots -> BOOLEAN]
    /\ rooted \in [Slots -> BOOLEAN]
    /\ subs \in [Packages -> Seq(Slots)]
    /\ up \in [Uploaders -> [pc : {"idle", "lock", "send"}, todo : Seq(Slots),
                             seq : 0..(SeqMod - 1)]]
    /\ lock \in Uploaders \cup {NULL}
    /\ buf \in [package : Packages, seq : 0..(SeqMod - 1)] \cup {NULL}
    /\ byReq \in 0..(SeqMod - 1)

(* An upload walks the subscribers while links come and go: every node it  *)
(* meets belongs to a network that is not freed, now and until it unlocks, *)
(* and leads to a link that is not freed either, with one exception: a     *)
(* link that gave up before its creator set psUserCbk leaves its nodes     *)
(* behind when it is freed (pc "lost").                                    *)
NoFreedSubscriber ==
    /\ \A p \in Packages, s \in Slots : In(subs[p], s) => network[s] /\ pc[s] # "free"
    /\ \A u \in Uploaders, s \in Slots :
          In(up[u].todo, s) => network[s] /\ pc[s] # "free"

(* Removing the first subscriber of a package empties its list, which cuts *)
(* off the links that stay.  This happens only while the first subscriber  *)
(* is a requested link: behind the default link, which never gives up, a   *)
(* subscriber is lost by its own end alone.                                *)
OnlyRequestedCutsOff ==
    [][\A p \in Packages, s \in Slots :
          In(subs[p], s) /\ ~In(subs'[p], s) =>
              pc[s] \in {"delete", "delete2"} \/ timed[Head(subs[p])]]_vars

(* Two threads build their packages in one buffer: between filling it and  *)
(* the last send, it holds the sender's package and sequence number.       *)
BufferOwned ==
    \A u \in Uploaders :
        up[u].pc = "send" => buf = [package |-> Package(u), seq |-> up[u].seq]

(* Two requested links in the list never go to the same peer, although the *)
(* search for the peer and the step that links the new entry are apart.  A *)
(* link that was cut off from the list is not seen by the search, and not  *)
(* meant here: its peer may be given a second link.                        *)
(* (The default link may be doubled: main and the UDP thread can search    *)
(* the list at the same time.)                                             *)
RequestedDistinct ==
    \A i, j \in DOMAIN list :
        /\ timed[list[i]] /\ timed[list[j]]
        /\ peer[list[i]] = peer[list[j]]
        => i = j

(* The list never holds more than max requested links, although the entry  *)
(* that was counted as the last may be gone when the new one is linked.    *)
LinkBound == Cardinality({s \in Listed : timed[s]}) <= Max

(***************************************************************************)
(* Liveness: threads run and get the mutex when it is free again and       *)
(* again; peers do as they please, except that attempts end.               *)
(***************************************************************************)
FairSpec ==
    /\ Spec
    /\ \A s \in Slots : SF_vars(~crashed /\ GiveUp(s))
    /\ \A t \in Adders : SF_vars(~crashed /\ Add(t))
    /\ \A u \in Uploaders : WF_vars(~crashed /\ Upload(u))

(* A requested link whose peer cannot be reached is given up, and its      *)
(* block is freed.                                                         *)
UnreachableGivenUp ==
    \A s \in Slots :
        pc[s] = "connect" /\ timed[s] ~> crashed \/ pc[s] \in {"conn", "free", "lost"}
=============================================================================
