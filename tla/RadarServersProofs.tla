------------------------ MODULE RadarServersProofs -------------------------
(***************************************************************************)
(* Proofs about the radar servers, for any number of entries, radars and   *)
(* connections, any ports and any timeout, with and without failures.      *)
(*                                                                         *)
(* ServersInv is the conjunction of the properties with what they need     *)
(* between two steps of a registration: the entry that is being created is *)
(* allocated, unfilled and hence not listed (Creating); the search that    *)
(* went before is still true when the entry is linked (Filling), because   *)
(* the mutex keeps the list as it is; and the server made for anyone is    *)
(* alone in the list until a radar takes it over (InitAlone).              *)
(***************************************************************************)
EXTENDS RadarServers, SequenceTheorems, FiniteSetTheorems, WellFoundedInduction, TLAPS

(* Where the other threads are while main starts.                          *)
Starting ==
    /\ mainpc \in {"boot", "register"} => list = <<>>
    /\ mainpc \in {"boot", "register", "registered"} => udppc = "none"

Allocated == \A s \in Slots : filled[s] => pc[s] # "free"

Creating ==
    /\ mainpc = "register" \/ udppc = "fill" =>
          creating \in Slots /\ pc[creating] # "free" /\ ~filled[creating]
    /\ mainpc = "register" => port[creating] = BasePort

Filling ==
    udppc = "fill" =>
        /\ reg \in Sns /\ Len(list) < MaxConn /\ port[creating] = cur_con
        /\ \A i \in DOMAIN list :
              /\ sn[list[i]] # reg /\ sn[list[i]] # InitSn
              /\ port[list[i]] # cur_con

InitAlone ==
    \A i \in DOMAIN list : sn[list[i]] = InitSn => Len(list) = 1 /\ port[list[i]] = cur_con

ServersInv ==
    /\ TypeOK /\ Starting /\ Allocated /\ Creating /\ Filling /\ InitAlone
    /\ ListSound /\ ListBound /\ PortsDistinct /\ SnDistinct /\ AnnouncedPort

-----------------------------------------------------------------------------
(* A set of numbers has a least one.                                       *)
LEMMA LeastNumber ==
    ASSUME NEW T \in SUBSET Nat, T # {}
    PROVE  \E m \in T : \A n \in T : m <= n
  <1>1. PICK m \in T : \A n \in T : ~(<<n, m>> \in OpToRel(<, Nat))
    BY NatLessThanWellFounded, WFMin
  <1>2. ASSUME NEW n \in T PROVE m <= n
    <2>1. m \in Nat /\ n \in Nat
      OBVIOUS
    <2>2. ~(n < m)
      BY <1>1, <2>1 DEF OpToRel
    <2> QED
      BY <2>1, <2>2
  <1> QED
    BY <1>2

(* Fewer than k entries leave one of k ports unused.                       *)
LEMMA OneUnused ==
    ASSUME NEW n \in Nat, NEW b \in Nat, NEW k \in Nat, n < k, NEW f \in [1 .. n -> Nat]
    PROVE  \E p \in b .. b + k - 1 : \A i \in 1 .. n : f[i] # p
  <1> SUFFICES ASSUME \A p \in b .. b + k - 1 : \E i \in 1 .. n : f[i] = p
               PROVE  FALSE
    OBVIOUS
  <1> DEFINE g == [p \in b .. b + k - 1 |-> CHOOSE i \in 1 .. n : f[i] = p]
  <1>1. g \in [b .. b + k - 1 -> 1 .. n] /\ \A p \in b .. b + k - 1 : f[g[p]] = p
    OBVIOUS
  <1> HIDE DEF g
  <1>2. g \in Injection(b .. b + k - 1, 1 .. n)
    BY <1>1 DEF Injection, IsInjective
  <1>3. IsFiniteSet(1 .. n) /\ Cardinality(1 .. n) = n
    BY FS_Interval
  <1>4. Cardinality(b .. b + k - 1) = k
    BY FS_Interval
  <1>5. Cardinality(b .. b + k - 1) <= Cardinality(1 .. n)
    BY <1>2, <1>3, FS_Injection
  <1> QED
    BY <1>3, <1>4, <1>5

(* get_unused_port finds a port no listed server has, as it looks at more  *)
(* ports than there can be servers.                                        *)
LEMMA UnusedPort ==
    ASSUME TypeOK, Len(list) < MaxConn
    PROVE  get_unused_port \in Nat /\ ~PortUsed(get_unused_port)
  <1> DEFINE Found(p) == /\ ~PortUsed(p) \/ p = BasePort + Tries
                         /\ \A q \in BasePort .. (p - 1) : PortUsed(q)
  <1>1. BasePort \in Nat /\ Tries \in Nat /\ MaxConn \in Nat /\ Tries > MaxConn
    BY ServersAssumption
  <1>2. /\ list \in Seq(Slots) /\ DOMAIN list = 1 .. Len(list) /\ Len(list) \in Nat
        /\ \A i \in DOMAIN list : list[i] \in Slots /\ port[list[i]] \in Nat
    BY LenProperties, ElementOfSeq DEF TypeOK
  <1>3. PICK u \in BasePort .. BasePort + Tries - 1 : ~PortUsed(u)
    <2>1. [i \in 1 .. Len(list) |-> port[list[i]]] \in [1 .. Len(list) -> Nat]
      BY <1>2
    <2>2. Len(list) < Tries
      BY <1>1, <1>2
    <2>3. PICK u \in BasePort .. BasePort + Tries - 1 :
              \A i \in 1 .. Len(list) : [j \in 1 .. Len(list) |-> port[list[j]]][i] # u
      BY <1>1, <1>2, <2>1, <2>2, OneUnused
    <2> QED
      BY <1>2, <2>3 DEF PortUsed, Listed
  <1>4. \E p \in BasePort .. BasePort + Tries : Found(p)
    <2> DEFINE T == {p \in BasePort .. BasePort + Tries : ~PortUsed(p)}
    <2>1. u \in T /\ T \in SUBSET Nat
      BY <1>1, <1>3
    <2>2. PICK m \in T : \A n \in T : m <= n
      <3> HIDE DEF T
      <3> QED
        BY <2>1, LeastNumber
    <2>3. ASSUME NEW q \in BasePort .. (m - 1) PROVE PortUsed(q)
      BY <1>1, <2>2
    <2> QED
      BY <2>2, <2>3
  <1>5. get_unused_port \in BasePort .. BasePort + Tries /\ Found(get_unused_port)
    BY <1>4 DEF get_unused_port
  <1>6. get_unused_port # BasePort + Tries
    BY <1>1, <1>3, <1>5
  <1> QED
    BY <1>1, <1>5, <1>6

(* Deleting an entry takes entries out of the list, that one among them.   *)
LEMMA UnlinkedFacts ==
    ASSUME TypeOK, ListSound, NEW s \in Slots
    PROVE  /\ Unlinked(s) \in Seq(Slots) /\ Len(Unlinked(s)) <= Len(list)
           /\ \A i \in DOMAIN Unlinked(s) : \E k \in DOMAIN list :
                 Unlinked(s)[i] = list[k] /\ list[k] # s
           /\ \A i, j \in DOMAIN Unlinked(s) : Unlinked(s)[i] = Unlinked(s)[j] => i = j
  <1> DEFINE new == Unlinked(s)
  <1>1. /\ list \in Seq(Slots) /\ DOMAIN list = 1 .. Len(list) /\ Len(list) \in Nat
        /\ \A i \in DOMAIN list : list[i] \in Slots
        /\ \A i, j \in DOMAIN list : list[i] = list[j] => i = j
    BY LenProperties, ElementOfSeq DEF TypeOK, ListSound
  <1>2. CASE s \notin Listed
    BY <1>1, <1>2 DEF Unlinked, Listed
  <1>3. CASE s \in Listed /\ list[1] = s
    <2>1. new = Tail(list) /\ list # <<>>
      <3>1. DOMAIN list # {}
        BY <1>3 DEF Listed
      <3> QED
        BY <1>3, <3>1 DEF Unlinked
    <2> HIDE DEF new
    <2>2. /\ new \in Seq(Slots) /\ Len(new) = Len(list) - 1
          /\ \A i \in 1 .. Len(new) : new[i] = list[i + 1]
      BY <1>1, <2>1, HeadTailProperties
    <2>3. DOMAIN new = 1 .. Len(list) - 1 /\ 1 \in DOMAIN list
      BY <1>1, <2>1, <2>2, LenProperties, EmptySeq
    <2>4. \A i \in DOMAIN new : i + 1 \in DOMAIN list /\ new[i] = list[i + 1] /\ i + 1 # 1
      BY <1>1, <2>2, <2>3
    <2>5. /\ \A i \in DOMAIN new : \E k \in DOMAIN list : new[i] = list[k] /\ list[k] # s
          /\ \A i, j \in DOMAIN new : new[i] = new[j] => i = j
      BY <1>1, <1>3, <2>3, <2>4
    <2>6. Len(new) <= Len(list)
      BY <1>1, <2>2
    <2> QED
      BY <2>2, <2>5, <2>6 DEF new
  <1>4. CASE s \in Listed /\ list[1] # s
    <2>1. PICK d : d = Index(s)
      OBVIOUS
    <2>2. d \in DOMAIN list /\ list[d] = s
      BY <1>4, <2>1 DEF Index, Listed
    <2>3. d \in 2 .. Len(list) /\ 1 \in DOMAIN list
      BY <1>1, <1>4, <2>2
    <2>4. PICK t : t = SubSeq(list, d + 1, Len(list))
      OBVIOUS
    <2>5. /\ t \in Seq(Slots) /\ Len(t) = Len(list) - d
          /\ \A i \in 1 .. Len(list) - d : t[i] = list[d + i]
      <3>1. \A i \in d + 1 .. Len(list) : list[i] \in Slots
        BY <1>1, <2>3
      <3>2. /\ t \in Seq(Slots)
            /\ Len(t) = IF d + 1 <= Len(list) THEN Len(list) - (d + 1) + 1 ELSE 0
            /\ \A i \in 1 .. Len(list) - (d + 1) + 1 : t[i] = list[(d + 1) + i - 1]
        BY <1>1, <2>3, <2>4, <3>1, SubSeqProperties
      <3>3. Len(t) = Len(list) - d
        <4>1. \A m \in Nat : \A c \in 2 .. m :
                  (IF c + 1 <= m THEN m - (c + 1) + 1 ELSE 0) = m - c
          OBVIOUS
        <4> QED
          BY ONLY <1>1, <2>3, <3>2, <4>1
      <3>4. ASSUME NEW i \in 1 .. Len(list) - d PROVE t[i] = list[d + i]
        <4>1. i \in 1 .. Len(list) - (d + 1) + 1 /\ (d + 1) + i - 1 = d + i
          BY <1>1, <2>3
        <4> QED
          BY <3>2, <4>1
      <3> QED
        BY <3>2, <3>3, <3>4
    <2>6. new = <<list[1]>> \o t
      BY <1>4, <2>1, <2>4 DEF Unlinked
    <2> HIDE DEF new
    <2>7. /\ new \in Seq(Slots) /\ Len(new) = 1 + (Len(list) - d)
          /\ new[1] = list[1]
          /\ \A i \in 2 .. 1 + (Len(list) - d) : new[i] = list[d + i - 1]
      <3>1. <<list[1]>> \in Seq(Slots) /\ Len(<<list[1]>>) = 1 /\ <<list[1]>>[1] = list[1]
        BY <1>1, <2>3
      <3>2. /\ new \in Seq(Slots) /\ Len(new) = 1 + Len(t)
            /\ \A i \in 1 .. 1 + Len(t) :
                  new[i] = IF i <= 1 THEN <<list[1]>>[i] ELSE t[i - 1]
        BY <2>5, <2>6, <3>1, ConcatProperties
      <3>3. Len(t) = Len(list) - d /\ Len(t) \in Nat
        BY <1>1, <2>3, <2>5
      <3>4. new[1] = list[1]
        BY <3>1, <3>2, <3>3
      <3>5. ASSUME NEW i \in 2 .. 1 + (Len(list) - d) PROVE new[i] = list[d + i - 1]
        <4>1. /\ i \in 1 .. 1 + Len(t) /\ ~(i <= 1) /\ i - 1 \in 1 .. Len(list) - d
              /\ d + (i - 1) = d + i - 1
          BY <1>1, <2>3, <3>3
        <4> QED
          BY <2>5, <3>2, <4>1
      <3> QED
        BY <3>2, <3>3, <3>4, <3>5
    <2>8. /\ DOMAIN new = 1 .. 1 + (Len(list) - d) /\ Len(new) <= Len(list)
          /\ \A i \in DOMAIN new : i # 1 =>
                d + i - 1 \in DOMAIN list /\ new[i] = list[d + i - 1] /\ d + i - 1 > d
      <3>1. Len(new) <= Len(list)
        BY <1>1, <2>3, <2>7
      <3>2. DOMAIN new = 1 .. 1 + (Len(list) - d)
        BY <2>7, LenProperties
      <3>3. ASSUME NEW i \in DOMAIN new, i # 1
            PROVE  d + i - 1 \in DOMAIN list /\ new[i] = list[d + i - 1] /\ d + i - 1 > d
        <4>1. i \in 2 .. 1 + (Len(list) - d)
          BY <1>1, <2>3, <3>2, <3>3
        <4>2. d + i - 1 \in DOMAIN list /\ d + i - 1 > d
          BY <1>1, <2>3, <4>1
        <4> QED
          BY <2>7, <4>1, <4>2
      <3> QED
        BY <3>1, <3>2, <3>3
    <2>9. \A i \in DOMAIN new : \E k \in DOMAIN list : new[i] = list[k] /\ list[k] # s
      <3> SUFFICES ASSUME NEW i \in DOMAIN new
                   PROVE  \E k \in DOMAIN list : new[i] = list[k] /\ list[k] # s
        OBVIOUS
      <3>1. CASE i = 1
        BY <1>4, <2>3, <2>7, <3>1
      <3>2. CASE i # 1
        <4>1. d + i - 1 # d
          BY <1>1, <2>3, <2>8, <3>2
        <4> QED
          BY <1>1, <2>2, <2>8, <3>2, <4>1
      <3> QED
        BY <3>1, <3>2
    <2>10. \A i, j \in DOMAIN new : new[i] = new[j] => i = j
      <3>1. \A i \in DOMAIN new : i # 1 => new[i] # list[1]
        <4> SUFFICES ASSUME NEW i \in DOMAIN new, i # 1 PROVE new[i] # list[1]
          OBVIOUS
        <4>1. d + i - 1 # 1
          BY <1>1, <2>3, <2>8
        <4> QED
          BY <1>1, <2>3, <2>8, <4>1
      <3>2. \A i, j \in DOMAIN new : i # 1 /\ j # 1 /\ new[i] = new[j] => i = j
        <4> SUFFICES ASSUME NEW i \in DOMAIN new, NEW j \in DOMAIN new, i # 1, j # 1,
                            new[i] = new[j]
                     PROVE  i = j
          OBVIOUS
        <4>1. d + i - 1 = d + j - 1
          BY <1>1, <2>8
        <4> QED
          BY <2>3, <2>8, <4>1
      <3> QED
        BY <2>7, <3>1, <3>2
    <2> QED
      BY <2>7, <2>8, <2>9, <2>10 DEF new
  <1> QED
    BY <1>2, <1>3, <1>4

-----------------------------------------------------------------------------
(* At the start there is no server.                                        *)
LEMMA InitServers == Init => ServersInv
  <1> SUFFICES ASSUME Init PROVE ServersInv
    OBVIOUS
  <1>1. list \in Seq(Slots) /\ Len(list) = 0 /\ DOMAIN list = {} /\ Listed = {}
    BY EmptySeq DEF Init, Listed
  <1>2. TypeOK
    <2>1. /\ pc \in [Slots -> Running \cup {"free", "dead"}]
          /\ port \in [Slots -> Nat] /\ sn \in [Slots -> Sns \cup {InitSn, NULL}]
          /\ filled \in [Slots -> BOOLEAN] /\ closeReq \in [Slots -> BOOLEAN]
      BY DEF Init
    <2>2. count \in [Slots -> 0 .. (Timeout - 1)]
      BY ServersAssumption DEF Init
    <2> QED
      BY <1>1, <2>1, <2>2 DEF Init, TypeOK
  <1>3. Starting /\ Allocated /\ Creating /\ Filling /\ AnnouncedPort
    BY DEF Init, Starting, Allocated, Creating, Filling, AnnouncedPort
  <1>4. InitAlone /\ ListSound /\ PortsDistinct /\ SnDistinct
    BY <1>1 DEF InitAlone, ListSound, PortsDistinct, SnDistinct
  <1>5. ListBound
    BY <1>1, ServersAssumption DEF ListBound
  <1> QED
    BY <1>2, <1>3, <1>4, <1>5 DEF ServersInv

(* Steps that touch neither the list nor the entries' identity, begin no   *)
(* registration and free no entry.                                         *)
LEMMA AsideServers ==
    ASSUME ServersInv, TypeOK', Starting',
           UNCHANGED <<list, cur_con, port, sn, filled, creating>>,
           \A s \in Slots : pc[s] # "free" => pc'[s] # "free",
           mainpc' = "register" => mainpc = "register",
           udppc' \in {"fill", "announce"} => udppc' = udppc /\ reg' = reg
    PROVE  ServersInv'
  <1> USE DEF ServersInv
  <1>1. \A i \in DOMAIN list : list[i] \in Slots
    BY LenProperties, ElementOfSeq DEF TypeOK
  <1>2. Allocated' /\ Creating'
    BY DEF Allocated, Creating
  <1>3. Filling'
    BY DEF Filling
  <1>4. InitAlone' /\ ListBound' /\ PortsDistinct' /\ SnDistinct'
    BY DEF InitAlone, ListBound, PortsDistinct, SnDistinct
  <1>5. ListSound'
    BY <1>1 DEF ListSound
  <1>6. AnnouncedPort'
    BY DEF AnnouncedPort, Listed
  <1> QED
    BY <1>2, <1>3, <1>4, <1>5, <1>6

(* A server's thread until it deletes its entry.                           *)
LEMMA ThreadServers ==
    ASSUME ServersInv, NEW s \in Slots,
           \/ ServerBind(s) \/ AcceptTimeout(s) \/ Accept(s) \/ Data(s) \/ Hangup(s)
           \/ ConnSilent(s) \/ CloseSockets(s)
    PROVE  ServersInv'
  <1> USE DEF ServersInv
  <1>1. /\ UNCHANGED <<mainpc, udppc, detectpc, exit_relase, reg, creating, list, cur_con,
                       port, sn, filled>>
        /\ pc[s] # "free"
    BY DEF ServerBind, AcceptTimeout, Accept, Data, Hangup, ConnSilent, CloseSockets,
           regVars, detectVars, slotVars
  <1>2. \/ pc' = pc
        \/ \E c \in {"accept", "dead", "conn", "close", "delete"} : pc' = [pc EXCEPT ![s] = c]
    BY DEF ServerBind, AcceptTimeout, Accept, Data, Hangup, ConnSilent, CloseSockets,
           SilentSecond
  <1>3. /\ pc \in [Slots -> Running \cup {"free", "dead"}]
        /\ count \in [Slots -> 0 .. (Timeout - 1)] /\ closeReq \in [Slots -> BOOLEAN]
    BY DEF TypeOK
  <1>4. /\ pc' \in [Slots -> Running \cup {"free", "dead"}]
        /\ \A t \in Slots : pc[t] # "free" => pc'[t] # "free"
    BY <1>2, <1>3 DEF Running
  <1>5. count' \in [Slots -> 0 .. (Timeout - 1)]
    BY <1>3, ServersAssumption
    DEF ServerBind, AcceptTimeout, Accept, Data, Hangup, ConnSilent, CloseSockets,
        SilentSecond
  <1>6. closeReq' \in [Slots -> BOOLEAN]
    BY <1>3 DEF ServerBind, AcceptTimeout, Accept, Data, Hangup, ConnSilent, CloseSockets
  <1>7. TypeOK'
    BY <1>1, <1>4, <1>5, <1>6 DEF TypeOK
  <1>8. Starting'
    BY <1>1 DEF Starting
  <1> QED
    BY <1>1, <1>4, <1>7, <1>8, AsideServers

(* main between its registration and the end, the detect thread, and the   *)
(* UDP thread after a registration.                                        *)
LEMMA ControlServers ==
    ASSUME ServersInv,
           \/ RegisterFails \/ eth_link_server_init \/ eth_link_server_uninit \/ StopDetect
           \/ CloseAll \/ DetectStart \/ DetectLeave \/ Announce \/ UdpExit
    PROVE  ServersInv'
  <1> USE DEF ServersInv
  <1>1. /\ UNCHANGED <<creating, list, cur_con, pc, port, sn, filled, count>>
        /\ closeReq' = closeReq \/ CloseAll
        /\ udppc' \in {"fill", "announce"} => udppc' = udppc /\ reg' = reg
        /\ mainpc' = "register" => mainpc = "register"
    BY DEF RegisterFails, eth_link_server_init, eth_link_server_uninit, StopDetect, CloseAll,
           DetectStart, DetectLeave, Announce, UdpExit, slotVars
  <1>2. /\ mainpc' \in {"boot", "register", "registered", "serving", "closing",
                        "joindetect", "closed", "crashed"}
        /\ detectpc' \in {"none", "start", "loop", "done"} /\ exit_relase' \in BOOLEAN
        /\ udppc' \in {"none", "idle", "fill", "announce", "done"}
        /\ reg' \in Sns \cup {NULL}
    BY DEF RegisterFails, eth_link_server_init, eth_link_server_uninit, StopDetect, CloseAll,
           DetectStart, DetectLeave, Announce, UdpExit, TypeOK, detectVars
  <1>3. closeReq' \in [Slots -> BOOLEAN]
    BY <1>1 DEF CloseAll, TypeOK
  <1>4. TypeOK'
    BY <1>1, <1>2, <1>3 DEF TypeOK
  <1>5. Starting'
    BY <1>1 DEF RegisterFails, eth_link_server_init, eth_link_server_uninit, StopDetect,
           CloseAll, DetectStart, DetectLeave, Announce, UdpExit, Starting
  <1> QED
    BY <1>1, <1>4, <1>5, AsideServers

(* After a fault nothing is left.                                          *)
LEMMA CrashServers ==
    ASSUME ServersInv, ProcessEnds
    PROVE  ServersInv'
  <1> USE DEF ServersInv
  <1>1. list' \in Seq(Slots) /\ Len(list') = 0 /\ DOMAIN list' = {}
    BY EmptySeq DEF ProcessEnds
  <1>2. TypeOK'
    <2>1. /\ pc' \in [Slots -> Running \cup {"free", "dead"}]
          /\ port' \in [Slots -> Nat] /\ sn' \in [Slots -> Sns \cup {InitSn, NULL}]
          /\ filled' \in [Slots -> BOOLEAN] /\ closeReq' \in [Slots -> BOOLEAN]
      BY DEF ProcessEnds
    <2>2. count' \in [Slots -> 0 .. (Timeout - 1)]
      BY ServersAssumption DEF ProcessEnds
    <2>3. /\ mainpc' = "crashed" /\ udppc' = "none" /\ detectpc' = "none"
          /\ exit_relase' \in BOOLEAN /\ creating' = NULL /\ reg' = NULL
          /\ cur_con' \in Nat
      BY DEF ProcessEnds, TypeOK
    <2> QED
      BY <1>1, <2>1, <2>2, <2>3 DEF TypeOK
  <1>3. Starting' /\ Allocated' /\ Creating' /\ Filling' /\ AnnouncedPort'
    BY DEF ProcessEnds, Starting, Allocated, Creating, Filling, AnnouncedPort
  <1>4. InitAlone' /\ ListSound' /\ PortsDistinct' /\ SnDistinct'
    BY <1>1 DEF InitAlone, ListSound, PortsDistinct, SnDistinct
  <1>5. ListBound'
    BY <1>1, ServersAssumption DEF ListBound
  <1> QED
    BY <1>2, <1>3, <1>4, <1>5

(* A server deletes its entry.  What stays listed was listed before and is *)
(* another entry, and no registration is under way.                        *)
LEMMA DeleteServers ==
    ASSUME ServersInv, NEW s \in Slots, cbk_delete(s)
    PROVE  ServersInv'
  <1> USE DEF ServersInv
  <1>1. /\ UNCHANGED <<mainpc, udppc, detectpc, exit_relase, reg, creating, cur_con, count,
                       closeReq>>
        /\ filled[s] /\ udppc # "fill" /\ list' = Unlinked(s)
        /\ \A t \in Slots : t # s => /\ pc'[t] = pc[t] /\ port'[t] = port[t]
                                     /\ sn'[t] = sn[t] /\ filled'[t] = filled[t]
        /\ pc'[s] = "free" /\ filled'[s] = FALSE
    BY DEF cbk_delete, MutexFree, regVars, detectVars, TypeOK
  <1>2. /\ pc' \in [Slots -> Running \cup {"free", "dead"}] /\ port' \in [Slots -> Nat]
        /\ sn' \in [Slots -> Sns \cup {InitSn, NULL}] /\ filled' \in [Slots -> BOOLEAN]
    BY DEF cbk_delete, TypeOK
  <1>3. /\ list' \in Seq(Slots) /\ Len(list') <= Len(list)
        /\ \A i \in DOMAIN list' : \E k \in DOMAIN list : list'[i] = list[k] /\ list[k] # s
        /\ \A i, j \in DOMAIN list' : list'[i] = list'[j] => i = j
    BY <1>1, UnlinkedFacts
  <1>4. /\ Len(list) \in Nat /\ Len(list') \in Nat /\ DOMAIN list' = 1 .. Len(list')
        /\ \A k \in DOMAIN list : list[k] \in Slots
    BY <1>3, LenProperties, ElementOfSeq DEF TypeOK
  <1>5. \A i \in DOMAIN list' : \E k \in DOMAIN list :
            /\ list'[i] = list[k] /\ pc'[list'[i]] = pc[list[k]]
            /\ port'[list'[i]] = port[list[k]] /\ sn'[list'[i]] = sn[list[k]]
            /\ filled'[list'[i]] = filled[list[k]]
    BY <1>1, <1>3, <1>4
  <1>6. TypeOK'
    BY <1>1, <1>2, <1>3 DEF TypeOK
  <1>7. Starting'
    <2>1. mainpc \in {"boot", "register"} => list' = <<>>
      <3> SUFFICES ASSUME mainpc \in {"boot", "register"} PROVE list' = <<>>
        OBVIOUS
      <3>1. Len(list) = 0
        BY EmptySeq DEF Starting
      <3>2. Len(list') = 0
        BY <1>3, <1>4, <3>1
      <3> QED
        BY <1>3, <3>2, EmptySeq
    <2> QED
      BY <1>1, <2>1 DEF Starting
  <1>8. Allocated'
    BY <1>1 DEF Allocated
  <1>9. Creating' /\ Filling'
    BY <1>1 DEF Creating, Filling
  <1>10. InitAlone'
    <2> SUFFICES ASSUME NEW i \in DOMAIN list', sn'[list'[i]] = InitSn
                 PROVE  Len(list') = 1 /\ port'[list'[i]] = cur_con
      BY <1>1 DEF InitAlone
    <2>1. Len(list) = 1 /\ port'[list'[i]] = cur_con
      BY <1>5 DEF InitAlone
    <2> QED
      BY <1>3, <1>4, <2>1
  <1>11. ListSound'
    BY <1>3, <1>5 DEF ListSound
  <1>12. ListBound'
    BY <1>3, <1>4, ServersAssumption DEF ListBound
  <1>13. PortsDistinct'
    BY <1>3, <1>5 DEF PortsDistinct
  <1>14. SnDistinct'
    BY <1>3, <1>5 DEF SnDistinct
  <1>15. AnnouncedPort'
    BY <1>1, <1>5 DEF AnnouncedPort, Listed
  <1> QED
    BY <1>6, <1>7, <1>8, <1>9, <1>10, <1>11, <1>12, <1>13, <1>14, <1>15

(* A block is allocated and its thread started.  It is not in the list,    *)
(* whose entries stay as they are.                                         *)
LEMMA CreateFacts ==
    ASSUME ServersInv, NEW s \in Slots, NEW p \in Nat, tcp_server_create(s, p), list' = list
    PROVE  /\ creating' = s /\ pc'[s] = "start" /\ port'[s] = p /\ ~filled'[s]
           /\ pc' \in [Slots -> Running \cup {"free", "dead"}] /\ port' \in [Slots -> Nat]
           /\ UNCHANGED <<sn, filled, count, closeReq>>
           /\ Allocated' /\ ListSound' /\ PortsDistinct'
           /\ \A i \in DOMAIN list : port'[list[i]] = port[list[i]]
  <1> USE DEF ServersInv
  <1>1. /\ pc[s] = "free" /\ creating' = s /\ pc'[s] = "start" /\ port'[s] = p
        /\ pc' \in [Slots -> Running \cup {"free", "dead"}] /\ port' \in [Slots -> Nat]
        /\ UNCHANGED <<sn, filled, count, closeReq>>
        /\ \A t \in Slots : t # s => pc'[t] = pc[t] /\ port'[t] = port[t]
    BY DEF tcp_server_create, TypeOK, Running
  <1>2. \A i \in DOMAIN list : list[i] \in Slots /\ list[i] # s
    BY <1>1, LenProperties, ElementOfSeq DEF TypeOK, ListSound
  <1>3. ~filled[s]
    BY <1>1 DEF Allocated
  <1>4. Allocated'
    BY <1>1 DEF Allocated
  <1>5. ListSound' /\ PortsDistinct'
    BY <1>1, <1>2 DEF ListSound, PortsDistinct
  <1> QED
    BY <1>1, <1>2, <1>3, <1>4, <1>5

(* eth_server_register makes the first server, on the base port.           *)
LEMMA RegisterServers ==
    ASSUME ServersInv, eth_server_register
    PROVE  ServersInv'
  <1> USE DEF ServersInv
  <1>1. PICK s \in Slots : tcp_server_create(s, BasePort)
    BY DEF eth_server_register
  <1>2. /\ mainpc = "boot" /\ mainpc' = "register"
        /\ UNCHANGED <<udppc, detectpc, exit_relase, reg, list, cur_con>>
        /\ list = <<>> /\ udppc = "none" /\ BasePort \in Nat
    BY ServersAssumption DEF eth_server_register, Starting, detectVars
  <1>3. /\ creating' = s /\ pc'[s] = "start" /\ port'[s] = BasePort /\ ~filled'[s]
        /\ pc' \in [Slots -> Running \cup {"free", "dead"}] /\ port' \in [Slots -> Nat]
        /\ UNCHANGED <<sn, filled, count, closeReq>>
        /\ Allocated' /\ ListSound' /\ PortsDistinct'
    BY <1>1, <1>2, CreateFacts
  <1>4. TypeOK'
    BY <1>2, <1>3 DEF TypeOK
  <1>5. Starting' /\ Creating' /\ Filling' /\ AnnouncedPort'
    BY <1>2, <1>3 DEF Starting, Creating, Filling, AnnouncedPort
  <1>6. InitAlone' /\ SnDistinct' /\ ListBound'
    BY <1>2, <1>3 DEF InitAlone, SnDistinct, ListBound
  <1> QED
    BY <1>3, <1>4, <1>5, <1>6

(* A radar that is not registered, in a list with room and without the     *)
(* server made for anyone, is given a port of its own.                     *)
LEMMA NewServers ==
    ASSUME ServersInv, NEW n \in Sns, NewServer(n)
    PROVE  ServersInv'
  <1> USE DEF ServersInv
  <1> DEFINE p == IF list = <<>> THEN BasePort ELSE get_unused_port
  <1>1. /\ udppc = "idle" /\ udppc' = "fill" /\ reg' = n /\ cur_con' = p
        /\ UNCHANGED <<mainpc, detectpc, exit_relase, list>>
        /\ Len(list) < MaxConn
        /\ \A i \in DOMAIN list : sn[list[i]] # n /\ sn[list[i]] # InitSn
    <2>1. /\ udppc = "idle" /\ udppc' = "fill" /\ reg' = n /\ cur_con' = p
          /\ UNCHANGED <<mainpc, detectpc, exit_relase, list>>
          /\ MaxConn > Len(list) /\ ~Registered(n)
          /\ ~(Len(list) = 1 /\ sn[list[1]] = InitSn)
      BY DEF NewServer, CurConAfter, HasRoom, detectVars
    <2>2. Len(list) \in Nat /\ DOMAIN list = 1 .. Len(list) /\ MaxConn \in Nat
      BY LenProperties, ServersAssumption DEF TypeOK
    <2>3. ASSUME NEW i \in DOMAIN list, sn[list[i]] = InitSn PROVE FALSE
      <3>1. Len(list) = 1 /\ i = 1
        BY <2>2, <2>3 DEF InitAlone
      <3> QED
        BY <2>1, <2>3, <3>1
    <2>4. Len(list) < MaxConn
      BY <2>1, <2>2
    <2> QED
      BY <2>1, <2>3, <2>4 DEF Registered
  <1>2. p \in Nat /\ \A i \in DOMAIN list : port[list[i]] # p
    <2>1. CASE list = <<>>
      BY <2>1, ServersAssumption
    <2>2. CASE list # <<>>
      BY <1>1, <2>2, UnusedPort DEF PortUsed, Listed
    <2> QED
      BY <2>1, <2>2
  <1>3. PICK s \in Slots : tcp_server_create(s, p)
    BY DEF NewServer
  <1> HIDE DEF p
  <1>4. /\ creating' = s /\ pc'[s] = "start" /\ port'[s] = p /\ ~filled'[s]
        /\ pc' \in [Slots -> Running \cup {"free", "dead"}] /\ port' \in [Slots -> Nat]
        /\ UNCHANGED <<sn, filled, count, closeReq>>
        /\ Allocated' /\ ListSound' /\ PortsDistinct'
        /\ \A i \in DOMAIN list : port'[list[i]] = port[list[i]]
    BY <1>1, <1>2, <1>3, CreateFacts
  <1>5. TypeOK'
    BY <1>1, <1>2, <1>4 DEF TypeOK
  <1>6. Starting' /\ Creating'
    BY <1>1, <1>4 DEF Starting, Creating
  <1>7. Filling'
    BY <1>1, <1>2, <1>4 DEF Filling
  <1>8. InitAlone' /\ SnDistinct' /\ ListBound' /\ AnnouncedPort'
    BY <1>1, <1>4 DEF InitAlone, SnDistinct, ListBound, AnnouncedPort
  <1> QED
    BY <1>4, <1>5, <1>6, <1>7, <1>8

(* The created entry goes to the end of the list with a serial number and  *)
(* a port that no listed one has.                                          *)
LEMMA FillFacts ==
    ASSUME ServersInv, NEW s \in Slots, NEW n \in Sns \cup {InitSn}, FillEntry(s, n),
           UNCHANGED <<pc, port>>, pc[s] # "free", ~filled[s],
           \A i \in DOMAIN list : sn[list[i]] # n /\ port[list[i]] # port[s]
    PROVE  /\ list' \in Seq(Slots) /\ Len(list') = Len(list) + 1 /\ Len(list) \in Nat
           /\ DOMAIN list = 1 .. Len(list) /\ DOMAIN list' = 1 .. Len(list) + 1
           /\ list'[Len(list) + 1] = s /\ sn'[s] = n
           /\ \A i \in DOMAIN list : /\ list'[i] = list[i] /\ list[i] # s
                                     /\ sn'[list[i]] = sn[list[i]]
           /\ sn' \in [Slots -> Sns \cup {InitSn, NULL}] /\ filled' \in [Slots -> BOOLEAN]
           /\ creating' = NULL
           /\ Allocated' /\ ListSound' /\ PortsDistinct' /\ SnDistinct'
  <1> USE DEF ServersInv
  <1>1. list \in Seq(Slots) /\ list' = Append(list, s) /\ creating' = NULL
    BY DEF FillEntry, TypeOK
  <1>2. /\ list' \in Seq(Slots) /\ Len(list') = Len(list) + 1 /\ Len(list) \in Nat
        /\ list'[Len(list) + 1] = s /\ \A i \in 1 .. Len(list) : list'[i] = list[i]
        /\ DOMAIN list = 1 .. Len(list)
    BY <1>1, AppendProperties, LenProperties
  <1>3. DOMAIN list' = 1 .. Len(list) + 1
    BY <1>2, LenProperties
  <1>4. /\ sn' \in [Slots -> Sns \cup {InitSn, NULL}] /\ filled' \in [Slots -> BOOLEAN]
        /\ sn'[s] = n /\ filled'[s]
        /\ \A t \in Slots : t # s => sn'[t] = sn[t] /\ filled'[t] = filled[t]
    BY DEF FillEntry, TypeOK
  <1>5. \A i \in DOMAIN list : list[i] \in Slots /\ list[i] # s
    BY <1>1, <1>2, ElementOfSeq DEF ListSound
  <1>6. Allocated'
    BY <1>4 DEF Allocated
  <1>7. \A i \in DOMAIN list' : i \in DOMAIN list \/ i = Len(list) + 1
    BY <1>2, <1>3
  <1>8. ListSound'
    BY <1>2, <1>4, <1>5, <1>7 DEF ListSound
  <1>9. PortsDistinct'
    BY <1>2, <1>5, <1>7 DEF PortsDistinct
  <1>10. SnDistinct'
    BY <1>2, <1>4, <1>5, <1>7 DEF SnDistinct
  <1> QED
    BY <1>1, <1>2, <1>3, <1>4, <1>5, <1>6, <1>8, <1>9, <1>10

(* Its entry is filled while no other server exists.                       *)
LEMMA FirstServers ==
    ASSUME ServersInv, RegisterFill
    PROVE  ServersInv'
  <1> USE DEF ServersInv
  <1>1. /\ mainpc = "register" /\ mainpc' = "registered" /\ FillEntry(creating, InitSn)
        /\ cur_con' = BasePort
        /\ UNCHANGED <<udppc, detectpc, exit_relase, reg, pc, port, count, closeReq>>
    BY DEF RegisterFill, detectVars
  <1>2. PICK s \in Slots : /\ s = creating /\ pc[s] # "free" /\ ~filled[s]
                           /\ port[s] = BasePort
    BY <1>1 DEF Creating
  <1>3. list = <<>> /\ DOMAIN list = {} /\ Len(list) = 0 /\ udppc = "none"
    BY <1>1, EmptySeq DEF Starting
  <1>4. /\ list' \in Seq(Slots) /\ Len(list') = 1 /\ DOMAIN list' = 1 .. 1 /\ list'[1] = s
        /\ sn' \in [Slots -> Sns \cup {InitSn, NULL}] /\ filled' \in [Slots -> BOOLEAN]
        /\ creating' = NULL
        /\ Allocated' /\ ListSound' /\ PortsDistinct' /\ SnDistinct'
    BY <1>1, <1>2, <1>3, FillFacts
  <1>5. TypeOK'
    BY <1>1, <1>4, ServersAssumption DEF TypeOK
  <1>6. Starting' /\ Creating' /\ Filling' /\ AnnouncedPort'
    BY <1>1, <1>3 DEF Starting, Creating, Filling, AnnouncedPort
  <1>7. InitAlone'
    BY <1>1, <1>2, <1>4 DEF InitAlone
  <1>8. ListBound'
    BY <1>4, ServersAssumption DEF ListBound
  <1> QED
    BY <1>4, <1>5, <1>6, <1>7, <1>8

(* The entry of a server made for a radar is filled in before its port is  *)
(* announced.                                                              *)
LEMMA FillServers ==
    ASSUME ServersInv, NewServerFill
    PROVE  ServersInv'
  <1> USE DEF ServersInv
  <1>1. /\ udppc = "fill" /\ udppc' = "announce" /\ FillEntry(creating, reg)
        /\ UNCHANGED <<mainpc, detectpc, exit_relase, reg, cur_con, pc, port, count, closeReq>>
    BY DEF NewServerFill, detectVars
  <1>2. PICK s \in Slots : s = creating /\ pc[s] # "free" /\ ~filled[s]
    BY <1>1 DEF Creating
  <1>3. /\ reg \in Sns /\ Len(list) < MaxConn /\ port[s] = cur_con /\ reg # InitSn
        /\ \A i \in DOMAIN list :
              sn[list[i]] # reg /\ sn[list[i]] # InitSn /\ port[list[i]] # port[s]
    BY <1>1, <1>2, ServersAssumption DEF Filling
  <1>4. /\ list' \in Seq(Slots) /\ Len(list') = Len(list) + 1 /\ Len(list) \in Nat
        /\ DOMAIN list = 1 .. Len(list) /\ DOMAIN list' = 1 .. Len(list) + 1
        /\ list'[Len(list) + 1] = s /\ sn'[s] = reg
        /\ \A i \in DOMAIN list : /\ list'[i] = list[i] /\ list[i] # s
                                  /\ sn'[list[i]] = sn[list[i]]
        /\ sn' \in [Slots -> Sns \cup {InitSn, NULL}] /\ filled' \in [Slots -> BOOLEAN]
        /\ creating' = NULL
        /\ Allocated' /\ ListSound' /\ PortsDistinct' /\ SnDistinct'
    BY <1>1, <1>2, <1>3, FillFacts
  <1>5. \A i \in DOMAIN list' : i \in DOMAIN list \/ i = Len(list) + 1
    BY <1>4
  <1>6. TypeOK'
    BY <1>1, <1>4 DEF TypeOK
  <1>7. Starting' /\ Creating' /\ Filling'
    BY <1>1 DEF Starting, Creating, Filling
  <1>8. InitAlone'
    BY <1>3, <1>4, <1>5 DEF InitAlone
  <1>9. ListBound'
    BY <1>3, <1>4, ServersAssumption DEF ListBound
  <1>10. AnnouncedPort'
    BY <1>1, <1>3, <1>4, <1>5 DEF AnnouncedPort, Listed
  <1> QED
    BY <1>4, <1>6, <1>7, <1>8, <1>9, <1>10

(* A radar takes over the server made for anyone, which is the only one    *)
(* and has the port in cur_con.                                            *)
LEMMA TakeOverServers ==
    ASSUME ServersInv, NEW n \in Sns, TakeOverInit(n)
    PROVE  ServersInv'
  <1> USE DEF ServersInv
  <1>1. /\ udppc = "idle" /\ udppc' = "announce" /\ reg' = n /\ n # InitSn
        /\ Len(list) = 1 /\ sn[list[1]] = InitSn /\ sn' = [sn EXCEPT ![list[1]] = n]
        /\ UNCHANGED <<mainpc, detectpc, exit_relase, creating, list, cur_con, pc, port,
                       filled, count, closeReq>>
    BY ServersAssumption DEF TakeOverInit, detectVars
  <1>2. DOMAIN list = {1} /\ list[1] \in Slots
    <2>1. list \in Seq(Slots) /\ DOMAIN list = 1 .. 1
      BY <1>1, LenProperties DEF TypeOK
    <2>2. 1 .. 1 = {1} /\ 1 \in 1 .. Len(list)
      BY <1>1
    <2> QED
      BY <2>1, <2>2, ElementOfSeq
  <1>3. port[list[1]] = cur_con /\ sn'[list[1]] = n
    BY <1>1, <1>2 DEF InitAlone, TypeOK
  <1>4. TypeOK'
    BY <1>1 DEF TypeOK
  <1>5. Starting' /\ Allocated' /\ Creating' /\ Filling'
    BY <1>1 DEF Starting, Allocated, Creating, Filling
  <1>6. ListSound' /\ ListBound' /\ PortsDistinct'
    BY <1>1 DEF ListSound, ListBound, PortsDistinct
  <1>7. InitAlone' /\ SnDistinct'
    BY <1>1, <1>2, <1>3 DEF InitAlone, SnDistinct
  <1>8. AnnouncedPort'
    BY <1>1, <1>2, <1>3 DEF AnnouncedPort, Listed
  <1> QED
    BY <1>4, <1>5, <1>6, <1>7, <1>8

(* No thread for a new server: cur_con has changed all the same, but no    *)
(* listed server waits for anyone.                                         *)
LEMMA NoServers ==
    ASSUME ServersInv, NEW n \in Sns, NewServerFails(n)
    PROVE  ServersInv'
  <1> USE DEF ServersInv
  <1>1. /\ udppc = "idle" /\ cur_con' = get_unused_port
        /\ MaxConn > Len(list) /\ ~(Len(list) = 1 /\ sn[list[1]] = InitSn)
        /\ UNCHANGED <<mainpc, udppc, detectpc, exit_relase, reg, creating, list, pc, port, sn,
                       filled, count, closeReq>>
    BY DEF NewServerFails, HasRoom, regVars, detectVars, slotVars
  <1>2. Len(list) \in Nat /\ DOMAIN list = 1 .. Len(list) /\ Len(list) < MaxConn
    BY <1>1, LenProperties, ServersAssumption DEF TypeOK
  <1>3. TypeOK'
    BY <1>1, <1>2, UnusedPort DEF TypeOK
  <1>4. InitAlone'
    <2>1. ASSUME NEW i \in DOMAIN list, sn[list[i]] = InitSn PROVE FALSE
      <3>1. Len(list) = 1 /\ i = 1
        BY <1>2, <2>1 DEF InitAlone
      <3> QED
        BY <1>1, <2>1, <3>1
    <2> QED
      BY <1>1, <2>1 DEF InitAlone
  <1>5. Starting' /\ Allocated' /\ Creating' /\ Filling' /\ AnnouncedPort'
    BY <1>1 DEF Starting, Allocated, Creating, Filling, AnnouncedPort
  <1>6. ListSound' /\ ListBound' /\ PortsDistinct' /\ SnDistinct'
    BY <1>1 DEF ListSound, ListBound, PortsDistinct, SnDistinct
  <1> QED
    BY <1>3, <1>4, <1>5, <1>6

(* ServersInv is inductive.                                                *)
LEMMA StepServers == ServersInv /\ [Next]_vars => ServersInv'
  <1> SUFFICES ASSUME ServersInv, [Next]_vars PROVE ServersInv'
    OBVIOUS
  <1>1. CASE UNCHANGED vars
    <2>1. UNCHANGED <<mainpc, udppc, detectpc, exit_relase, reg, creating, list, cur_con, pc,
                      port, sn, filled, count, closeReq>>
      BY <1>1 DEF vars, regVars, detectVars, slotVars
    <2>2. TypeOK' /\ Starting'
      BY <2>1 DEF ServersInv, TypeOK, Starting
    <2> QED
      BY <2>1, <2>2, AsideServers
  <1>2. ASSUME NEW s \in Slots, Server(s)
        PROVE  ServersInv'
    BY <1>2, ThreadServers, DeleteServers, CrashServers DEF Server, cbk_delete_NullRoot
  <1>3. CASE Udp
    BY <1>3, TakeOverServers, NewServers, NoServers, FillServers, ControlServers DEF Udp
  <1>4. CASE Detect \/ MainThread
    BY <1>4, RegisterServers, FirstServers, ControlServers, CrashServers
    DEF Detect, MainThread, JoinFaults
  <1> QED
    BY <1>1, <1>2, <1>3, <1>4 DEF Next

-----------------------------------------------------------------------------
(* Types; the count of silent seconds never reaches the timeout.           *)
THEOREM ServersTypes == Spec => []TypeOK
  <1>1. ServersInv => TypeOK
    BY DEF ServersInv
  <1> QED
    BY <1>1, InitServers, StepServers, PTL DEF Spec

(* The list psEthList->list, which server threads take themselves out of   *)
(* while the UDP thread adds to it, holds allocated and filled in entries, *)
(* each of them once.                                                      *)
THEOREM ServersListSound == Spec => []ListSound
  <1>1. ServersInv => ListSound
    BY DEF ServersInv
  <1> QED
    BY <1>1, InitServers, StepServers, PTL DEF Spec

(* It holds at most MaxConn entries, with and without failures.            *)
THEOREM ServersListBound == Spec => []ListBound
  <1>1. ServersInv => ListBound
    BY DEF ServersInv
  <1> QED
    BY <1>1, InitServers, StepServers, PTL DEF Spec

(* No two listed servers have the same port: what get_unused_port found is *)
(* still unused when the entry is linked, and it always finds one.         *)
THEOREM ServersPortsDistinct == Spec => []PortsDistinct
  <1>1. ServersInv => PortsDistinct
    BY DEF ServersInv
  <1> QED
    BY <1>1, InitServers, StepServers, PTL DEF Spec

(* No two listed servers are for the same radar, however often it answers  *)
(* the lookup.                                                             *)
THEOREM ServersSnDistinct == Spec => []SnDistinct
  <1>1. ServersInv => SnDistinct
    BY DEF ServersInv
  <1> QED
    BY <1>1, InitServers, StepServers, PTL DEF Spec

(* The port eth_protocol_search_handler sends to a radar is that of the    *)
(* server listed for it, although it is read from cur_con, which failed    *)
(* registrations change too.                                               *)
THEOREM ServersAnnouncedPort == Spec => []AnnouncedPort
  <1>1. ServersInv => AnnouncedPort
    BY DEF ServersInv
  <1> QED
    BY <1>1, InitServers, StepServers, PTL DEF Spec
=============================================================================
