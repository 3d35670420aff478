---------------------------- MODULE C2LinksProofs ----------------------------
(***************************************************************************)
(* Proofs about the C2 links and the upload, for any number of links,      *)
(* peers, uploading threads, retries and any maximum, with and without     *)
(* failures.                                                               *)
(*                                                                         *)
(* The list of links has no lock, and an adding thread cuts off what was   *)
(* linked behind the tail it has found.  LinksInv rests on what holds all  *)
(* the same: an entry is linked once, by the thread that made it, and      *)
(* deleted only after that (Entries, Adding), and only the UDP thread adds *)
(* requested links, so what its search has found stays true of them until  *)
(* its entry is linked (Reserved).                                         *)
(***************************************************************************)
EXTENDS C2Links, SequenceTheorems, FiniteSetTheorems, TLAPS

Once(q) == \A i, j \in DOMAIN q : q[i] = q[j] => i = j

(* Subscribers and list entries, each of them once.                        *)
NoDuplicates == Once(list) /\ \A p \in Packages : Once(subs[p])

(* What is set at each place of the link's thread.                         *)
Entry(s) ==
    /\ In(list, s) => rooted[s]
    /\ rooted[s] => hasCbk[s]
    /\ pc[s] = "free" => ~hasCbk[s] /\ ~network[s]
    /\ pc[s] \in {"delete", "delete2", "unlink"} => timed[s]
    /\ pc[s] = "delete2" => hasCbk[s] /\ ~In(subs["heartbeat"], s)

Entries == \A s \in Slots : Entry(s)

(* The entry that a thread is adding.                                      *)
Added(t) ==
    /\ add[t].slot \in Slots
    /\ pc[add[t].slot] # "free" /\ ~rooted[add[t].slot]
    /\ peer[add[t].slot] = add[t].peer
    /\ timed[add[t].slot] <=> t = "udp"
    /\ add[t].pc = "heartbeat" => ~hasCbk[add[t].slot] /\ ~network[add[t].slot]
    /\ add[t].pc = "target" =>
          /\ ~hasCbk[add[t].slot] /\ network[add[t].slot]
          /\ ~In(subs["target"], add[t].slot)
    /\ add[t].pc = "link" => hasCbk[add[t].slot]

Adding ==
    \A t \in Adders : add[t].pc \in {"heartbeat", "target", "link"} => Added(t)

(* The states of an adding thread.                                         *)
AddStates ==
    [pc : {"idle", "create", "heartbeat", "target", "link", "done"},
     peer : Peers \cup {NULL}, tail : Slots \cup {NULL}, slot : Slots \cup {NULL}]

(* Subscriber nodes lie in networks that are not freed.                    *)
NodesAllocated ==
    /\ \A p \in Packages, s \in Slots : In(subs[p], s) => network[s]
    /\ \A u \in Uploaders, s \in Slots : In(up[u].todo, s) => network[s]

(* Who uploads, and from when on it has subscribers left to do.            *)
Uploading ==
    \A u \in Uploaders : /\ up[u].pc = "send" <=> lock = u
                         /\ up[u].pc # "send" => up[u].todo = <<>>

Requested == {s \in Listed : timed[s]}
Reserving == {"create", "heartbeat", "target", "link"}

PeersDistinct ==
    \A x, y \in Requested : peer[x] = peer[y] => x = y

(* What the UDP thread found out about the requested links.                *)
Reserved ==
    add["udp"].pc \in Reserving =>
        /\ \A x \in Requested : peer[x] # add["udp"].peer
        /\ Cardinality(Requested) < Max

LinksInv ==
    /\ TypeOK /\ NoDuplicates /\ Entries /\ Adding /\ Uploading
    /\ PeersDistinct /\ Reserved /\ LinkBound /\ BufferOwned /\ NodesAllocated

-----------------------------------------------------------------------------
(* What becomes of a sequence when something is appended, cut off or taken *)
(* out.                                                                    *)
LEMMA AppendFacts ==
    ASSUME NEW q \in Seq(Slots), NEW s \in Slots, Once(q), ~In(q, s)
    PROVE  /\ Append(q, s) \in Seq(Slots) /\ Once(Append(q, s))
           /\ \A x : In(Append(q, s), x) <=> In(q, x) \/ x = s
  <1>1. PICK r : r = Append(q, s)
    OBVIOUS
  <1>2. /\ r \in Seq(Slots) /\ Len(r) = Len(q) + 1 /\ r[Len(q) + 1] = s
        /\ Len(q) \in Nat /\ DOMAIN q = 1 .. Len(q)
    BY <1>1, AppendProperties, LenProperties
  <1>3. \A i \in 1 .. Len(q) : r[i] = q[i]
    BY <1>1, AppendProperties, Zenon
  <1>4. DOMAIN r = 1 .. Len(q) + 1
    BY <1>2, LenProperties
  <1>5. \A i \in DOMAIN r : i \in DOMAIN q \/ i = Len(q) + 1
    BY <1>2, <1>4
  <1>6. Once(r)
    BY <1>2, <1>3, <1>5 DEF Once, In
  <1>7. \A x : In(r, x) <=> In(q, x) \/ x = s
    BY <1>2, <1>3, <1>4, <1>5 DEF In
  <1> QED
    BY <1>1, <1>2, <1>6, <1>7

(* A prefix of a list without duplicates has none either.                  *)
LEMMA PrefixFacts ==
    ASSUME NEW q \in Seq(Slots), Once(q), NEW k \in DOMAIN q
    PROVE  /\ SubSeq(q, 1, k) \in Seq(Slots) /\ Once(SubSeq(q, 1, k))
           /\ \A x : In(SubSeq(q, 1, k), x) => In(q, x)
  <1>1. PICK r : r = SubSeq(q, 1, k)
    OBVIOUS
  <1>2. /\ Len(q) \in Nat /\ DOMAIN q = 1 .. Len(q) /\ k \in 1 .. Len(q)
        /\ \A i \in 1 .. k : q[i] \in Slots
    BY LenProperties, ElementOfSeq
  <1>3. /\ r \in Seq(Slots) /\ Len(r) = (IF 1 <= k THEN k - 1 + 1 ELSE 0)
        /\ \A i \in 1 .. k - 1 + 1 : r[i] = q[1 + i - 1]
    BY <1>1, <1>2, SubSeqProperties
  <1>4. DOMAIN r = 1 .. k
    BY <1>2, <1>3, LenProperties
  <1>5. \A i \in DOMAIN r : i \in DOMAIN q /\ r[i] = q[i]
    <2> SUFFICES ASSUME NEW i \in DOMAIN r PROVE i \in DOMAIN q /\ r[i] = q[i]
      OBVIOUS
    <2>1. i \in 1 .. k - 1 + 1 /\ 1 + i - 1 = i /\ i \in DOMAIN q
      BY <1>2, <1>4
    <2> QED
      BY <1>3, <2>1
  <1>6. Once(r) /\ \A x : In(r, x) => In(q, x)
    BY <1>5 DEF Once, In
  <1> QED
    BY <1>1, <1>3, <1>6

(* The entries before place m and those behind place k of a sequence, for  *)
(* m <= k.                                                                 *)
LEMMA CutFacts ==
    ASSUME NEW q \in Seq(Slots), Once(q), NEW k \in DOMAIN q, NEW m \in 1 .. k
    PROVE  LET r == SubSeq(q, 1, m - 1) \o SubSeq(q, k + 1, Len(q)) IN
           /\ r \in Seq(Slots) /\ Once(r)
           /\ \A x : In(r, x) <=> \E j \in DOMAIN q : q[j] = x /\ ~(m <= j /\ j <= k)
  <1>1. PICK a : a = SubSeq(q, 1, m - 1)
    OBVIOUS
  <1>2. PICK b : b = SubSeq(q, k + 1, Len(q))
    OBVIOUS
  <1>3. PICK r : r = a \o b
    OBVIOUS
  <1>4. PICK n \in Nat : n = Len(q) /\ DOMAIN q = 1 .. n /\ k \in 1 .. n
    BY LenProperties
  <1>5. \A i \in 1 .. n : q[i] \in Slots
    BY <1>4, ElementOfSeq
  <1>6. /\ a \in Seq(Slots) /\ Len(a) = m - 1
        /\ \A i \in 1 .. m - 1 : a[i] = q[i]
    <2>1. \A i \in 1 .. m - 1 : q[i] \in Slots
      BY <1>4, <1>5
    <2>2. /\ a \in Seq(Slots) /\ Len(a) = (IF 1 <= m - 1 THEN (m - 1) - 1 + 1 ELSE 0)
          /\ \A i \in 1 .. (m - 1) - 1 + 1 : a[i] = q[1 + i - 1]
      BY <1>1, <1>4, <2>1, SubSeqProperties
    <2>3. \A c \in Nat : c >= 1 => (IF 1 <= c - 1 THEN (c - 1) - 1 + 1 ELSE 0) = c - 1
      OBVIOUS
    <2>4. Len(a) = m - 1
      BY ONLY <1>4, <2>2, <2>3, m \in 1 .. k
    <2>5. ASSUME NEW i \in 1 .. m - 1 PROVE a[i] = q[i]
      <3>1. i \in 1 .. (m - 1) - 1 + 1 /\ 1 + i - 1 = i
        BY <1>4
      <3> QED
        BY <2>2, <3>1
    <2> QED
      BY <2>2, <2>4, <2>5
  <1>7. /\ b \in Seq(Slots) /\ Len(b) = n - k
        /\ \A i \in 1 .. n - k : b[i] = q[k + i]
    <2>1. \A i \in k + 1 .. n : q[i] \in Slots
      BY <1>4, <1>5
    <2>2. /\ b \in Seq(Slots) /\ Len(b) = (IF k + 1 <= n THEN n - (k + 1) + 1 ELSE 0)
          /\ \A i \in 1 .. n - (k + 1) + 1 : b[i] = q[(k + 1) + i - 1]
      BY <1>2, <1>4, <2>1, SubSeqProperties
    <2>3. \A c \in Nat : \A d \in 1 .. c : (IF d + 1 <= c THEN c - (d + 1) + 1 ELSE 0) = c - d
      OBVIOUS
    <2>4. Len(b) = n - k
      BY ONLY <1>4, <2>2, <2>3, n \in Nat
    <2>5. ASSUME NEW i \in 1 .. n - k PROVE b[i] = q[k + i]
      <3>1. i \in 1 .. n - (k + 1) + 1 /\ (k + 1) + i - 1 = k + i
        BY <1>4
      <3> QED
        BY <2>2, <3>1
    <2> QED
      BY <2>2, <2>4, <2>5
  (* From a place in r to the place in q.                                  *)
  <1> DEFINE Place(i) == IF i <= m - 1 THEN i ELSE i - (m - 1) + k
  <1>8. /\ r \in Seq(Slots) /\ DOMAIN r = 1 .. (m - 1) + (n - k)
        /\ \A i \in DOMAIN r : r[i] = q[Place(i)]
    <2>1. /\ r \in Seq(Slots) /\ Len(r) = (m - 1) + (n - k)
          /\ \A i \in 1 .. (m - 1) + (n - k) :
                r[i] = IF i <= m - 1 THEN a[i] ELSE b[i - (m - 1)]
      <3>1. /\ r \in Seq(Slots) /\ Len(r) = Len(a) + Len(b)
            /\ \A i \in 1 .. Len(a) + Len(b) :
                  r[i] = IF i <= Len(a) THEN a[i] ELSE b[i - Len(a)]
        BY ONLY <1>3, <1>6, <1>7, ConcatProperties, Zenon
      <3> QED
        BY ONLY <1>6, <1>7, <3>1
    <2>2. DOMAIN r = 1 .. (m - 1) + (n - k)
      BY <2>1, LenProperties
    <2>3. ASSUME NEW i \in 1 .. (m - 1) + (n - k) PROVE r[i] = q[Place(i)]
      <3>1. CASE i <= m - 1
        BY <1>4, <1>6, <2>1, <3>1
      <3>2. CASE ~(i <= m - 1)
        <4>1. i - (m - 1) \in 1 .. n - k /\ k + (i - (m - 1)) = i - (m - 1) + k
          BY <1>4, <3>2
        <4> QED
          BY <1>7, <2>1, <3>2, <4>1
      <3> QED
        BY <3>1, <3>2
    <2> QED
      BY <2>1, <2>2, <2>3
  <1>9. /\ \A i \in DOMAIN r : Place(i) \in DOMAIN q /\ ~(m <= Place(i) /\ Place(i) <= k)
        /\ \A i, j \in DOMAIN r : Place(i) = Place(j) => i = j
        /\ \A j \in DOMAIN q : ~(m <= j /\ j <= k) => \E i \in DOMAIN r : Place(i) = j
    <2>1. \A i \in DOMAIN r : Place(i) \in DOMAIN q /\ ~(m <= Place(i) /\ Place(i) <= k)
      BY <1>4, <1>8
    <2>2. \A i, j \in DOMAIN r : Place(i) = Place(j) => i = j
      BY <1>4, <1>8
    <2>3. ASSUME NEW j \in DOMAIN q, ~(m <= j /\ j <= k)
          PROVE  \E i \in DOMAIN r : Place(i) = j
      <3>1. CASE j < m
        <4>1. j \in DOMAIN r /\ Place(j) = j
          BY <1>4, <1>8, <3>1
        <4> QED
          BY <4>1
      <3>2. CASE j > k
        <4>1. PICK i \in Int : i = (j - k) + (m - 1)
          BY <1>4
        <4>2. i \in 1 .. (m - 1) + (n - k) /\ ~(i <= m - 1) /\ i - (m - 1) + k = j
          BY <1>4, <3>2, <4>1
        <4> QED
          BY <1>8, <4>2
      <3> QED
        BY <1>4, <2>3, <3>1, <3>2
    <2> QED
      BY <2>1, <2>2, <2>3
  <1> HIDE DEF Place
  <1>10. Once(r)
    BY <1>8, <1>9 DEF Once
  <1>11. \A x : In(r, x) <=> \E j \in DOMAIN q : q[j] = x /\ ~(m <= j /\ j <= k)
    BY <1>8, <1>9 DEF In
  <1> QED
    BY <1>1, <1>2, <1>3, <1>8, <1>10, <1>11

(* A subscriber is removed: nobody else is, unless it is the first.        *)
LEMMA UnsubscribedFacts ==
    ASSUME NEW q \in Seq(Slots), NEW s \in Slots, Once(q)
    PROVE  /\ Unsubscribed(q, s) \in Seq(Slots) /\ Once(Unsubscribed(q, s))
           /\ \A x : In(Unsubscribed(q, s), x) => In(q, x) /\ x # s
           /\ \A x : In(q, x) /\ x # s /\ q[1] # s => In(Unsubscribed(q, s), x)
  <1>1. CASE ~In(q, s)
    BY <1>1 DEF Unsubscribed
  <1>2. CASE In(q, s) /\ q[1] = s
    BY <1>2, EmptySeq DEF Unsubscribed, Once, In
  <1>3. CASE In(q, s) /\ q[1] # s
    <2>1. PICK k : k = IndexIn(q, s)
      OBVIOUS
    <2>2. k \in DOMAIN q /\ q[k] = s
      BY <1>3, <2>1 DEF IndexIn, In
    <2>3. k \in 1 .. k /\ k \in Nat
      BY <2>2, LenProperties
    <2>4. PICK r : r = SubSeq(q, 1, k - 1) \o SubSeq(q, k + 1, Len(q))
      OBVIOUS
    <2>5. /\ r \in Seq(Slots) /\ Once(r)
          /\ \A x : In(r, x) <=> \E j \in DOMAIN q : q[j] = x /\ ~(k <= j /\ j <= k)
      BY <2>2, <2>3, <2>4, CutFacts
    <2>6. \A j \in DOMAIN q : ~(k <= j /\ j <= k) <=> j # k
      BY <2>3, LenProperties
    <2>7. \A x : In(r, x) <=> In(q, x) /\ x # s
      BY <2>2, <2>5, <2>6 DEF Once, In
    <2>8. r = Unsubscribed(q, s)
      BY <1>3, <2>1, <2>4 DEF Unsubscribed
    <2> QED
      BY <2>5, <2>7, <2>8
  <1> QED
    BY <1>1, <1>2, <1>3

(* An entry is unlinked, perhaps with others, and none is added.           *)
LEMMA UnlinkedFacts ==
    ASSUME TypeOK, NEW s \in Slots, Once(list)
    PROVE  /\ Unlinked(s) \in Seq(Slots) /\ Once(Unlinked(s))
           /\ \A x : In(Unlinked(s), x) => In(list, x) /\ x # s
  <1>1. PICK q \in Seq(Slots) : q = list
    BY DEF TypeOK
  <1>2. DOMAIN q = 1 .. Len(q) /\ Len(q) \in Nat /\ Once(q)
    BY <1>1, LenProperties
  <1>3. PICK r : r = Unlinked(s)
    OBVIOUS
  <1>4. r = IF ~In(q, s) THEN q
            ELSE IF q[1] = s THEN Tail(q)
            ELSE <<q[1]>> \o SubSeq(q, IndexIn(q, s) + 1, Len(q))
    BY <1>1, <1>3 DEF Unlinked
  <1> SUFFICES /\ r \in Seq(Slots) /\ Once(r)
               /\ \A x : In(r, x) => In(q, x) /\ x # s
    BY <1>1, <1>3
  <1>5. CASE ~In(q, s)
    BY <1>2, <1>4, <1>5
  <1>6. ASSUME NEW m \in 1 .. 2, NEW k \in DOMAIN q, m <= k, q[k] = s,
               r = SubSeq(q, 1, m - 1) \o SubSeq(q, k + 1, Len(q))
        PROVE  /\ r \in Seq(Slots) /\ Once(r)
               /\ \A x : In(r, x) => In(q, x) /\ x # s
    <2>1. m \in 1 .. k /\ k \in Nat /\ m <= k /\ k <= k
      BY <1>2, <1>6
    <2>2. /\ r \in Seq(Slots) /\ Once(r)
          /\ \A x : In(r, x) <=> \E j \in DOMAIN q : q[j] = x /\ ~(m <= j /\ j <= k)
      BY <1>2, <1>6, <2>1, CutFacts
    <2>3. \A x : In(r, x) => In(q, x)
      BY <2>2 DEF In
    <2>4. ~In(r, s)
      BY <1>2, <1>6, <2>1, <2>2 DEF Once
    <2> QED
      BY <2>2, <2>3, <2>4
  <1>7. In(q, s) => q # <<>> /\ 1 \in DOMAIN q /\ 1 <= Len(q)
    BY <1>2, EmptySeq DEF In
  <1>8. CASE In(q, s) /\ q[1] = s
    <2>1. r = SubSeq(q, 2, Len(q))
      BY <1>4, <1>7, <1>8, TailIsSubSeq
    <2>2. r \in Seq(Slots)
      BY <1>4, <1>7, <1>8, HeadTailProperties
    <2>3. SubSeq(q, 1, 1 - 1) = <<>>
      BY SubSeqEmpty
    <2>4. <<>> \o r = r
      BY <2>2, ConcatEmptySeq
    <2>5. r = SubSeq(q, 1, 1 - 1) \o SubSeq(q, 1 + 1, Len(q))
      BY <2>1, <2>3, <2>4
    <2>6. 1 \in 1 .. 2 /\ 1 <= 1 /\ 1 \in DOMAIN q
      BY <1>7, <1>8
    <2> QED
      BY <1>6, <1>8, <2>5, <2>6, Zenon
  <1>9. CASE In(q, s) /\ q[1] # s
    <2>1. PICK k : k = IndexIn(q, s)
      OBVIOUS
    <2>2. k \in DOMAIN q /\ q[k] = s
      BY <1>9, <2>1 DEF IndexIn, In
    <2>3. 2 <= k
      BY <1>2, <1>9, <2>2
    <2>4. SubSeq(q, 1, 1) = <<q[1]>>
      <3>1. 1 \in 1 .. Len(q)
        BY <1>2, <1>7, <1>9
      <3>2. SubSeq(q, 1, 1) = <<q[1]>> \o SubSeq(q, 1 + 1, 1)
        BY <3>1, SubSeqRecursiveFirst
      <3>3. SubSeq(q, 1 + 1, 1) = <<>>
        BY SubSeqEmpty
      <3>4. <<q[1]>> \in Seq(Slots)
        BY <3>1, ElementOfSeq
      <3>5. <<q[1]>> \o <<>> = <<q[1]>>
        BY <3>4, ConcatEmptySeq
      <3> QED
        BY <3>2, <3>3, <3>5
    <2>5. r = SubSeq(q, 1, 2 - 1) \o SubSeq(q, k + 1, Len(q))
      <3>1. 2 - 1 = 1
        OBVIOUS
      <3>2. r = <<q[1]>> \o SubSeq(q, k + 1, Len(q))
        BY <1>4, <1>9, <2>1, Zenon
      <3> QED
        BY <2>4, <3>1, <3>2, Zenon
    <2>6. 2 \in 1 .. 2
      OBVIOUS
    <2> QED
      BY <1>6, <2>2, <2>3, <2>5, <2>6, Zenon
  <1> QED
    BY <1>5, <1>8, <1>9

(* The requested links in the list are finitely many, no more than the     *)
(* list is long.                                                           *)
LEMMA RequestedFinite ==
    ASSUME TypeOK
    PROVE  /\ IsFiniteSet(Requested) /\ Cardinality(Requested) \in Nat
           /\ Cardinality(Requested) <= Len(list)
           /\ \A x \in Requested : x \in Slots /\ In(list, x)
  <1>1. list \in Seq(Slots) /\ DOMAIN list = 1 .. Len(list) /\ Len(list) \in Nat
    BY LenProperties DEF TypeOK
  <1>2. IsFiniteSet(1 .. Len(list)) /\ Cardinality(1 .. Len(list)) = Len(list)
    BY <1>1, FS_Interval
  <1>3. list \in Surjection(1 .. Len(list), Listed)
    <2>1. list \in [1 .. Len(list) -> Listed]
      BY <1>1 DEF Listed
    <2>2. \A x \in Listed : \E i \in 1 .. Len(list) : list[i] = x
      BY <1>1 DEF Listed
    <2> QED
      BY <2>1, <2>2 DEF Surjection
  <1>4. IsFiniteSet(Listed) /\ Cardinality(Listed) <= Len(list)
    BY <1>2, <1>3, FS_Surjection
  <1>5. Requested \subseteq Listed
    BY DEF Requested
  <1>6. /\ IsFiniteSet(Requested) /\ Cardinality(Requested) <= Cardinality(Listed)
        /\ Cardinality(Requested) \in Nat /\ Cardinality(Listed) \in Nat
    BY <1>4, <1>5, FS_Subset, FS_CardinalityType
  <1>7. \A x \in Requested : x \in Slots /\ In(list, x)
    BY <1>1, ElementOfSeq DEF Requested, Listed, In
  <1> QED
    BY <1>1, <1>4, <1>6, <1>7

-----------------------------------------------------------------------------
(* Initially there is no link, no subscriber and no upload.                *)
LEMMA InitLinks == Init => LinksInv
  <1> SUFFICES ASSUME Init PROVE LinksInv
    OBVIOUS
  <1>1. /\ list = <<>> /\ list \in Seq(Slots) /\ DOMAIN list = {}
        /\ \A p \in Packages : subs[p] = <<>> /\ DOMAIN subs[p] = {}
        /\ \A u \in Uploaders : up[u] = NoUpload
        /\ \A t \in Adders : add[t] = Idle
    BY EmptySeq DEF Init
  <1>2. TypeOK
    <2>1. Idle \in AddStates
      BY DEF Idle, AddStates
    <2>2. <<>> \in Seq(Slots)
      BY EmptySeq
    <2>3. 0 \in 0 .. (SeqMod - 1) /\ 0 \in 0 .. (Retries - 1)
      BY LinksAssumption
    <2>4. NoUpload \in [pc : {"idle", "lock", "send"}, todo : Seq(Slots),
                        seq : 0..(SeqMod - 1)]
      BY <2>2, <2>3 DEF NoUpload
    <2> QED
      BY <2>1, <2>2, <2>3, <2>4 DEF Init, TypeOK, AddStates
  <1>3. NoDuplicates /\ Entries
    BY <1>1 DEF Init, NoDuplicates, Once, Entries, Entry, In
  <1>4. Adding /\ Reserved
    BY <1>1 DEF Adding, Added, Reserved, Reserving, Idle, Adders
  <1>5. Uploading /\ BufferOwned /\ NodesAllocated
    <2>1. \A u \in Uploaders : /\ up[u].pc = "idle" /\ up[u].todo = <<>>
                               /\ lock # u /\ DOMAIN up[u].todo = {}
      BY <1>1, EmptySeq, LinksAssumption DEF NoUpload, Init
    <2> QED
      BY <1>1, <2>1 DEF Uploading, BufferOwned, NodesAllocated, In
  <1>6. Requested = {}
    BY <1>1 DEF Requested, Listed
  <1>7. PeersDistinct /\ LinkBound
    <2>1. Cardinality(Requested) = 0
      BY <1>6, FS_EmptySet
    <2> QED
      BY <1>6, <2>1, LinksAssumption DEF PeersDistinct, LinkBound, Requested
  <1> QED
    BY <1>2, <1>3, <1>4, <1>5, <1>7 DEF LinksInv

(* When no requested link is listed that was not, and the UDP thread does  *)
(* not reserve more, what is said of the requested links stays true.       *)
LEMMA FewerLinks ==
    ASSUME LinksInv, Requested' \subseteq Requested,
           \A x \in Requested' : peer'[x] = peer[x],
           add'["udp"].pc \in Reserving =>
               add["udp"].pc \in Reserving /\ add'["udp"].peer = add["udp"].peer
    PROVE  PeersDistinct' /\ Reserved' /\ LinkBound'
  <1>1. /\ IsFiniteSet(Requested) /\ Cardinality(Requested) \in Nat
        /\ Cardinality(Requested) <= Max /\ Max \in Nat
    BY RequestedFinite, LinksAssumption DEF LinksInv, LinkBound, Requested
  <1>2. /\ Cardinality(Requested') \in Nat
        /\ Cardinality(Requested') <= Cardinality(Requested)
    BY <1>1, FS_Subset, FS_CardinalityType
  <1>3. PeersDistinct'
    BY DEF LinksInv, PeersDistinct
  <1>4. Reserved'
    BY <1>1, <1>2 DEF LinksInv, Reserved
  <1>5. Cardinality(Requested') <= Max
    BY <1>1, <1>2
  <1>6. LinkBound'
    BY <1>5 DEF LinkBound, Requested
  <1> QED
    BY <1>3, <1>4, <1>6

(* The uploads.  Only up, lock, buf and byReq change; the subscribers that *)
(* an upload has left to do are subscribers of its package.                *)
LEMMA UploadStep ==
    ASSUME LinksInv, NEW u \in Uploaders,
           UploadCheck(u) \/ UploadFill(u) \/ UploadSend(u) \/ UploadDone(u)
    PROVE  LinksInv'
  <1> USE DEF LinksInv
  <1>1. UNCHANGED <<typed, add, list, pc, count, network, subs, entryVars, crashed>>
    BY DEF UploadCheck, UploadFill, UploadSend, UploadDone
  <1>2. /\ UNCHANGED <<typed, add, list, pc, count, network, subs, crashed>>
        /\ UNCHANGED <<peer, timed, hasCbk, rooted>>
    BY <1>1 DEF entryVars
  <1>3. NoDuplicates' /\ Entries' /\ Adding'
    BY <1>2 DEF NoDuplicates, Entries, Entry, Adding, Added
  <1>4. PeersDistinct' /\ Reserved' /\ LinkBound'
    BY <1>2 DEF PeersDistinct, Reserved, LinkBound, Requested, Listed
  <1>5. /\ up \in [Uploaders -> [pc : {"idle", "lock", "send"}, todo : Seq(Slots),
                             seq : 0..(SeqMod - 1)]]
        /\ lock \in Uploaders \cup {NULL}
        /\ buf \in [package : Packages, seq : 0..(SeqMod - 1)] \cup {NULL}
        /\ byReq \in 0..(SeqMod - 1) /\ subs \in [Packages -> Seq(Slots)]
        /\ SeqMod \in Nat /\ SeqMod > 0
    BY LinksAssumption DEF TypeOK
  <1>6. Package(u) \in Packages /\ subs[Package(u)] \in Seq(Slots) /\ u # NULL
    BY <1>5, LinksAssumption DEF Package, Packages
  <1>7. ASSUME up' \in [Uploaders -> [pc : {"idle", "lock", "send"}, todo : Seq(Slots),
                             seq : 0..(SeqMod - 1)]],
               lock' \in Uploaders \cup {NULL},
               buf' \in [package : Packages, seq : 0..(SeqMod - 1)] \cup {NULL},
               byReq' \in 0..(SeqMod - 1), Uploading', BufferOwned',
               \A s \in Slots : In(up'[u].todo, s) => network[s],
               \A w \in Uploaders \ {u} : up'[w] = up[w]
        PROVE  LinksInv'
    <2>1. TypeOK'
      BY <1>2, <1>7 DEF TypeOK
    <2>2. NodesAllocated'
      BY <1>2, <1>7 DEF NodesAllocated
    <2> QED
      BY <1>3, <1>4, <1>7, <2>1, <2>2
  <1>8. CASE UploadCheck(u)
    <2>1. /\ up[u].pc = "idle" /\ up' = [up EXCEPT ![u].pc = "lock"]
          /\ UNCHANGED <<lock, buf, byReq>>
      BY <1>8 DEF UploadCheck
    <2>2. /\ \A w \in Uploaders \ {u} : up'[w] = up[w]
          /\ up'[u].pc = "lock" /\ up'[u].todo = up[u].todo /\ up'[u].seq = up[u].seq
          /\ up' \in [Uploaders -> [pc : {"idle", "lock", "send"}, todo : Seq(Slots),
                             seq : 0..(SeqMod - 1)]]
      BY <1>5, <2>1
    <2>3. Uploading' /\ BufferOwned'
      BY <2>1, <2>2 DEF Uploading, BufferOwned
    <2>4. \A s \in Slots : In(up'[u].todo, s) => network[s]
      BY <2>2 DEF NodesAllocated
    <2> QED
      BY <1>5, <1>7, <2>1, <2>2, <2>3, <2>4
  <1>9. CASE UploadFill(u)
    <2>1. /\ up[u].pc = "lock" /\ lock = NULL /\ lock' = u
          /\ buf' = [package |-> Package(u), seq |-> byReq]
          /\ up' = [up EXCEPT ![u] =
                 [pc |-> "send", todo |-> subs[Package(u)], seq |-> byReq]]
          /\ byReq' = (byReq + 1) % SeqMod
      BY <1>9 DEF UploadFill, MayUpload
    <2>2. /\ \A w \in Uploaders \ {u} : up'[w] = up[w]
          /\ up'[u].pc = "send" /\ up'[u].todo = subs[Package(u)] /\ up'[u].seq = byReq
          /\ up' \in [Uploaders -> [pc : {"idle", "lock", "send"}, todo : Seq(Slots),
                             seq : 0..(SeqMod - 1)]]
      BY <1>5, <1>6, <2>1
    <2>3. \A w \in Uploaders \ {u} : up'[w].pc # "send"
      BY <2>1, <2>2, LinksAssumption DEF Uploading
    <2>4. Uploading'
      BY <2>1, <2>2, <2>3 DEF Uploading
    <2>5. BufferOwned'
      BY <2>1, <2>2, <2>3 DEF BufferOwned
    <2>6. \A s \in Slots : In(up'[u].todo, s) => network[s]
      BY <1>6, <2>2 DEF NodesAllocated
    <2>7. byReq' \in 0..(SeqMod - 1)
      BY <1>5, <2>1
    <2>8. buf' \in [package : Packages, seq : 0..(SeqMod - 1)]
      BY <1>5, <1>6, <2>1
    <2> QED
      BY <1>7, <2>1, <2>2, <2>4, <2>5, <2>6, <2>7, <2>8
  <1>10. CASE UploadSend(u)
    <2>1. /\ up[u].pc = "send" /\ up[u].todo # <<>>
          /\ up' = [up EXCEPT ![u].todo = Tail(@)]
          /\ UNCHANGED <<lock, buf, byReq>>
      BY <1>10 DEF UploadSend
    <2>2. PICK q : q = up[u].todo /\ q \in Seq(Slots) /\ q # <<>>
      BY <1>5, <2>1
    <2>3. PICK r : r = Tail(q)
      OBVIOUS
    <2>4. r \in Seq(Slots) /\ \A s : In(r, s) => In(q, s)
      <3>1. /\ r \in Seq(Slots) /\ Len(r) = Len(q) - 1 /\ Len(q) \in Nat
            /\ \A i \in 1 .. Len(r) : r[i] = q[i + 1]
        BY <2>2, <2>3, HeadTailProperties, LenProperties
      <3>2. DOMAIN r = 1 .. Len(q) - 1 /\ DOMAIN q = 1 .. Len(q)
        BY <2>2, <3>1, LenProperties
      <3>3. \A i \in DOMAIN r : i + 1 \in DOMAIN q /\ r[i] = q[i + 1]
        BY <3>1, <3>2
      <3> QED
        BY <3>1, <3>3 DEF In
    <2>5. /\ \A w \in Uploaders \ {u} : up'[w] = up[w]
          /\ up'[u].pc = "send" /\ up'[u].todo = r /\ up'[u].seq = up[u].seq
          /\ up' \in [Uploaders -> [pc : {"idle", "lock", "send"}, todo : Seq(Slots),
                             seq : 0..(SeqMod - 1)]]
      BY <1>5, <2>1, <2>2, <2>3, <2>4
    <2>6. Uploading' /\ BufferOwned'
      BY <2>1, <2>5 DEF Uploading, BufferOwned
    <2>7. \A s \in Slots : In(up'[u].todo, s) => network[s]
      BY <2>2, <2>4, <2>5 DEF NodesAllocated
    <2> QED
      BY <1>5, <1>7, <2>1, <2>5, <2>6, <2>7
  <1>11. CASE UploadDone(u)
    <2>1. /\ up[u].pc = "send" /\ lock' = NULL /\ buf' = NULL /\ byReq' = byReq
          /\ up' = [up EXCEPT ![u] = NoUpload]
      BY <1>11 DEF UploadDone
    <2>2. NoUpload \in [pc : {"idle", "lock", "send"}, todo : Seq(Slots),
                             seq : 0..(SeqMod - 1)]
      BY <1>5, EmptySeq DEF NoUpload
    <2>3. /\ \A w \in Uploaders \ {u} : up'[w] = up[w]
          /\ up'[u] = NoUpload
          /\ up' \in [Uploaders -> [pc : {"idle", "lock", "send"}, todo : Seq(Slots),
                             seq : 0..(SeqMod - 1)]]
      BY <1>5, <2>1, <2>2
    <2>4. up'[u].pc = "idle" /\ up'[u].todo = <<>>
      BY <2>3 DEF NoUpload
    <2>5. \A w \in Uploaders : up'[w].pc # "send" /\ lock' # w
      BY <2>1, <2>3, <2>4, LinksAssumption DEF Uploading
    <2>6. Uploading' /\ BufferOwned'
      BY <2>3, <2>4, <2>5 DEF Uploading, BufferOwned
    <2>7. \A s \in Slots : In(up'[u].todo, s) => network[s]
      BY <2>4, EmptySeq DEF In
    <2> QED
      BY <1>5, <1>7, <2>1, <2>3, <2>6, <2>7
  <1> QED
    BY <1>8, <1>9, <1>10, <1>11

(* What a step that uploads nothing leaves alone.                          *)
LEMMA NoUploadStep ==
    ASSUME LinksInv, UNCHANGED uploadVars
    PROVE  /\ UNCHANGED <<up, lock, buf, byReq>> /\ Uploading' /\ BufferOwned'
  <1>1. UNCHANGED <<up, lock, buf, byReq>>
    BY DEF uploadVars
  <1> QED
    BY <1>1 DEF LinksInv, Uploading, BufferOwned

(* eth_link_add_type and the faults change only a flag.                    *)
LEMMA FlagStep ==
    ASSUME LinksInv,
           \/ eth_link_add_type \/ \E s \in Slots : NullRoot(s)
           \/ \E u \in Uploaders : UploadFaults(u)
    PROVE  LinksInv'
  <1> USE DEF LinksInv
  <1>1. /\ UNCHANGED <<add, list, pc, count, network, subs, entryVars, uploadVars>>
        /\ typed' \in BOOLEAN /\ crashed' \in BOOLEAN
    BY DEF TypeOK, eth_link_add_type, NullRoot, UploadFaults
  <1>2. UNCHANGED <<add, list, pc, count, network, subs, peer, timed, hasCbk, rooted,
                    up, lock, buf, byReq>>
    BY <1>1 DEF entryVars, uploadVars
  <1>3. TypeOK'
    BY <1>1, <1>2 DEF TypeOK
  <1>4. NoDuplicates' /\ Entries' /\ Adding' /\ Uploading'
    BY <1>2 DEF NoDuplicates, Entries, Entry, Adding, Added, Uploading
  <1>5. PeersDistinct' /\ Reserved' /\ LinkBound'
    BY <1>2 DEF PeersDistinct, Reserved, LinkBound, Requested, Listed
  <1>6. BufferOwned' /\ NodesAllocated'
    BY <1>2 DEF BufferOwned, NodesAllocated
  <1> QED
    BY <1>3, <1>4, <1>5, <1>6

(* A search that finds the peer nowhere and room in the list finds the     *)
(* same of the requested links.                                            *)
LEMMA SearchFinds ==
    ASSUME TypeOK, NEW a, MayAdd(a)
    PROVE  /\ \A x \in Requested : peer[x] # a
           /\ Cardinality(Requested) < Max
  <1>1. list \in Seq(Slots) /\ Len(list) \in Nat /\ Max \in Nat /\ Max > 0
    BY LinksAssumption, LenProperties DEF TypeOK
  <1>2. /\ Cardinality(Requested) \in Nat /\ Cardinality(Requested) <= Len(list)
        /\ \A x \in Requested : In(list, x)
    BY RequestedFinite
  <1>3. list = <<>> => Len(list) = 0 /\ DOMAIN list = {}
    BY EmptySeq
  <1>4. Len(list) < Max
    BY <1>1, <1>3 DEF MayAdd
  <1>5. \A i \in DOMAIN list : peer[list[i]] # a
    BY <1>3 DEF MayAdd
  <1> QED
    BY <1>1, <1>2, <1>4, <1>5 DEF In

(* A thread that searches the list, without a lock, notes the peer and the *)
(* last entry it met.                                                      *)
LEMMA SearchStep ==
    ASSUME LinksInv,
           AddDefault \/ \E a \in Peers : eth_protocol_cntinfo_handler(a)
    PROVE  LinksInv'
  <1> USE DEF LinksInv
  <1>1. UNCHANGED <<typed, list, pc, count, network, subs, entryVars, uploadVars, crashed>>
    BY DEF AddDefault, eth_protocol_cntinfo_handler
  <1>2. UNCHANGED <<typed, list, pc, count, network, subs, peer, timed, hasCbk, rooted,
                    crashed>>
    BY <1>1 DEF entryVars
  <1>3. UNCHANGED <<up, lock, buf, byReq>> /\ Uploading' /\ BufferOwned'
    BY <1>1, NoUploadStep
  <1>4. add \in [Adders -> AddStates]
    BY DEF TypeOK, AddStates
  <1>5. NoDuplicates' /\ Entries' /\ NodesAllocated' /\ PeersDistinct' /\ LinkBound'
    <2>1. NoDuplicates' /\ Entries'
      BY <1>2 DEF NoDuplicates, Entries, Entry
    <2>2. NodesAllocated'
      BY <1>2, <1>3 DEF NodesAllocated
    <2>3. PeersDistinct' /\ LinkBound'
      BY <1>2 DEF PeersDistinct, LinkBound, Requested, Listed
    <2> QED
      BY <2>1, <2>2, <2>3
  <1>6. Requested' = Requested
    BY <1>2 DEF Requested, Listed
  <1>7. ASSUME NEW t \in Adders, NEW e,
               e \in AddStates,
               add' = [add EXCEPT ![t] = e],
               (e.pc = "done" /\ t = "main") \/ (e.pc = "create" /\ MayAdd(e.peer))
        PROVE  LinksInv'
    <2>1. /\ add'[t] = e /\ \A w \in Adders \ {t} : add'[w] = add[w]
          /\ add' \in [Adders -> AddStates]
      BY <1>4, <1>7
    <2>2. TypeOK'
      BY <1>2, <1>3, <2>1 DEF TypeOK, AddStates
    <2>3. Adding'
      <3>1. \A w \in Adders : add'[w].pc \in {"heartbeat", "target", "link"} =>
                add'[w] = add[w]
        BY <1>7, <2>1
      <3> QED
        BY <1>2, <3>1 DEF Adding, Added
    <2>4. Reserved'
      <3>1. CASE t = "udp"
        <4>1. /\ \A x \in Requested : peer[x] # e.peer
              /\ Cardinality(Requested) < Max
          BY <1>7, <3>1, SearchFinds
        <4> QED
          BY <1>2, <1>6, <2>1, <3>1, <4>1 DEF Reserved
      <3>2. CASE t # "udp"
        <4>1. add'["udp"] = add["udp"]
          BY <2>1, <3>2 DEF Adders
        <4> QED
          BY <1>2, <1>6, <4>1 DEF Reserved
      <3> QED
        BY <3>1, <3>2
    <2> QED
      BY <1>3, <1>5, <2>2, <2>3, <2>4
  <1>8. ASSUME NEW t \in Adders, NEW a \in Peers, Search(t, a) PROVE LinksInv'
    <2>1. list # <<>> => list[Len(list)] \in Slots
      BY LenProperties, ElementOfSeq, EmptySeq DEF TypeOK
    <2>2. PICK e : e = [pc |-> "create", peer |-> a, slot |-> NULL,
                        tail |-> IF list = <<>> THEN NULL ELSE list[Len(list)]]
      OBVIOUS
    <2>3. /\ e \in AddStates
          /\ e.pc = "create" /\ e.peer = a
      BY <2>1, <2>2 DEF AddStates
    <2>4. add' = [add EXCEPT ![t] = e] /\ MayAdd(a)
      BY <1>8, <2>2 DEF Search
    <2> QED
      BY <1>7, <2>3, <2>4
  <1>9. ASSUME add' = [add EXCEPT !["main"].pc = "done"] PROVE LinksInv'
    <2>1. PICK e : e = [add["main"] EXCEPT !.pc = "done"]
      OBVIOUS
    <2>2. /\ e \in AddStates
          /\ e.pc = "done"
      BY <1>4, <2>1 DEF Adders, AddStates
    <2>3. PICK t \in Adders : t = "main"
      BY DEF Adders
    <2>4. add' = [add EXCEPT ![t] = e]
      BY <1>4, <1>9, <2>1, <2>3
    <2> QED
      BY <1>7, <2>2, <2>3, <2>4
  <1>10. Default \in Peers /\ "main" \in Adders /\ "udp" \in Adders
    BY LinksAssumption DEF Adders
  <1> QED
    BY <1>8, <1>9, <1>10 DEF AddDefault, eth_protocol_cntinfo_handler

(* tcp_client_create: the block is free, so nothing refers to it.          *)
LEMMA CreateStep ==
    ASSUME LinksInv, NEW t \in Adders, CreateLink(t)
    PROVE  LinksInv'
  <1> USE DEF LinksInv
  <1>1. UNCHANGED uploadVars
    BY DEF CreateLink
  <1>2. UNCHANGED <<up, lock, buf, byReq>> /\ Uploading' /\ BufferOwned'
    BY <1>1, NoUploadStep
  <1>3. PICK s \in Slots :
          /\ pc[s] = "free" /\ add[t].pc = "create"
          /\ pc' = [pc EXCEPT ![s] = "connect"]
          /\ peer' = [peer EXCEPT ![s] = add[t].peer]
          /\ timed' = [timed EXCEPT ![s] = (t = "udp")]
          /\ add' = [add EXCEPT ![t].pc = "heartbeat", ![t].slot = s]
          /\ UNCHANGED <<typed, list, count, network, subs, hasCbk, rooted, crashed>>
    BY DEF CreateLink
  <1>4. /\ add \in [Adders -> AddStates]
        /\ pc \in [Slots -> {"free", "lost", "connect", "conn", "delete", "delete2", "unlink"}]
        /\ peer \in [Slots -> Peers \cup {NULL}]
        /\ timed \in [Slots -> BOOLEAN]
        /\ hasCbk \in [Slots -> BOOLEAN] /\ rooted \in [Slots -> BOOLEAN]
    BY DEF TypeOK, AddStates
  <1>5. /\ pc' \in [Slots -> {"free", "lost", "connect", "conn", "delete", "delete2", "unlink"}]
        /\ pc'[s] = "connect" /\ \A x \in Slots \ {s} : pc'[x] = pc[x]
        /\ peer' \in [Slots -> Peers \cup {NULL}]
        /\ peer'[s] = add[t].peer /\ \A x \in Slots \ {s} : peer'[x] = peer[x]
    BY <1>3, <1>4 DEF AddStates
  <1>6. /\ timed' \in [Slots -> BOOLEAN]
        /\ timed'[s] = (t = "udp") /\ \A x \in Slots \ {s} : timed'[x] = timed[x]
    BY <1>3, <1>4
  <1>7. /\ add'[t].pc = "heartbeat" /\ add'[t].slot = s /\ add'[t].peer = add[t].peer
        /\ \A w \in Adders \ {t} : add'[w] = add[w]
        /\ add' \in [Adders -> AddStates]
    <2>1. PICK e : e = [add[t] EXCEPT !.pc = "heartbeat", !.slot = s]
      OBVIOUS
    <2>2. e \in AddStates /\ e.pc = "heartbeat" /\ e.slot = s /\ e.peer = add[t].peer
      BY <1>4, <2>1 DEF AddStates
    <2>3. add' = [add EXCEPT ![t] = e]
      BY <1>3, <1>4, <2>1
    <2> QED
      BY <1>4, <2>2, <2>3
  <1>8. /\ ~hasCbk[s] /\ ~network[s] /\ ~rooted[s] /\ ~In(list, s)
        /\ \A w \in Adders : add[w].pc \in {"heartbeat", "target", "link"} =>
              add[w].slot \in Slots \ {s}
    BY <1>3 DEF Entries, Entry, Adding, Added
  <1>9. TypeOK'
    BY <1>2, <1>3, <1>5, <1>6, <1>7 DEF TypeOK, AddStates
  <1>10. NoDuplicates' /\ NodesAllocated'
    BY <1>2, <1>3 DEF NoDuplicates, NodesAllocated
  <1>11. Entries'
    BY <1>3, <1>5, <1>6, <1>8 DEF Entries, Entry
  <1>12. Adding'
    <2> SUFFICES ASSUME NEW w \in Adders, add'[w].pc \in {"heartbeat", "target", "link"}
                 PROVE  Added(w)'
      BY DEF Adding, Added
    <2> USE DEF Added
    <2>1. CASE w = t
      BY <1>3, <1>5, <1>6, <1>7, <1>8, <2>1
    <2>2. CASE w # t
      BY <1>3, <1>5, <1>6, <1>7, <1>8, <2>2 DEF Adding, Added
    <2> QED
      BY <2>1, <2>2
  <1>13. PeersDistinct' /\ Reserved' /\ LinkBound'
    <2>1. \A x \in Listed' : x \in Slots \ {s} /\ x \in Listed
      BY <1>3, <1>8, LenProperties, ElementOfSeq DEF Listed, In, TypeOK
    <2>2. \A x \in Requested' : x \in Requested /\ x \in Slots \ {s}
      BY <1>6, <2>1 DEF Requested
    <2>3. \A x \in Requested' : peer'[x] = peer[x]
      BY <1>5, <2>2
    <2>4. add'["udp"].pc \in Reserving =>
               add["udp"].pc \in Reserving /\ add'["udp"].peer = add["udp"].peer
      BY <1>3, <1>7 DEF Reserving, Adders
    <2> QED
      BY <2>2, <2>3, <2>4, FewerLinks
  <1> QED
    BY <1>2, <1>9, <1>10, <1>11, <1>12, <1>13

(* The two threads add different entries: only one of them is timed.       *)
LEMMA SlotsDiffer ==
    ASSUME LinksInv, NEW t \in Adders, NEW w \in Adders, t # w,
           add[t].pc \in {"heartbeat", "target", "link"},
           add[w].pc \in {"heartbeat", "target", "link"}
    PROVE  add[t].slot # add[w].slot
  BY DEF LinksInv, Adding, Added, Adders

(* What is left of the list when its end is cut off behind an entry.       *)
LEMMA TailFacts ==
    ASSUME TypeOK, Once(list), NEW x \in Listed
    PROVE  LET q == SubSeq(list, 1, CHOOSE i \in DOMAIN list : list[i] = x) IN
           /\ q \in Seq(Slots) /\ Once(q)
           /\ \A y : In(q, y) => In(list, y)
  <1>1. PICK k : k = CHOOSE i \in DOMAIN list : list[i] = x
    OBVIOUS
  <1>2. k \in DOMAIN list
    BY <1>1 DEF Listed
  <1>3. PICK q \in Seq(Slots) : q = list
    BY DEF TypeOK
  <1>4. PICK r : r = SubSeq(q, 1, k)
    OBVIOUS
  <1>5. r \in Seq(Slots) /\ Once(r) /\ \A y : In(r, y) => In(q, y)
    BY <1>2, <1>3, <1>4, PrefixFacts
  <1> QED
    BY <1>1, <1>3, <1>4, <1>5

(* A thread is done with adding: nothing said of it is left to prove.      *)
LEMMA Finished ==
    ASSUME LinksInv, NEW t \in Adders, add' = [add EXCEPT ![t] = Finish(t)]
    PROVE  /\ add' \in [Adders -> AddStates]
           /\ \A w \in Adders \ {t} : add'[w] = add[w]
           /\ add'[t].pc \in {"idle", "done"}
  <1>1. add \in [Adders -> AddStates]
    BY DEF LinksInv, TypeOK, AddStates
  <1>2. PICK e : e = Finish(t)
    OBVIOUS
  <1>3. /\ e \in AddStates
        /\ e.pc \in {"idle", "done"}
    BY <1>2 DEF Finish, Idle, AddStates
  <1> QED
    BY <1>1, <1>2, <1>3

(* The link could not be made: the pointer behind the last entry is set to *)
(* NULL, which cuts off what others linked there meanwhile.                *)
LEMMA CreateFailsStep ==
    ASSUME LinksInv, NEW t \in Adders, CreateFails(t)
    PROVE  LinksInv'
  <1> USE DEF LinksInv
  <1>1. /\ add' = [add EXCEPT ![t] = Finish(t)] /\ UNCHANGED uploadVars
        /\ UNCHANGED <<typed, pc, count, network, subs, peer, timed, hasCbk, rooted, crashed>>
        /\ list' = IF add[t].tail = NULL THEN <<>>
               ELSE IF add[t].tail \in Listed
               THEN SubSeq(list, 1, CHOOSE i \in DOMAIN list : list[i] = add[t].tail)
               ELSE list
    BY DEF CreateFails, entryVars
  <1>2. UNCHANGED <<up, lock, buf, byReq>> /\ Uploading' /\ BufferOwned'
    BY <1>1, NoUploadStep
  <1>3. list' \in Seq(Slots) /\ Once(list') /\ \A x : In(list', x) => In(list, x)
    <2>1. CASE add[t].tail = NULL
      BY <1>1, <2>1, EmptySeq DEF Once, In
    <2>2. CASE add[t].tail # NULL /\ add[t].tail \in Listed
      BY <1>1, <2>2, TailFacts DEF NoDuplicates
    <2>3. CASE add[t].tail # NULL /\ add[t].tail \notin Listed
      BY <1>1, <2>3 DEF NoDuplicates, TypeOK
    <2> QED
      BY <2>1, <2>2, <2>3
  <1>4. /\ add' \in [Adders -> AddStates]
        /\ \A w \in Adders \ {t} : add'[w] = add[w]
        /\ add'[t].pc \in {"idle", "done"}
    BY <1>1, Finished
  <1>5. TypeOK'
    BY <1>1, <1>2, <1>3, <1>4 DEF TypeOK, AddStates
  <1>6. NoDuplicates' /\ NodesAllocated'
    BY <1>1, <1>2, <1>3 DEF NoDuplicates, NodesAllocated
  <1>7. Entries'
    BY <1>1, <1>3 DEF Entries, Entry
  <1>8. Adding'
    <2>1. \A w \in Adders : add'[w].pc \in {"heartbeat", "target", "link"} =>
                add'[w] = add[w]
      BY <1>4
    <2> QED
      BY <1>1, <2>1 DEF Adding, Added
  <1>9. PeersDistinct' /\ Reserved' /\ LinkBound'
    <2>1. \A x \in Requested' : x \in Requested
      BY <1>1, <1>3 DEF Requested, Listed, In
    <2>2. add'["udp"].pc \in Reserving =>
               add["udp"].pc \in Reserving /\ add'["udp"].peer = add["udp"].peer
      BY <1>4 DEF Reserving, Adders
    <2> QED
      BY <1>1, <2>1, <2>2, FewerLinks
  <1> QED
    BY <1>2, <1>5, <1>6, <1>7, <1>8, <1>9

(* The link subscribes to the heartbeat, then to the target information.   *)
LEMMA SubscribeHeartbeatStep ==
    ASSUME LinksInv, NEW t \in Adders, SubscribeHeartbeat(t)
    PROVE  LinksInv'
  <1> USE DEF LinksInv
  <1>1. /\ add[t].pc = "heartbeat" /\ UNCHANGED uploadVars
        /\ subs' = [subs EXCEPT !["heartbeat"] = Append(@, add[t].slot)]
        /\ network' = [network EXCEPT ![add[t].slot] = TRUE]
        /\ add' = [add EXCEPT ![t].pc = "target"]
        /\ UNCHANGED <<typed, list, pc, count, peer, timed, hasCbk, rooted, crashed>>
    BY DEF SubscribeHeartbeat, alink_package_connect_send, entryVars
  <1>2. UNCHANGED <<up, lock, buf, byReq>> /\ Uploading' /\ BufferOwned'
    BY <1>1, NoUploadStep
  <1>3. PICK s \in Slots : s = add[t].slot
    BY <1>1 DEF Adding, Added
  <1>4. /\ pc[s] # "free" /\ ~rooted[s] /\ peer[s] = add[t].peer
        /\ timed[s] <=> t = "udp"
        /\ ~hasCbk[s] /\ ~network[s]
    BY <1>1, <1>3 DEF Adding, Added
  <1>5. "heartbeat" \in Packages /\ "target" \in Packages
    BY DEF Packages
  <1>6. ~In(subs["heartbeat"], s) /\ ~In(subs["target"], s)
    BY <1>4, <1>5 DEF NodesAllocated
  <1>7. /\ add \in [Adders -> AddStates]
        /\ network \in [Slots -> BOOLEAN] /\ subs \in [Packages -> Seq(Slots)]
    BY DEF TypeOK, AddStates
  <1>8. /\ add'[t].pc = "target" /\ add'[t].slot = s /\ add'[t].peer = add[t].peer
        /\ \A w \in Adders \ {t} : add'[w] = add[w]
        /\ add' \in [Adders -> AddStates]
    BY <1>1, <1>3, <1>7 DEF AddStates
  <1>9. /\ network' \in [Slots -> BOOLEAN] /\ network'[s]
        /\ \A x \in Slots \ {s} : network'[x] = network[x]
    BY <1>1, <1>3, <1>7
  <1>10. PICK q : q = Append(subs["heartbeat"], s)
    OBVIOUS
  <1>11. /\ q \in Seq(Slots) /\ Once(q)
         /\ \A x : In(q, x) <=> In(subs["heartbeat"], x) \/ x = s
    BY <1>5, <1>6, <1>7, <1>10, AppendFacts DEF NoDuplicates
  <1>12. /\ subs' \in [Packages -> Seq(Slots)]
         /\ subs'["heartbeat"] = q /\ subs'["target"] = subs["target"]
    BY <1>1, <1>3, <1>5, <1>7, <1>10, <1>11
  <1>13. TypeOK'
    BY <1>1, <1>2, <1>8, <1>9, <1>12 DEF TypeOK, AddStates
  <1>14. NoDuplicates'
    BY <1>1, <1>11, <1>12 DEF NoDuplicates, Packages
  <1>15. NodesAllocated'
    <2>1. \A p \in Packages, x \in Slots : In(subs'[p], x) => network'[x]
      BY <1>9, <1>11, <1>12 DEF NodesAllocated, Packages
    <2> QED
      BY <1>2, <1>9, <2>1 DEF NodesAllocated
  <1>16. Entries'
    <2> SUFFICES ASSUME NEW x \in Slots
                 PROVE  Entry(x)'
      BY DEF Entries, Entry
    <2> USE DEF Entry
    <2>1. CASE x = s
      BY <1>1, <1>4, <2>1 DEF Entries, Entry
    <2>2. CASE x # s
      BY <1>1, <1>9, <1>11, <1>12, <2>2 DEF Entries, Entry
    <2> QED
      BY <2>1, <2>2
  <1>17. Adding'
    <2> SUFFICES ASSUME NEW w \in Adders, add'[w].pc \in {"heartbeat", "target", "link"}
                 PROVE  Added(w)'
      BY DEF Adding, Added
    <2> USE DEF Added
    <2>1. CASE w = t
      BY <1>1, <1>4, <1>6, <1>8, <1>9, <1>12, <2>1
    <2>2. CASE w # t
      <3>1. add'[w] = add[w] /\ add[w].slot # s
        BY <1>1, <1>3, <1>8, <2>2, SlotsDiffer
      <3>2. Added(w) /\ add[w].slot \in Slots \ {s}
        BY <3>1 DEF Adding, Added
      <3> QED
        BY <1>1, <1>9, <1>12, <3>1, <3>2
    <2> QED
      BY <2>1, <2>2
  <1>18. PeersDistinct' /\ Reserved' /\ LinkBound'
    <2>1. Requested' = Requested
      BY <1>1 DEF Requested, Listed
    <2>2. add'["udp"].pc \in Reserving =>
               add["udp"].pc \in Reserving /\ add'["udp"].peer = add["udp"].peer
      BY <1>1, <1>8 DEF Reserving, Adders
    <2> QED
      BY <1>1, <2>1, <2>2, FewerLinks
  <1> QED
    BY <1>2, <1>13, <1>14, <1>15, <1>16, <1>17, <1>18

(* The new link is subscribed to the targets; its maker still holds it.    *)
LEMMA SubscribeTargetStep ==
    ASSUME LinksInv, NEW t \in Adders, SubscribeTarget(t)
    PROVE  LinksInv'
  <1> USE DEF LinksInv
  <1>1. /\ add[t].pc = "target" /\ UNCHANGED uploadVars
        /\ subs' = [subs EXCEPT !["target"] = Append(@, add[t].slot)]
        /\ hasCbk' = [hasCbk EXCEPT ![add[t].slot] = TRUE]
        /\ add' = [add EXCEPT ![t].pc = "link"]
        /\ UNCHANGED <<typed, list, pc, count, network, peer, timed, rooted, crashed>>
    BY DEF SubscribeTarget, alink_package_connect_send
  <1>2. UNCHANGED <<up, lock, buf, byReq>> /\ Uploading' /\ BufferOwned'
    BY <1>1, NoUploadStep
  <1>3. PICK s \in Slots : s = add[t].slot
    BY <1>1 DEF Adding, Added
  <1>4. /\ pc[s] # "free" /\ ~rooted[s] /\ peer[s] = add[t].peer
        /\ timed[s] <=> t = "udp"
        /\ ~hasCbk[s] /\ network[s] /\ ~In(subs["target"], s)
    BY <1>1, <1>3 DEF Adding, Added
  <1>5. "heartbeat" \in Packages /\ "target" \in Packages
    BY DEF Packages
  <1>6. /\ add \in [Adders -> AddStates]
        /\ hasCbk \in [Slots -> BOOLEAN] /\ subs \in [Packages -> Seq(Slots)]
    BY DEF TypeOK, AddStates
  <1>7. /\ add'[t].pc = "link" /\ add'[t].slot = s /\ add'[t].peer = add[t].peer
        /\ \A w \in Adders \ {t} : add'[w] = add[w]
        /\ add' \in [Adders -> AddStates]
    BY <1>1, <1>3, <1>6 DEF AddStates
  <1>8. /\ hasCbk' \in [Slots -> BOOLEAN] /\ hasCbk'[s]
        /\ \A x \in Slots \ {s} : hasCbk'[x] = hasCbk[x]
    BY <1>1, <1>3, <1>6
  <1>9. PICK q : q = Append(subs["target"], s)
    OBVIOUS
  <1>10. /\ q \in Seq(Slots) /\ Once(q)
         /\ \A x : In(q, x) <=> In(subs["target"], x) \/ x = s
    BY <1>4, <1>5, <1>6, <1>9, AppendFacts DEF NoDuplicates
  <1>11. /\ subs' \in [Packages -> Seq(Slots)]
         /\ subs'["target"] = q /\ subs'["heartbeat"] = subs["heartbeat"]
    BY <1>1, <1>3, <1>5, <1>6, <1>9, <1>10
  <1>12. TypeOK'
    BY <1>1, <1>2, <1>7, <1>8, <1>11 DEF TypeOK, AddStates
  <1>13. NoDuplicates'
    BY <1>1, <1>10, <1>11 DEF NoDuplicates, Packages
  <1>14. NodesAllocated'
    <2>1. \A p \in Packages, x \in Slots : In(subs'[p], x) => network'[x]
      BY <1>1, <1>4, <1>10, <1>11 DEF NodesAllocated, Packages
    <2> QED
      BY <1>1, <1>2, <2>1 DEF NodesAllocated
  <1>15. Entries'
    <2> SUFFICES ASSUME NEW x \in Slots
                 PROVE  Entry(x)'
      BY DEF Entries, Entry
    <2> USE DEF Entry
    <2>1. CASE x = s
      BY <1>1, <1>4, <2>1 DEF Entries, Entry
    <2>2. CASE x # s
      BY <1>1, <1>8, <1>11, <2>2 DEF Entries, Entry
    <2> QED
      BY <2>1, <2>2
  <1>16. Adding'
    <2> SUFFICES ASSUME NEW w \in Adders, add'[w].pc \in {"heartbeat", "target", "link"}
                 PROVE  Added(w)'
      BY DEF Adding, Added
    <2> USE DEF Added
    <2>1. CASE w = t
      BY <1>1, <1>4, <1>7, <1>8, <2>1
    <2>2. CASE w # t
      <3>1. add'[w] = add[w] /\ add[w].slot # s
        BY <1>1, <1>3, <1>7, <2>2, SlotsDiffer
      <3>2. Added(w) /\ add[w].slot \in Slots \ {s}
        BY <3>1 DEF Adding, Added
      <3> QED
        BY <1>1, <1>8, <1>10, <1>11, <3>1, <3>2
    <2> QED
      BY <2>1, <2>2
  <1>17. PeersDistinct' /\ Reserved' /\ LinkBound'
    <2>1. Requested' = Requested
      BY <1>1 DEF Requested, Listed
    <2>2. add'["udp"].pc \in Reserving =>
               add["udp"].pc \in Reserving /\ add'["udp"].peer = add["udp"].peer
      BY <1>1, <1>7 DEF Reserving, Adders
    <2> QED
      BY <1>1, <2>1, <2>2, FewerLinks
  <1> QED
    BY <1>2, <1>12, <1>13, <1>14, <1>15, <1>16, <1>17

(* The entry is linked.  It was in no list; a requested one is new there,  *)
(* and there is room for it.                                               *)
LEMMA LinkEntryStep ==
    ASSUME LinksInv, NEW t \in Adders, LinkEntry(t)
    PROVE  LinksInv'
  <1> USE DEF LinksInv
  <1>1. /\ add[t].pc = "link" /\ UNCHANGED uploadVars
        /\ list' = IF add[t].tail = NULL THEN <<add[t].slot>>
               ELSE IF add[t].tail \in Listed
               THEN Append(SubSeq(list, 1, CHOOSE i \in DOMAIN list :
                                                list[i] = add[t].tail),
                           add[t].slot)
               ELSE list
        /\ rooted' = [rooted EXCEPT ![add[t].slot] = TRUE]
        /\ add' = [add EXCEPT ![t] = Finish(t)]
        /\ UNCHANGED <<typed, pc, count, network, subs, peer, timed, hasCbk, crashed>>
    BY DEF LinkEntry
  <1>2. UNCHANGED <<up, lock, buf, byReq>> /\ Uploading' /\ BufferOwned'
    BY <1>1, NoUploadStep
  <1>3. PICK s \in Slots : s = add[t].slot
    BY <1>1 DEF Adding, Added
  <1>4. /\ pc[s] # "free" /\ ~rooted[s] /\ peer[s] = add[t].peer
        /\ timed[s] <=> t = "udp"
        /\ hasCbk[s] /\ ~In(list, s)
    BY <1>1, <1>3 DEF Adding, Added, Entries, Entry
  <1>5. /\ list' \in Seq(Slots) /\ Once(list')
        /\ \A x : In(list', x) => In(list, x) \/ x = s
    <2>1. CASE add[t].tail = NULL
      <3>1. list' = Append(<<>>, s)
        BY <1>1, <1>3, <2>1
      <3>2. <<>> \in Seq(Slots) /\ Once(<<>>) /\ \A x : ~In(<<>>, x)
        BY EmptySeq DEF Once, In
      <3>3. PICK r : r = Append(<<>>, s)
        OBVIOUS
      <3>4. r \in Seq(Slots) /\ Once(r) /\ \A x : In(r, x) => x = s
        BY <3>2, <3>3, AppendFacts
      <3> QED
        BY <3>1, <3>3, <3>4
    <2>2. CASE add[t].tail # NULL /\ add[t].tail \in Listed
      <3>1. PICK q : q = SubSeq(list, 1, CHOOSE i \in DOMAIN list : list[i] = add[t].tail)
        OBVIOUS
      <3>2. q \in Seq(Slots) /\ Once(q) /\ \A x : In(q, x) => In(list, x)
        BY <2>2, <3>1, TailFacts DEF NoDuplicates
      <3>3. PICK r : r = Append(q, s)
        OBVIOUS
      <3>4. r \in Seq(Slots) /\ Once(r) /\ \A x : In(r, x) <=> In(q, x) \/ x = s
        BY <1>4, <3>2, <3>3, AppendFacts
      <3>5. list' = r
        BY <1>1, <1>3, <2>2, <3>1, <3>3
      <3> QED
        BY <3>2, <3>4, <3>5
    <2>3. CASE add[t].tail # NULL /\ add[t].tail \notin Listed
      BY <1>1, <2>3 DEF NoDuplicates, TypeOK
    <2> QED
      BY <2>1, <2>2, <2>3
  <1>6. /\ add' \in [Adders -> AddStates]
        /\ \A w \in Adders \ {t} : add'[w] = add[w]
        /\ add'[t].pc \in {"idle", "done"}
    BY <1>1, Finished
  <1>7. /\ rooted' \in [Slots -> BOOLEAN] /\ rooted'[s]
        /\ \A x \in Slots \ {s} : rooted'[x] = rooted[x]
    BY <1>1, <1>3 DEF TypeOK
  <1>8. TypeOK'
    BY <1>1, <1>2, <1>5, <1>6, <1>7 DEF TypeOK, AddStates
  <1>9. NoDuplicates' /\ NodesAllocated'
    BY <1>1, <1>2, <1>5 DEF NoDuplicates, NodesAllocated
  <1>10. Entries'
    <2> SUFFICES ASSUME NEW x \in Slots
                 PROVE  Entry(x)'
      BY DEF Entries, Entry
    <2> USE DEF Entry
    <2>1. CASE x = s
      BY <1>1, <1>4, <1>7, <2>1 DEF Entries, Entry
    <2>2. CASE x # s
      BY <1>1, <1>5, <1>7, <2>2 DEF Entries, Entry
    <2> QED
      BY <2>1, <2>2
  <1>11. Adding'
    <2> SUFFICES ASSUME NEW w \in Adders, add'[w].pc \in {"heartbeat", "target", "link"}
                 PROVE  Added(w)'
      BY DEF Adding, Added
    <2> USE DEF Added
    <2>1. w # t /\ add'[w] = add[w]
      BY <1>6
    <2>2. add[w].slot # s
      BY <1>1, <1>3, <2>1, SlotsDiffer
    <2>3. Added(w) /\ add[w].slot \in Slots \ {s}
      BY <2>1, <2>2 DEF Adding, Added
    <2> QED
      BY <1>1, <1>7, <2>1, <2>3
  <1>12. PeersDistinct' /\ Reserved' /\ LinkBound'
    <2>1. \A x \in Requested' : timed[x] /\ (x \in Requested \/ x = s)
      BY <1>1, <1>5 DEF Requested, Listed, In
    <2>2. CASE t = "main"
      <3>1. Requested' \subseteq Requested
        BY <1>4, <2>1, <2>2
      <3>2. add'["udp"] = add["udp"]
        BY <1>6, <2>2 DEF Adders
      <3> QED
        BY <1>1, <3>1, <3>2, FewerLinks
    <2>3. CASE t = "udp"
      <3>1. /\ \A x \in Requested : peer[x] # peer[s]
            /\ Cardinality(Requested) < Max
        BY <1>1, <1>4, <2>3 DEF Reserved, Reserving
      <3>2. PeersDistinct'
        BY <1>1, <2>1, <3>1 DEF PeersDistinct
      <3>3. Reserved'
        BY <1>6, <2>3 DEF Reserved, Reserving
      <3>4. /\ IsFiniteSet(Requested) /\ Cardinality(Requested) \in Nat
            /\ Max \in Nat
        BY RequestedFinite, LinksAssumption
      <3>5. PICK R : R = Requested \cup {s}
        OBVIOUS
      <3>6. IsFiniteSet(R) /\ Cardinality(R) \in Nat /\ Cardinality(R) <= Cardinality(Requested) + 1
        <4>1. /\ IsFiniteSet(R)
              /\ Cardinality(R) = IF s \in Requested THEN Cardinality(Requested)
                                  ELSE Cardinality(Requested) + 1
          BY <3>4, <3>5, FS_AddElement, Zenon
        <4> QED
          BY <3>4, <4>1
      <3>7. Requested' \subseteq R
        BY <2>1, <3>5
      <3>8. Cardinality(Requested') \in Nat /\ Cardinality(Requested') <= Cardinality(R)
        BY <3>6, <3>7, FS_Subset, FS_CardinalityType
      <3>9. Cardinality(Requested') <= Max
        BY <3>1, <3>4, <3>6, <3>8
      <3>10. LinkBound'
        BY <3>9 DEF LinkBound, Requested
      <3> QED
        BY <3>2, <3>3, <3>10
    <2> QED
      BY <2>2, <2>3 DEF Adders
  <1> QED
    BY <1>2, <1>8, <1>9, <1>10, <1>11, <1>12

(* Attempts to connect, connections and their loss, and an end without the *)
(* callback.                                                               *)
LEMMA ConnectStep ==
    ASSUME LinksInv, NEW s \in Slots,
           Connect(s) \/ Disconnect(s) \/ ConnectFails(s) \/ SkipCallback(s)
    PROVE  LinksInv'
  <1> USE DEF LinksInv
  <1>1. UNCHANGED <<typed, add, list, network, subs, entryVars, uploadVars, crashed>>
    BY DEF Connect, Disconnect, ConnectFails, SkipCallback
  <1>2. UNCHANGED <<typed, add, list, network, subs, peer, timed, hasCbk, rooted, crashed>>
    BY <1>1 DEF entryVars
  <1>3. UNCHANGED <<up, lock, buf, byReq>> /\ Uploading' /\ BufferOwned'
    BY <1>1, NoUploadStep
  <1>4. /\ pc \in [Slots -> {"free", "lost", "connect", "conn", "delete", "delete2", "unlink"}]
        /\ count \in [Slots -> 0 .. (Retries - 1)] /\ Retries \in Nat /\ Retries > 0
    BY LinksAssumption DEF TypeOK
  <1>5. count' \in [Slots -> 0 .. (Retries - 1)]
    <2>1. CASE Connect(s)
      BY <1>4, <2>1 DEF Connect
    <2>2. CASE Disconnect(s) \/ SkipCallback(s)
      BY <1>4, <2>2 DEF Disconnect, SkipCallback
    <2>3. CASE ConnectFails(s)
      <3>1. PICK c \in 0 .. (Retries - 1) : count' = [count EXCEPT ![s] = c]
        <4>1. CASE count' = [count EXCEPT ![s] = 0]
          <5>1. 0 \in 0 .. (Retries - 1)
            BY <1>4
          <5> QED
            BY <4>1, <5>1
        <4>2. CASE Retries > count[s] + 1 /\ count' = [count EXCEPT ![s] = @ + 1]
          <5>1. count[s] + 1 \in 0 .. (Retries - 1)
            BY <1>4, <4>2
          <5> QED
            BY <4>2, <5>1
        <4> QED
          BY <2>3, <4>1, <4>2 DEF ConnectFails
      <3> QED
        BY <1>4, <3>1
    <2> QED
      BY <2>1, <2>2, <2>3
  <1>6. /\ pc' \in [Slots -> {"free", "lost", "connect", "conn", "delete", "delete2", "unlink"}]
        /\ \A x \in Slots \ {s} : pc'[x] = pc[x]
        /\ pc[s] # "free"
        /\ pc'[s] \in {"connect", "conn"} \/ (pc'[s] \in {"delete", "unlink"} /\ timed[s])
    BY <1>4 DEF Connect, Disconnect, ConnectFails, SkipCallback, Counted, Entries, Entry
  <1>7. TypeOK'
    BY <1>2, <1>3, <1>5, <1>6 DEF TypeOK
  <1>8. NoDuplicates' /\ NodesAllocated'
    BY <1>2, <1>3 DEF NoDuplicates, NodesAllocated
  <1>9. Entries'
    BY <1>2, <1>6 DEF Entries, Entry
  <1>10. Adding'
    <2>1. \A x \in Slots : pc[x] # "free" => pc'[x] # "free"
      BY <1>6
    <2> QED
      BY <1>2, <2>1 DEF Adding, Added
  <1>11. PeersDistinct' /\ Reserved' /\ LinkBound'
    BY <1>2 DEF PeersDistinct, Reserved, LinkBound, Requested, Listed
  <1> QED
    BY <1>3, <1>7, <1>8, <1>9, <1>10, <1>11

(* A link that gave up leaves the subscribers of the one package, then     *)
(* those of the other, and its network is freed.                           *)
LEMMA UnsubscribeHeartbeatStep ==
    ASSUME LinksInv, NEW s \in Slots, UnsubscribeHeartbeat(s)
    PROVE  LinksInv'
  <1> USE DEF LinksInv
  <1>1. /\ pc[s] = "delete" /\ hasCbk[s] /\ UNCHANGED uploadVars
        /\ subs' = [subs EXCEPT !["heartbeat"] = Unsubscribed(@, s)]
        /\ pc' = [pc EXCEPT ![s] = "delete2"]
        /\ UNCHANGED <<typed, add, list, count, network, peer, timed, hasCbk, rooted, crashed>>
    BY DEF UnsubscribeHeartbeat, entryVars
  <1>2. UNCHANGED <<up, lock, buf, byReq>> /\ Uploading' /\ BufferOwned'
    BY <1>1, NoUploadStep
  <1>3. /\ pc \in [Slots -> {"free", "lost", "connect", "conn", "delete", "delete2", "unlink"}]
        /\ subs \in [Packages -> Seq(Slots)]
        /\ "heartbeat" \in Packages /\ "target" \in Packages
    BY DEF TypeOK, Packages
  <1>4. /\ pc' \in [Slots -> {"free", "lost", "connect", "conn", "delete", "delete2", "unlink"}]
        /\ pc'[s] = "delete2" /\ \A x \in Slots \ {s} : pc'[x] = pc[x]
    BY <1>1, <1>3
  <1>5. PICK q : q = Unsubscribed(subs["heartbeat"], s)
    OBVIOUS
  <1>6. /\ q \in Seq(Slots) /\ Once(q)
        /\ \A x : In(q, x) => In(subs["heartbeat"], x) /\ x # s
    BY <1>3, <1>5, UnsubscribedFacts DEF NoDuplicates
  <1>7. /\ subs' \in [Packages -> Seq(Slots)]
        /\ subs'["heartbeat"] = q /\ subs'["target"] = subs["target"]
    BY <1>1, <1>3, <1>5, <1>6
  <1>8. TypeOK'
    BY <1>1, <1>2, <1>4, <1>7 DEF TypeOK
  <1>9. NoDuplicates'
    BY <1>1, <1>6, <1>7 DEF NoDuplicates, Packages
  <1>10. NodesAllocated'
    <2>1. \A p \in Packages, x \in Slots : In(subs'[p], x) => network'[x]
      BY <1>1, <1>6, <1>7 DEF NodesAllocated, Packages
    <2> QED
      BY <1>1, <1>2, <2>1 DEF NodesAllocated
  <1>11. Entries'
    <2> SUFFICES ASSUME NEW x \in Slots
                 PROVE  Entry(x)'
      BY DEF Entries, Entry
    <2> USE DEF Entry
    <2>1. CASE x = s
      BY <1>1, <1>4, <1>6, <1>7, <2>1 DEF Entries, Entry
    <2>2. CASE x # s
      BY <1>1, <1>4, <1>6, <1>7, <2>2 DEF Entries, Entry
    <2> QED
      BY <2>1, <2>2
  <1>12. Adding'
    <2>1. \A x \in Slots : pc[x] # "free" => pc'[x] # "free"
      BY <1>4
    <2> QED
      BY <1>1, <1>7, <2>1 DEF Adding, Added
  <1>13. PeersDistinct' /\ Reserved' /\ LinkBound'
    BY <1>1 DEF PeersDistinct, Reserved, LinkBound, Requested, Listed
  <1> QED
    BY <1>2, <1>8, <1>9, <1>10, <1>11, <1>12, <1>13

(* Nobody uploads meanwhile, so no upload has the freed network to do.     *)
LEMMA UnsubscribeTargetStep ==
    ASSUME LinksInv, NEW s \in Slots, UnsubscribeTarget(s)
    PROVE  LinksInv'
  <1> USE DEF LinksInv
  <1>1. /\ pc[s] = "delete2" /\ lock = NULL /\ UNCHANGED uploadVars
        /\ subs' = [subs EXCEPT !["target"] = Unsubscribed(@, s)]
        /\ network' = [network EXCEPT ![s] = FALSE]
        /\ pc' = [pc EXCEPT ![s] = "unlink"]
        /\ UNCHANGED <<typed, add, list, count, peer, timed, hasCbk, rooted, crashed>>
    BY DEF UnsubscribeTarget, entryVars
  <1>2. UNCHANGED <<up, lock, buf, byReq>> /\ Uploading' /\ BufferOwned'
    BY <1>1, NoUploadStep
  <1>3. /\ pc \in [Slots -> {"free", "lost", "connect", "conn", "delete", "delete2", "unlink"}]
        /\ subs \in [Packages -> Seq(Slots)] /\ network \in [Slots -> BOOLEAN]
        /\ "heartbeat" \in Packages /\ "target" \in Packages
    BY DEF TypeOK, Packages
  <1>4. /\ pc' \in [Slots -> {"free", "lost", "connect", "conn", "delete", "delete2", "unlink"}]
        /\ pc'[s] = "unlink" /\ \A x \in Slots \ {s} : pc'[x] = pc[x]
        /\ network' \in [Slots -> BOOLEAN]
        /\ ~network'[s] /\ \A x \in Slots \ {s} : network'[x] = network[x]
    BY <1>1, <1>3
  <1>5. PICK q : q = Unsubscribed(subs["target"], s)
    OBVIOUS
  <1>6. /\ q \in Seq(Slots) /\ Once(q)
        /\ \A x : In(q, x) => In(subs["target"], x) /\ x # s
    BY <1>3, <1>5, UnsubscribedFacts DEF NoDuplicates
  <1>7. /\ subs' \in [Packages -> Seq(Slots)]
        /\ subs'["target"] = q /\ subs'["heartbeat"] = subs["heartbeat"]
    BY <1>1, <1>3, <1>5, <1>6
  <1>8. hasCbk[s] /\ timed[s] /\ ~In(subs["heartbeat"], s)
    BY <1>1 DEF Entries, Entry
  <1>9. TypeOK'
    BY <1>1, <1>2, <1>4, <1>7 DEF TypeOK
  <1>10. NoDuplicates'
    BY <1>1, <1>6, <1>7 DEF NoDuplicates, Packages
  <1>11. NodesAllocated'
    <2>1. \A p \in Packages, x \in Slots : In(subs'[p], x) => network'[x]
      BY <1>4, <1>6, <1>7, <1>8 DEF NodesAllocated, Packages
    <2>2. \A u \in Uploaders : up'[u].todo = <<>>
      BY <1>1, <1>2, LinksAssumption DEF Uploading
    <2>3. \A u \in Uploaders, x \in Slots : ~In(up'[u].todo, x)
      BY <2>2, EmptySeq DEF In
    <2> QED
      BY <2>1, <2>3 DEF NodesAllocated
  <1>12. Entries'
    <2> SUFFICES ASSUME NEW x \in Slots
                 PROVE  Entry(x)'
      BY DEF Entries, Entry
    <2> USE DEF Entry
    <2>1. CASE x = s
      BY <1>1, <1>4, <1>7, <1>8, <2>1 DEF Entries, Entry
    <2>2. CASE x # s
      BY <1>1, <1>4, <1>7, <2>2 DEF Entries, Entry
    <2> QED
      BY <2>1, <2>2
  <1>13. Adding'
    <2> SUFFICES ASSUME NEW w \in Adders, add'[w].pc \in {"heartbeat", "target", "link"}
                 PROVE  Added(w)'
      BY DEF Adding, Added
    <2> USE DEF Added
    <2>1. \A x \in Slots : /\ pc[x] # "free" => pc'[x] # "free"
                           /\ ~hasCbk[x] => network'[x] = network[x]
                           /\ ~In(subs["target"], x) => ~In(subs'["target"], x)
      BY <1>4, <1>6, <1>7, <1>8
    <2>2. add'[w] = add[w]
      BY <1>1
    <2>3. Added(w)
      BY <2>2 DEF Adding, Added
    <2> QED
      BY <1>1, <2>1, <2>2, <2>3
  <1>14. PeersDistinct' /\ Reserved' /\ LinkBound'
    BY <1>1 DEF PeersDistinct, Reserved, LinkBound, Requested, Listed
  <1> QED
    BY <1>2, <1>9, <1>10, <1>11, <1>12, <1>13, <1>14

(* The entry is unlinked and its block freed.                              *)
LEMMA DeleteStep ==
    ASSUME LinksInv, NEW s \in Slots, eth_link_del_tcp_client_list(s)
    PROVE  LinksInv'
  <1> USE DEF LinksInv
  <1>1. /\ pc[s] = "unlink" /\ rooted[s] /\ UNCHANGED uploadVars
        /\ list' = Unlinked(s)
        /\ pc' = [pc EXCEPT ![s] = IF network[s] THEN "lost" ELSE "free"]
        /\ peer' = [peer EXCEPT ![s] = NULL]
        /\ timed' = [timed EXCEPT ![s] = FALSE]
        /\ hasCbk' = [hasCbk EXCEPT ![s] = FALSE]
        /\ rooted' = [rooted EXCEPT ![s] = FALSE]
        /\ UNCHANGED <<typed, add, count, network, subs, crashed>>
    BY DEF eth_link_del_tcp_client_list
  <1>2. UNCHANGED <<up, lock, buf, byReq>> /\ Uploading' /\ BufferOwned'
    BY <1>1, NoUploadStep
  <1>3. /\ pc \in [Slots -> {"free", "lost", "connect", "conn", "delete", "delete2", "unlink"}]
        /\ peer \in [Slots -> Peers \cup {NULL}]
        /\ timed \in [Slots -> BOOLEAN] /\ hasCbk \in [Slots -> BOOLEAN]
        /\ rooted \in [Slots -> BOOLEAN]
    BY DEF TypeOK
  <1>4. /\ pc' \in [Slots -> {"free", "lost", "connect", "conn", "delete", "delete2", "unlink"}]
        /\ pc'[s] = IF network[s] THEN "lost" ELSE "free"
        /\ \A x \in Slots \ {s} : pc'[x] = pc[x]
        /\ peer' \in [Slots -> Peers \cup {NULL}]
        /\ \A x \in Slots \ {s} : peer'[x] = peer[x]
    BY <1>1, <1>3
  <1>5. /\ timed' \in [Slots -> BOOLEAN] /\ hasCbk' \in [Slots -> BOOLEAN]
        /\ rooted' \in [Slots -> BOOLEAN]
        /\ ~hasCbk'[s] /\ ~rooted'[s]
        /\ \A x \in Slots \ {s} : /\ timed'[x] = timed[x] /\ hasCbk'[x] = hasCbk[x]
                                  /\ rooted'[x] = rooted[x]
    BY <1>1, <1>3
  <1>6. list' \in Seq(Slots) /\ Once(list') /\ \A x : In(list', x) => In(list, x) /\ x # s
    BY <1>1, UnlinkedFacts DEF NoDuplicates
  <1>8. TypeOK'
    BY <1>1, <1>2, <1>4, <1>5, <1>6 DEF TypeOK
  <1>9. NoDuplicates' /\ NodesAllocated'
    BY <1>1, <1>2, <1>6 DEF NoDuplicates, NodesAllocated
  <1>10. Entries'
    <2> SUFFICES ASSUME NEW x \in Slots
                 PROVE  Entry(x)'
      BY DEF Entries, Entry
    <2> USE DEF Entry
    <2>1. CASE x = s
      BY <1>1, <1>4, <1>5, <1>6, <2>1
    <2>2. CASE x # s
      BY <1>1, <1>4, <1>5, <1>6, <2>2 DEF Entries, Entry
    <2> QED
      BY <2>1, <2>2
  <1>11. Adding'
    <2>1. \A w \in Adders : add[w].pc \in {"heartbeat", "target", "link"} =>
              add[w].slot \in Slots \ {s}
      BY <1>1 DEF Adding, Added
    <2> QED
      BY <1>1, <1>4, <1>5, <2>1 DEF Adding, Added
  <1>12. PeersDistinct' /\ Reserved' /\ LinkBound'
    <2>1. \A x \in Listed' : x \in Slots \ {s} /\ x \in Listed
      <3>1. \A x \in Listed' : In(list', x)
        BY DEF Listed, In
      <3>2. \A x : In(list, x) => x \in Listed /\ x \in Slots
        BY LenProperties, ElementOfSeq DEF Listed, In, TypeOK
      <3> QED
        BY <1>6, <3>1, <3>2
    <2>2. \A x \in Requested' : x \in Requested /\ peer'[x] = peer[x]
      BY <1>4, <1>5, <2>1 DEF Requested
    <2> QED
      BY <1>1, <2>2, FewerLinks
  <1> QED
    BY <1>2, <1>8, <1>9, <1>10, <1>11, <1>12

-----------------------------------------------------------------------------
(* LinksInv is inductive.                                                  *)
LEMMA StepLinks == LinksInv /\ [Next]_vars => LinksInv'
  <1> SUFFICES ASSUME LinksInv, [Next]_vars PROVE LinksInv'
    OBVIOUS
  <1>1. CASE UNCHANGED vars
    <2>1. UNCHANGED <<typed, add, list, pc, count, network, subs, peer, timed, hasCbk,
                      rooted, up, lock, buf, byReq, crashed>>
      BY <1>1 DEF vars, entryVars, uploadVars
    <2> QED
      BY <2>1 DEF LinksInv, TypeOK, NoDuplicates, Entries, Entry, Adding, Added, Uploading, PeersDistinct,
                  Reserved, LinkBound, BufferOwned, NodesAllocated, Requested, Listed
  <1>2. CASE \/ eth_link_add_type \/ \E s \in Slots : NullRoot(s)
             \/ \E u \in Uploaders : UploadFaults(u)
    BY <1>2, FlagStep
  <1>3. CASE AddDefault \/ \E a \in Peers : eth_protocol_cntinfo_handler(a)
    BY <1>3, SearchStep
  <1>4. CASE \E t \in Adders : Add(t)
    BY <1>4, CreateStep, CreateFailsStep, SubscribeHeartbeatStep, SubscribeTargetStep,
       LinkEntryStep DEF Add
  <1>5. CASE \E s \in Slots :
                Connect(s) \/ Disconnect(s) \/ ConnectFails(s) \/ SkipCallback(s)
    BY <1>5, ConnectStep
  <1>6. CASE \E s \in Slots : \/ UnsubscribeHeartbeat(s) \/ UnsubscribeTarget(s)
                              \/ eth_link_del_tcp_client_list(s)
    BY <1>6, UnsubscribeHeartbeatStep, UnsubscribeTargetStep, DeleteStep
  <1>7. CASE \E u \in Uploaders : \/ UploadCheck(u) \/ UploadFill(u) \/ UploadSend(u)
                                  \/ UploadDone(u)
    BY <1>7, UploadStep
  <1> QED
    BY <1>1, <1>2, <1>3, <1>4, <1>5, <1>6, <1>7 DEF Next, Client, GiveUp, Upload

(* The variables keep their types for any constants.                       *)
THEOREM LinksTypes == Spec => []TypeOK
  <1>1. LinksInv => TypeOK
    BY DEF LinksInv
  <1> QED
    BY <1>1, InitLinks, StepLinks, PTL DEF Spec

(* However links come and go, the networks that alink_upload_send_package  *)
(* walks over under sUpload.mutex are not freed, and the links they lead   *)
(* to are freed only when c2_network_cbk_delete was skipped.               *)
THEOREM UploadsReachNoFreed == Spec => []NoFreedSubscriber
  <1>1. LinksInv => NoFreedSubscriber
    BY DEF LinksInv, NodesAllocated, Entries, Entry, NoFreedSubscriber
  <1> QED
    BY <1>1, InitLinks, StepLinks, PTL DEF Spec

(* abyUploadBuffer holds the package and the number of the thread that     *)
(* sends it, for any number of uploading threads.                          *)
THEOREM UploadBufferOwned == Spec => []BufferOwned
  <1>1. LinksInv => BufferOwned
    BY DEF LinksInv
  <1> QED
    BY <1>1, InitLinks, StepLinks, PTL DEF Spec

(* The requested links in the list go to different peers, although the     *)
(* search and the linking are apart and the list has no lock.              *)
THEOREM LinksDistinct == Spec => []RequestedDistinct
  <1>1. LinksInv => RequestedDistinct
    BY DEF LinksInv, NoDuplicates, Once, PeersDistinct, Requested, Listed, RequestedDistinct
  <1> QED
    BY <1>1, InitLinks, StepLinks, PTL DEF Spec

(* They are never more than the maximum.                                   *)
THEOREM LinksBounded == Spec => []LinkBound
  <1>1. LinksInv => LinkBound
    BY DEF LinksInv
  <1> QED
    BY <1>1, InitLinks, StepLinks, PTL DEF Spec

(* A subscriber that stays is cut off only by a requested link that was    *)
(* the first of its package.                                               *)
THEOREM LinksCutOff == Spec => OnlyRequestedCutsOff
  <1>1. ASSUME LinksInv, [Next]_vars
        PROVE  [\A p \in Packages, s \in Slots :
                  In(subs[p], s) /\ ~In(subs'[p], s) =>
                      pc[s] \in {"delete", "delete2"} \/ timed[Head(subs[p])]]_vars
    <2> SUFFICES ASSUME NEW p \in Packages, NEW s \in Slots,
                        In(subs[p], s), ~In(subs'[p], s)
                 PROVE  pc[s] \in {"delete", "delete2"} \/ timed[Head(subs[p])]
      OBVIOUS
    <2>1. PICK z \in Slots : UnsubscribeHeartbeat(z) \/ UnsubscribeTarget(z)
      <3>1. CASE subs' = subs
        BY <3>1
      <3>2. ASSUME NEW t \in Adders, SubscribeHeartbeat(t) \/ SubscribeTarget(t)
            PROVE  FALSE
        <4>1. PICK n \in Packages : subs' = [subs EXCEPT ![n] = Append(@, add[t].slot)]
          BY <3>2 DEF SubscribeHeartbeat, SubscribeTarget, alink_package_connect_send,
                      Packages
        <4>2. subs[p] \in Seq(Slots) /\ subs \in [Packages -> Seq(Slots)]
          BY <1>1 DEF LinksInv, TypeOK
        <4>3. n = p /\ subs'[p] = Append(subs[p], add[t].slot)
          BY <4>1, <4>2
        <4>4. add[t].slot \in Slots
          BY <1>1, <3>2 DEF LinksInv, Adding, Added, SubscribeHeartbeat, SubscribeTarget
        <4>5. PICK i \in 1 .. Len(subs[p]) : subs[p][i] = s
          BY <4>2, LenProperties DEF In
        <4>6. PICK r : r = Append(subs[p], add[t].slot)
          OBVIOUS
        <4>7. /\ r \in Seq(Slots) /\ Len(r) = Len(subs[p]) + 1 /\ Len(subs[p]) \in Nat
          BY <4>2, <4>4, <4>6, AppendProperties, LenProperties
        <4>8. r[i] = s /\ i \in DOMAIN r
          BY <4>2, <4>4, <4>5, <4>6, <4>7, AppendProperties, LenProperties
        <4> QED
          BY <4>3, <4>6, <4>8 DEF In
      <3> QED
        BY <1>1, <3>1, <3>2 DEF Next, vars, Client, GiveUp, Add, Upload, eth_link_add_type,
             AddDefault, eth_protocol_cntinfo_handler, CreateLink, CreateFails, LinkEntry,
             Connect, Disconnect, ConnectFails, SkipCallback,
             eth_link_del_tcp_client_list, NullRoot, UploadCheck, UploadFill, UploadSend,
             UploadFaults, UploadDone
    <2>2. pc[z] \in {"delete", "delete2"} /\ timed[z]
      BY <1>1, <2>1 DEF LinksInv, Entries, Entry, UnsubscribeHeartbeat, UnsubscribeTarget
    <2>3. subs[p] \in Seq(Slots) /\ Once(subs[p]) /\ subs \in [Packages -> Seq(Slots)]
      BY <1>1 DEF LinksInv, TypeOK, NoDuplicates
    <2>4. subs'[p] = Unsubscribed(subs[p], z)
      BY <2>1, <2>3 DEF UnsubscribeHeartbeat, UnsubscribeTarget, Packages
    <2>5. s = z \/ subs[p][1] = z
      BY <2>3, <2>4, UnsubscribedFacts
    <2>6. Head(subs[p]) = subs[p][1]
      BY <2>3, HeadTailProperties, EmptySeq DEF In
    <2> QED
      BY <2>2, <2>5, <2>6
  <1> QED
    BY <1>1, InitLinks, StepLinks, PTL DEF Spec, OnlyRequestedCutsOff
=============================================================================
