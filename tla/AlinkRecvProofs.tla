-------------------------- MODULE AlinkRecvProofs ---------------------------
(***************************************************************************)
(* Proofs about the receive path, for any stream of packages, any sizes    *)
(* and any way the stream is cut.                                          *)
(*                                                                         *)
(* The machine keeps a pointer into memory that others use, so nothing     *)
(* holds of what it points to in general, except that it was read          *)
(* (MemRead).  In a call that found it idle, the import and the package    *)
(* begun are the bytes of the stream just before next (IdleReading,        *)
(* IdleParsing); everything delivered ended before Parsed, the place the   *)
(* parse has come to.  In a clean call that place is always the beginning  *)
(* of a package (CleanState), so none is passed over.                      *)
(***************************************************************************)
EXTENDS AlinkRecv, SequenceTheorems, WellFoundedInduction, TLAPS

(* Where in the stream the machine is, before the package it has begun.    *)
Begun  == IF st = "magic" THEN 0 ELSE wCount
Parsed == next - len - Begun

(* What the current call has delivered.                                    *)
Fresh == {delivered[i] : i \in (call.before + 1)..Len(delivered)}

(* What only the proofs need to know of the types.                         *)
ReadType ==
    /\ imp + len <= Stride + MaxSize + MaxRead /\ buf <= Stride + MaxSize + MaxRead
    /\ rd = NoRead \/ /\ rd.base \in Blocks /\ rd.size \in MinSize..MaxSize
                      /\ rd.off \in 1..(rd.size - 1)
                      /\ port = "radar" /\ len = 0
    /\ rd = [base |-> rd.base, size |-> rd.size, off |-> rd.off, start |-> rd.start]

CallType ==
    /\ call \in [idle : BOOLEAN, clean : BOOLEAN, before : Nat, arrived : SUBSET Packages]
    /\ call.clean => call.idle
    /\ call.before <= Len(delivered)

(* Memory holds what was read, and what was delivered was read.            *)
MemRead == \A a \in Addr : mem[a] < next
DeliveredRead ==
    \A i \in DOMAIN delivered : delivered[i] \in Packages /\ Ends[delivered[i]] < next

(* Byte i of the stream and the n - 1 that follow it are at address a.     *)
At(a, i, n) == \A k \in 0..(n - 1) : mem[a + k] = i + k

DeliveredBefore(i) == \A k \in DOMAIN delivered : Ends[delivered[k]] < i

(* An idle call, while the radar port reads the package, and then while    *)
(* the machine parses it.                                                  *)
IdleReading ==
    call.idle /\ rd # NoRead =>
        /\ st = "magic" /\ call.before = Len(delivered)
        /\ At(rd.base, next - rd.off, rd.off)
        /\ DeliveredBefore(next - rd.off)

IdleState ==
    /\ At(imp - Begun, Parsed, Begun + len)
    /\ st # "magic" => imp = buf + wCount
    /\ DeliveredBefore(Parsed)

IdleParsing == call.idle /\ len > 0 => IdleState

(* The same for a clean call.                                              *)
CleanReading ==
    call.clean /\ rd # NoRead =>
        \E p \in Packages : /\ rd.size = Size(p) /\ First(p) = next - rd.off
                            /\ call.arrived = {p}

CleanState ==
    /\ Parsed \in Starts \cup {next}
    /\ st = "crc" => \A p \in Packages : First(p) = Parsed => wPkgSize = Size(p)
    /\ Fresh = {p \in call.arrived : Ends[p] < Parsed}
    /\ \A p \in Packages : First(p) >= Parsed /\ Ends[p] < next => p \in call.arrived
    /\ \A p \in call.arrived : Ends[p] < next

CleanParsing == call.clean /\ len > 0 => CleanState

RecvInv ==
    /\ TypeOK /\ ReadType /\ CallType /\ MemRead /\ DeliveredRead
    /\ IdleReading /\ IdleParsing /\ IdleCallInOrder
    /\ CleanReading /\ CleanParsing /\ CleanCallDelivers

-----------------------------------------------------------------------------
(* Packages lie in the stream one after the other.                         *)
LEMMA PackageFacts ==
    /\ Total \in Nat
    /\ \A p \in Packages :
          /\ p \in Nat /\ First(p) \in Nat /\ First(p) >= 1 /\ Ends[p] \in Nat
          /\ Size(p) \in MinSize..MaxSize /\ Ends[p] = First(p) + Size(p) - 1
          /\ Ends[p] <= Total /\ First(p) \in Starts /\ Size(p) > HeadLen
    /\ \A p, q \in Packages : p < q => Ends[p] < First(q)
    /\ \A p \in Packages : Ends[p] < Total => Ends[p] + 1 \in Starts
  <1>1. /\ Ends \in Seq(Nat) /\ Len(Ends) \in Nat \ {0} /\ Packages = 1..Len(Ends)
        /\ \A p \in Packages : Ends[p] \in Nat
    BY RecvAssumption, LenProperties, EmptySeq DEF Packages
  <1>2. \A p, q \in Packages : p < q => Ends[p] < Ends[q]
    BY RecvAssumption
  <1>3. \A p \in Packages : Size(p) \in MinSize..MaxSize /\ Size(p) > HeadLen
    <2>1. MinSize \in Nat /\ HeadLen \in Nat /\ MinSize > HeadLen /\ MaxSize \in Nat
      BY RecvAssumption
    <2>2. \A p \in Packages : Size(p) \in MinSize..MaxSize
      BY RecvAssumption
    <2> QED
      BY <2>1, <2>2
  <1>4. Total \in Nat /\ \A p \in Packages : Ends[p] <= Total
    <2>1. Len(Ends) \in Packages /\ \A p \in Packages : p = Len(Ends) \/ p < Len(Ends)
      BY <1>1
    <2>2. ASSUME NEW p \in Packages PROVE Ends[p] <= Ends[Len(Ends)]
      <3>1. CASE p = Len(Ends)
        BY <1>1, <3>1
      <3>2. CASE p < Len(Ends)
        <4>1. Ends[p] < Ends[Len(Ends)]
          BY <1>2, <2>1, <3>2
        <4> QED
          BY <4>1, <1>1, <2>1
      <3> QED
        BY <2>1, <3>1, <3>2
    <2> QED
      BY <1>1, <2>1, <2>2 DEF Total
  <1>5. ASSUME NEW p \in Packages
        PROVE  /\ p \in Nat /\ First(p) \in Nat /\ First(p) >= 1
               /\ Ends[p] = First(p) + Size(p) - 1 /\ First(p) \in Starts
    <2>1. p # 1 => p - 1 \in Packages
      BY <1>1
    <2>2. First(p) \in Nat /\ First(p) >= 1
      BY <1>1, <2>1 DEF First
    <2>3. Ends[p] = First(p) + Size(p) - 1
      BY <1>1, <2>2 DEF Size
    <2> QED
      BY <1>1, <2>2, <2>3 DEF Starts
  <1>6. ASSUME NEW p \in Packages, NEW q \in Packages, p < q
        PROVE  Ends[p] < First(q)
    <2>1. q # 1 /\ q - 1 \in Packages /\ (p = q - 1 \/ p < q - 1)
      BY <1>1, <1>6
    <2>2. Ends[p] <= Ends[q - 1]
      <3>1. CASE p = q - 1
        BY <1>1, <3>1
      <3>2. CASE p < q - 1
        <4>1. Ends[p] < Ends[q - 1]
          BY <1>2, <2>1, <3>2
        <4> QED
          BY <1>1, <2>1, <4>1
      <3> QED
        BY <2>1, <3>1, <3>2
    <2> QED
      BY <1>1, <2>1, <2>2 DEF First
  <1>7. ASSUME NEW p \in Packages, Ends[p] < Total
        PROVE  Ends[p] + 1 \in Starts
    <2>1. p # Len(Ends)
      BY <1>1, <1>7 DEF Total
    <2>2. p + 1 \in Packages /\ p + 1 # 1 /\ (p + 1) - 1 = p
      BY <1>1, <2>1
    <2>3. First(p + 1) = Ends[p] + 1
      BY <2>2 DEF First
    <2> QED
      BY <2>2, <2>3 DEF Starts
  <1> QED
    BY <1>1, <1>3, <1>4, <1>5, <1>6, <1>7

(* Where two packages lie tells which comes first.                         *)
LEMMA PackageOrder ==
    ASSUME NEW p \in Packages, NEW q \in Packages
    PROVE  /\ First(p) = First(q) => p = q
           /\ Ends[p] < First(q) => p < q
           /\ Ends[p] < Ends[q] => Ends[p] < First(q)
  <1>a. HeadLen \in Nat /\ MinSize \in Nat /\ MaxSize \in Nat
    BY RecvAssumption
  <1>0. p \in Nat /\ q \in Nat /\ First(p) <= Ends[p] /\ First(q) <= Ends[q]
        /\ First(p) \in Nat /\ First(q) \in Nat /\ Ends[p] \in Nat /\ Ends[q] \in Nat
    BY <1>a, PackageFacts
  <1>1. (p < q => Ends[p] < First(q)) /\ (q < p => Ends[q] < First(p))
    BY PackageFacts
  <1>2. CASE p = q
    BY <1>0, <1>2
  <1>3. CASE p < q
    BY <1>0, <1>1, <1>3
  <1>4. CASE q < p
    BY <1>0, <1>1, <1>4
  <1> QED
    BY <1>0, <1>2, <1>3, <1>4

(* What the length field of a package says, and any other byte.            *)
LEMMA SizeFacts ==
    /\ \A b \in Int : alink_get_package_size(b) \subseteq MinSize..MaxSize
    /\ \A p \in Packages : alink_get_package_size(First(p) + 1) = {Size(p)}
  <1>1. ASSUME NEW b \in Int PROVE alink_get_package_size(b) \subseteq MinSize..MaxSize
    BY PackageFacts DEF alink_get_package_size
  <1>2. ASSUME NEW p \in Packages PROVE alink_get_package_size(First(p) + 1) = {Size(p)}
    <2>1. (First(p) + 1) - 1 = First(p) /\ First(p) \in Starts
      BY PackageFacts
    <2>2. {q \in Packages : First(q) = First(p)} = {p}
      BY PackageOrder
    <2> QED
      BY <2>1, <2>2 DEF alink_get_package_size
  <1> QED
    BY <1>1, <1>2

(* The least of some numbers.                                              *)
LEMMA LeastFound ==
    ASSUME NEW T \in SUBSET Nat, T # {}
    PROVE  Min(T) \in T /\ \A n \in T : Min(T) <= n
  <1>1. PICK m \in T : \A n \in T : ~(<<n, m>> \in OpToRel(<, Nat))
    BY NatLessThanWellFounded, WFMin
  <1>2. ASSUME NEW n \in T PROVE m <= n
    <2>1. m \in Nat /\ n \in Nat
      OBVIOUS
    <2>2. ~(n < m)
      BY <1>1, <2>1 DEF OpToRel
    <2> QED
      BY <2>1, <2>2
  <1> QED
    BY <1>2 DEF Min

(* Memory after bytes i to j were written at address a.                    *)
LEMMA WrittenFacts ==
    ASSUME NEW m \in [Addr -> 0..Total], NEW a \in Nat, NEW i \in Nat, NEW j \in Nat,
           1 <= i, i <= j, j <= Total, a + j - i \in Addr,
           NEW w, w = Written(m, a, i, j)
    PROVE  /\ w \in [Addr -> 0..Total]
           /\ \A k \in 0..(j - i) : w[a + k] = i + k
           /\ \A b \in Addr : b < a => w[b] = m[b]
           /\ \A b \in Addr : w[b] <= j \/ w[b] = m[b]
  <1>1. Addr = 0..(2 * Stride) /\ Stride \in Nat /\ Total \in Nat
    BY PackageFacts, RecvAssumption DEF Addr, Stride
  <1>3. w = [b \in Addr |-> IF b \in a..(a + j - i) THEN i + b - a ELSE m[b]]
    BY DEF Written
  <1>4. ASSUME NEW b \in Addr PROVE w[b] \in 0..Total /\ (w[b] <= j \/ w[b] = m[b])
    BY <1>1, <1>3
  <1>5. ASSUME NEW k \in 0..(j - i) PROVE w[a + k] = i + k
    <2>1. a + k \in Addr /\ a + k \in a..(a + j - i) /\ i + (a + k) - a = i + k
      BY <1>1
    <2> QED
      BY <1>3, <2>1
  <1>6. ASSUME NEW b \in Addr, b < a PROVE w[b] = m[b]
    BY <1>1, <1>3, <1>6
  <1> QED
    BY <1>3, <1>4, <1>5, <1>6

(* Sizes and addresses as numbers.                                         *)
LEMMA Numbers ==
    /\ HeadLen \in Nat /\ MinSize \in Nat /\ MaxSize \in Nat /\ MaxRead \in Nat
    /\ 1 < HeadLen /\ HeadLen < MinSize /\ MinSize <= MaxSize /\ 1 <= MaxRead
    /\ Stride \in Nat /\ Stride = 2 * (MaxSize + MaxRead)
    /\ Addr = 0..(2 * Stride) /\ Blocks = {0, Stride}
  <1>1. /\ HeadLen \in Nat /\ MinSize \in Nat /\ MaxSize \in Nat /\ MaxRead \in Nat
        /\ 1 < HeadLen /\ HeadLen < MinSize /\ 1 <= MaxRead
    BY RecvAssumption
  <1>2. 1 \in Packages
    <2>1. Ends \in Seq(Nat) /\ Ends # <<>>
      BY RecvAssumption
    <2> QED
      BY <2>1, LenProperties, EmptySeq DEF Packages
  <1>3. MinSize <= MaxSize
    BY <1>1, <1>2, PackageFacts
  <1> QED
    BY <1>1, <1>3 DEF Stride, Addr, Blocks

(* At the start nothing has been read.                                     *)
LEMMA InitRecv == Init => RecvInv
  <1> SUFFICES ASSUME Init PROVE RecvInv
    OBVIOUS
  <1>1. delivered = <<>> /\ Len(delivered) = 0 /\ DOMAIN delivered = {}
        /\ delivered \in Seq({0} \cup Packages)
    BY EmptySeq DEF Init
  <1>2. rd = NoRead /\ call.idle = FALSE /\ call.clean = FALSE /\ len = 0 /\ next = 1
    BY DEF Init, NoCall
  <1>3. mem \in [Addr -> 0..Total] /\ \A a \in Addr : mem[a] = 0
    BY PackageFacts DEF Init, Garbage
  <1>4. TypeOK
    BY <1>1, <1>3, Numbers, PackageFacts DEF Init, TypeOK
  <1>5. ReadType
    BY Numbers DEF Init, ReadType, NoRead
  <1>6. CallType
    BY <1>1 DEF Init, CallType, NoCall
  <1>7. MemRead /\ DeliveredRead
    BY <1>1, <1>2, <1>3 DEF MemRead, DeliveredRead
  <1>8. IdleReading /\ IdleParsing /\ IdleCallInOrder
    BY <1>2 DEF IdleReading, IdleParsing, IdleCallInOrder
  <1>9. CleanReading /\ CleanParsing /\ CleanCallDelivers
    BY <1>2 DEF CleanReading, CleanParsing, CleanCallDelivers
  <1> QED
    BY <1>4, <1>5, <1>6, <1>7, <1>8, <1>9 DEF RecvInv

(* Types in the form the steps need them.                                  *)
LEMMA Types ==
    ASSUME RecvInv
    PROVE  /\ next \in Nat /\ 1 <= next /\ next <= Total + 1
           /\ mem \in [Addr -> 0..Total]
           /\ imp \in Nat /\ len \in Nat /\ buf \in Nat /\ wCount \in Nat /\ wPkgSize \in Nat
           /\ delivered \in Seq({0} \cup Packages) /\ Len(delivered) \in Nat
           /\ DOMAIN delivered = 1..Len(delivered)
           /\ st \in {"magic", "head", "crc"} /\ port \in {"c2", "radar"}
           /\ call.before \in Nat /\ call.before <= Len(delivered)
           /\ call.idle \in BOOLEAN /\ call.clean \in BOOLEAN /\ (call.clean => call.idle)
           /\ call.arrived \in SUBSET Packages
           /\ rd # NoRead => len = 0
  <1>1. TypeOK /\ ReadType /\ CallType
    BY DEF RecvInv
  <1>2. delivered \in Seq({0} \cup Packages) /\ Len(delivered) \in Nat
        /\ DOMAIN delivered = 1..Len(delivered)
    BY <1>1, LenProperties DEF TypeOK
  <1>3. next \in Nat /\ 1 <= next /\ next <= Total + 1
    BY <1>1, PackageFacts DEF TypeOK
  <1>4. imp \in Nat /\ len \in Nat /\ buf \in Nat /\ wCount \in Nat /\ wPkgSize \in Nat
    BY <1>1, Numbers DEF TypeOK
  <1>5. /\ mem \in [Addr -> 0..Total]
        /\ st \in {"magic", "head", "crc"} /\ port \in {"c2", "radar"}
    BY <1>1 DEF TypeOK
  <1>6. /\ call.before \in Nat /\ call.before <= Len(delivered)
        /\ call.idle \in BOOLEAN /\ call.clean \in BOOLEAN /\ (call.clean => call.idle)
        /\ call.arrived \in SUBSET Packages
    BY <1>1 DEF CallType
  <1>7. rd # NoRead => len = 0
    BY <1>1 DEF ReadType
  <1> QED
    BY <1>2, <1>3, <1>4, <1>5, <1>6, <1>7

(* Nothing was delivered since the call began.                             *)
LEMMA NothingFresh ==
    ASSUME RecvInv, call'.before = Len(delivered), UNCHANGED delivered
    PROVE  /\ Fresh' = {}
           /\ IdleCallInOrder'
  <1>1. Len(delivered) \in Nat /\ DOMAIN delivered = 1..Len(delivered)
    BY Types
  <1>3. \A i \in DOMAIN delivered : ~(i > call'.before)
    BY <1>1
  <1>4. ~ \E i : i \in (call'.before + 1)..Len(delivered)
    BY <1>1
  <1> QED
    BY <1>3, <1>4 DEF Fresh, IdleCallInOrder

(* A recv puts bytes i to j of the stream at address a.                    *)
LEMMA RecvFacts ==
    ASSUME RecvInv, NEW old \in Leftovers, NEW a \in Nat, NEW i \in Nat, NEW j \in Nat,
           next <= i, i <= j, j <= Total, a + j - i \in Addr,
           mem' = Written(old, a, i, j), next' = j + 1
    PROVE  /\ mem' \in [Addr -> 0..Total] /\ MemRead'
           /\ \A k \in 0..(j - i) : mem'[a + k] = i + k
           /\ \A b \in Addr : b < a => mem'[b] = old[b]
           /\ next' \in Nat /\ 1 <= next' /\ next' <= Total + 1
           /\ UNCHANGED delivered => DeliveredRead'
  <1>0. next \in Nat /\ 1 <= next /\ Total \in Nat /\ 1 <= i
    BY Types, PackageFacts
  <1>1. old \in [Addr -> 0..Total] /\ \A b \in Addr : old[b] < next
    <2>1. mem \in [Addr -> 0..Total] /\ \A b \in Addr : mem[b] < next
      BY Types DEF RecvInv, MemRead
    <2>2. CASE old = mem
      BY <2>1, <2>2
    <2>3. CASE old = [b \in Addr |-> Garbage]
      BY <1>0, <2>3 DEF Garbage
    <2> QED
      BY <2>2, <2>3 DEF Leftovers
  <1>2. mem' \in [Addr -> 0..Total]
    BY ONLY <1>0, <1>1, a \in Nat, i \in Nat, j \in Nat, i <= j, j <= Total, a + j - i \in Addr,
            mem' = Written(old, a, i, j), WrittenFacts, SMT
  <1>3. \A k \in 0..(j - i) : mem'[a + k] = i + k
    BY ONLY <1>0, <1>1, a \in Nat, i \in Nat, j \in Nat, i <= j, j <= Total, a + j - i \in Addr,
            mem' = Written(old, a, i, j), WrittenFacts, SMT
  <1>4. \A b \in Addr : b < a => mem'[b] = old[b]
    BY ONLY <1>0, <1>1, a \in Nat, i \in Nat, j \in Nat, i <= j, j <= Total, a + j - i \in Addr,
            mem' = Written(old, a, i, j), WrittenFacts, SMT
  <1>5. \A b \in Addr : mem'[b] <= j \/ mem'[b] = old[b]
    BY ONLY <1>0, <1>1, a \in Nat, i \in Nat, j \in Nat, i <= j, j <= Total, a + j - i \in Addr,
            mem' = Written(old, a, i, j), WrittenFacts, SMT
  <1>6. MemRead'
    <2> SUFFICES ASSUME NEW b \in Addr PROVE mem'[b] < next'
      BY DEF MemRead
    <2>1. mem'[b] \in Nat /\ old[b] \in Nat
      BY <1>0, <1>1, <1>2
    <2> QED
      BY <1>0, <1>1, <1>5, <2>1
  <1>7. next' \in Nat /\ 1 <= next' /\ next' <= Total + 1
    BY <1>0
  <1>8. UNCHANGED delivered => DeliveredRead'
    BY <1>0, PackageFacts DEF RecvInv, DeliveredRead
  <1> QED
    BY <1>2, <1>3, <1>4, <1>6, <1>7, <1>8

(* The C2 port reads into the buffer on its stack.                         *)
LEMMA C2Read ==
    ASSUME RecvInv, NEW n \in 1..MaxRead, c2_network_cbk_data(n)
    PROVE  RecvInv'
  <1>0. /\ next \in Nat /\ 1 <= next /\ next <= Total + 1 /\ Total \in Nat /\ n \in Nat /\ 1 <= n
        /\ next + n - 1 <= Total /\ n <= MaxRead
    BY Types, Numbers, PackageFacts DEF c2_network_cbk_data, Left
  <1>1. /\ port = "c2" /\ len = 0 /\ imp' = 0 /\ len' = n /\ next' = next + n
        /\ UNCHANGED <<port, st, buf, wCount, wPkgSize, rd, delivered>>
        /\ call' = [idle |-> st = "magic", clean |-> st = "magic" /\ next \in Starts,
                    before |-> Len(delivered), arrived |-> WholeIn(next, next + n - 1)]
    BY DEF c2_network_cbk_data, recvVars
  <1>2. rd = NoRead
    BY <1>1 DEF RecvInv, ReadType
  <1>3. PICK old \in Leftovers : mem' = Written(old, 0, next, next + n - 1)
    BY DEF c2_network_cbk_data
  <1>4. PICK j \in Nat : j = next + n - 1
    BY <1>0
  <1>5. /\ 0 + j - next \in Addr /\ j - next = n - 1 /\ next' = j + 1 /\ 0 \in Nat
        /\ next <= next /\ next <= j /\ j <= Total /\ mem' = Written(old, 0, next, j)
    BY <1>0, <1>1, <1>3, <1>4, Numbers
  <1>6. /\ mem' \in [Addr -> 0..Total] /\ MemRead' /\ DeliveredRead'
        /\ \A k \in 0..(n - 1) : mem'[0 + k] = next + k
    <2>0. next \in Nat /\ UNCHANGED delivered
      BY <1>0, <1>1
    <2>1. mem' \in [Addr -> 0..Total] /\ MemRead' /\ DeliveredRead'
      BY ONLY RecvInv, <1>5, <2>0, old \in Leftovers, j \in Nat, RecvFacts, SMT
    <2>2. \A k \in 0..(j - next) : mem'[0 + k] = next + k
      BY ONLY RecvInv, <1>5, <2>0, old \in Leftovers, j \in Nat, RecvFacts, SMT
    <2> QED
      BY <1>5, <2>1, <2>2
  <1>7. TypeOK'
    BY <1>0, <1>1, <1>6, Numbers DEF RecvInv, TypeOK
  <1>8. ReadType' /\ CallType'
    <2>1. ReadType'
      <3>1. imp' + len' <= Stride + MaxSize + MaxRead
        BY <1>0, <1>1, Numbers
      <3>2. buf' <= Stride + MaxSize + MaxRead
        BY <1>1 DEF RecvInv, ReadType
      <3> QED
        BY <1>1, <1>2, <3>1, <3>2 DEF ReadType, NoRead
    <2>2. call'.arrived \in SUBSET Packages /\ Len(delivered) \in Nat
      BY <1>1, Types DEF WholeIn
    <2>3. call' \in [idle : BOOLEAN, clean : BOOLEAN, before : Nat, arrived : SUBSET Packages]
      BY <1>1, <2>2, Zenon
    <2>4. call'.clean => call'.idle
      BY <1>1, Zenon
    <2>6. call'.before <= Len(delivered)
      BY <1>1, <2>2
    <2>5. CallType'
      BY <1>1, <2>3, <2>4, <2>6 DEF CallType
    <2> QED
      BY <2>1, <2>5
  <1>11. IdleReading' /\ CleanReading' /\ CleanCallDelivers'
    BY <1>0, <1>1, <1>2 DEF IdleReading, CleanReading, CleanCallDelivers
  <1>12. IdleCallInOrder' /\ Fresh' = {}
    BY <1>1, NothingFresh
  <1>13. ASSUME st = "magic" PROVE Begun' = 0 /\ Parsed' = next /\ IdleState'
    <2>1. Begun' = 0 /\ Parsed' = next
      BY <1>0, <1>1, <1>13 DEF Begun, Parsed
    <2>2. imp' - Begun' = 0 /\ Begun' + len' = n
      BY <1>0, <1>1, <2>1
    <2>3. At(imp - Begun, Parsed, Begun + len)'
      BY <1>6, <2>1, <2>2 DEF At
    <2>4. DeliveredBefore(Parsed)'
      BY <1>1, <2>1 DEF RecvInv, DeliveredRead, DeliveredBefore
    <2> QED
      BY <1>1, <1>13, <2>1, <2>3, <2>4 DEF IdleState
  <1>14. IdleParsing'
    BY <1>1, <1>13 DEF IdleParsing
  <1>15. ASSUME st = "magic", next \in Starts PROVE CleanState'
    <2>1. Parsed' = next /\ call'.arrived = {p \in Packages : next <= First(p) /\ Ends[p] <= next + n - 1}
      BY <1>1, <1>13, <1>15 DEF WholeIn
    <2>2. \A p \in call'.arrived : ~(Ends[p] < next) /\ Ends[p] < next'
      BY <1>0, <1>1, <2>1, PackageFacts, Numbers
    <2>3. Fresh' = {p \in call'.arrived : Ends[p] < next}
      BY <1>12, <2>2
    <2>4. \A p \in Packages : First(p) >= next /\ Ends[p] < next' => p \in call'.arrived
      BY <1>0, <1>1, <2>1, PackageFacts
    <2> QED
      BY <1>1, <1>15, <2>1, <2>2, <2>3, <2>4 DEF CleanState
  <1>16. CleanParsing'
    BY <1>1, <1>15 DEF CleanParsing
  <1> QED
    BY <1>6, <1>7, <1>8, <1>11, <1>12, <1>14, <1>16 DEF RecvInv

(* Bytes that are skipped or dropped between two calls.                    *)
LEMMA SkipBytes ==
    ASSUME RecvInv, len = 0, rd = NoRead, next' \in Nat, next <= next', next' <= Total + 1,
           UNCHANGED <<port, mem, imp, len, recvVars, rd, delivered, call>>
    PROVE  RecvInv'
  <1>0. next \in Nat /\ 1 <= next /\ Total \in Nat /\ mem \in [Addr -> 0..Total]
    BY Types, PackageFacts
  <1>1. UNCHANGED <<st, buf, wCount, wPkgSize>>
    BY DEF recvVars
  <1>2. TypeOK' /\ ReadType' /\ CallType'
    BY <1>0, <1>1 DEF RecvInv, TypeOK, ReadType, CallType
  <1>3. MemRead'
    BY <1>0 DEF RecvInv, MemRead
  <1>4. DeliveredRead'
    BY <1>0, PackageFacts DEF RecvInv, DeliveredRead
  <1>5. IdleReading' /\ IdleParsing' /\ CleanReading' /\ CleanParsing'
    BY DEF IdleReading, IdleParsing, CleanReading, CleanParsing
  <1>6. IdleCallInOrder' /\ CleanCallDelivers'
    BY DEF RecvInv, IdleCallInOrder, CleanCallDelivers
  <1> QED
    BY <1>2, <1>3, <1>4, <1>5, <1>6 DEF RecvInv

(* A C2 connection is made again.                                          *)
LEMMA ReconnectRecv ==
    ASSUME RecvInv, Reconnect
    PROVE  RecvInv'
  <1>1. PICK p \in Packages : next' = First(p) /\ next' > next
    BY DEF Reconnect, Starts
  <1>2. next' \in Nat /\ next <= next' /\ next' <= Total + 1
    <2>1. next \in Nat /\ Total \in Nat
      BY Types, PackageFacts
    <2>2. First(p) \in Nat /\ First(p) <= Total
      BY PackageFacts, Numbers
    <2> QED
      BY <1>1, <2>1, <2>2
  <1>3. len = 0 /\ rd = NoRead
    BY DEF Reconnect, RecvInv, ReadType
  <1> QED
    BY <1>2, <1>3, SkipBytes DEF Reconnect

(* A recv of the radar port fails.                                         *)
LEMMA FailsRecv ==
    ASSUME RecvInv, RecvFails
    PROVE  RecvInv'
  <1>0. next \in Nat /\ 1 <= next /\ next <= Total + 1 /\ Total \in Nat
        /\ mem \in [Addr -> 0..Total] /\ Len(delivered) \in Nat
    BY Types, PackageFacts
  <1>1. /\ len = 0 /\ next' = Total + 1 /\ rd' = NoRead /\ call' = NoCall
        /\ UNCHANGED <<port, mem, imp, len, st, buf, wCount, wPkgSize, delivered>>
    BY DEF RecvFails, recvVars
  <1>2. TypeOK'
    BY <1>0, <1>1 DEF RecvInv, TypeOK
  <1>3. ReadType'
    BY <1>1 DEF RecvInv, ReadType, NoRead
  <1>4. CallType'
    BY <1>0, <1>1 DEF CallType, NoCall
  <1>5. MemRead'
    BY <1>0, <1>1 DEF MemRead
  <1>6. DeliveredRead'
    BY <1>0, <1>1, PackageFacts DEF RecvInv, DeliveredRead
  <1>7. ~call'.idle /\ ~call'.clean
    BY <1>1 DEF NoCall
  <1> QED
    BY <1>2, <1>3, <1>4, <1>5, <1>6, <1>7 DEF RecvInv, IdleReading, IdleParsing,
       IdleCallInOrder, CleanReading, CleanParsing, CleanCallDelivers

(* The first recv of the radar port finds the beginning of a package.      *)
LEMMA HeadFound ==
    ASSUME RecvInv, NEW n \in 1..FirstLen, ReadHead(n), ~ UNCHANGED <<mem, rd, call>>
    PROVE  RecvInv'
  <1> DEFINE found == {i \in 1..n : alink_check_magic(next + i - 1)}
  <1>0. /\ next \in Nat /\ 1 <= next /\ Total \in Nat /\ n \in Nat /\ 1 <= n
        /\ next + n - 1 <= Total /\ n < HeadLen
    <2>1. next \in Nat /\ 1 <= next /\ Total \in Nat
      BY Types, PackageFacts
    <2>2. n \in Nat /\ 1 <= n /\ n < HeadLen
      BY Numbers DEF FirstLen
    <2>3. n <= Total - next + 1
      BY DEF ReadHead, Left
    <2> QED
      BY <2>1, <2>2, <2>3
  <1>1. /\ port = "radar" /\ len = 0 /\ rd = NoRead /\ next' = next + n
        /\ UNCHANGED <<port, imp, len, st, buf, wCount, wPkgSize, delivered>>
    BY DEF ReadHead, recvVars
  <1>2. found # {}
    BY DEF ReadHead
  <1>3. PICK m \in found : m = Min(found) /\ \A i \in found : m <= i
    <2>1. found \in SUBSET Nat
      BY <1>0
    <2> QED
      BY <1>2, <2>1, LeastFound
  <1>4. m \in Nat /\ 1 <= m /\ m <= n
    BY <1>0, <1>3
  <1>5. PICK b \in Blocks, s \in alink_package_valid_length(m, n), old \in Leftovers :
            /\ mem' = Written(old, b, next + m - 1, next + n - 1)
            /\ rd' = [base |-> b, size |-> s, off |-> n - m + 1, start |-> next]
    BY <1>2, <1>3 DEF ReadHead
  <1>6. call' = [idle |-> st = "magic", clean |-> st = "magic" /\ next \in Starts /\ n > 1,
                 before |-> Len(delivered), arrived |-> {p \in Packages : First(p) = next}]
    BY <1>2 DEF ReadHead
  <1>7. s \in MinSize..MaxSize
    <2>1. next + m \in Int
      BY <1>0, <1>4
    <2> QED
      BY <2>1, <1>5, SizeFacts, Numbers DEF alink_package_valid_length
  <1>8. PICK i \in Nat, j \in Nat : i = next + m - 1 /\ j = next + n - 1
    BY <1>0, <1>4
  <1>9. /\ b \in Nat /\ b + j - i \in Addr /\ next <= i /\ i <= j /\ j <= Total
        /\ next' = j + 1 /\ mem' = Written(old, b, i, j) /\ UNCHANGED delivered
        /\ j - i = (n - m + 1) - 1 /\ i = next' - (n - m + 1)
    BY <1>0, <1>1, <1>4, <1>5, <1>8, Numbers
  <1>10. /\ mem' \in [Addr -> 0..Total] /\ MemRead' /\ DeliveredRead'
         /\ next' \in Nat /\ 1 <= next' /\ next' <= Total + 1
    BY ONLY RecvInv, <1>9, old \in Leftovers, i \in Nat, j \in Nat, RecvFacts, SMT
  <1>11. \A k \in 0..(j - i) : mem'[b + k] = i + k
    BY ONLY RecvInv, <1>9, old \in Leftovers, i \in Nat, j \in Nat, RecvFacts, SMT
  <1>12. TypeOK'
    BY <1>0, <1>1, <1>10 DEF RecvInv, TypeOK
  <1>13. /\ rd' # NoRead /\ rd'.base = b /\ rd'.size = s /\ rd'.off = n - m + 1
         /\ rd'.start = next
    BY <1>5, <1>7, Numbers DEF NoRead
  <1>14. ReadType'
    <2>1. n - m + 1 \in 1..(s - 1)
      BY <1>0, <1>4, <1>7, Numbers
    <2>2. imp' + len' <= Stride + MaxSize + MaxRead /\ buf' <= Stride + MaxSize + MaxRead
      BY <1>1 DEF RecvInv, ReadType
    <2> QED
      BY <1>1, <1>5, <1>7, <1>13, <2>1, <2>2 DEF ReadType
  <1>15. CallType'
    <2>1. Len(delivered) \in Nat /\ {p \in Packages : First(p) = next} \in SUBSET Packages
      BY Types
    <2>2. call' \in [idle : BOOLEAN, clean : BOOLEAN, before : Nat, arrived : SUBSET Packages]
      BY <1>6, <2>1, Zenon
    <2>3. call'.clean => call'.idle
      BY <1>6, Zenon
    <2>4. call'.before <= Len(delivered)
      BY <1>6, <2>1
    <2> QED
      BY <1>1, <2>2, <2>3, <2>4 DEF CallType
  <1>16. IdleCallInOrder'
    BY <1>1, <1>6, NothingFresh
  <1>17. IdleReading'
    <2> SUFFICES ASSUME call'.idle PROVE IdleReading'
      BY DEF IdleReading
    <2>1. st' = "magic" /\ call'.before = Len(delivered')
      BY <1>1, <1>6
    <2>2. At(rd.base, next - rd.off, rd.off)'
      BY <1>9, <1>11, <1>13 DEF At
    <2>3. DeliveredBefore(next - rd.off)'
      <3>1. \A k \in DOMAIN delivered : Ends[delivered[k]] < i
        BY <1>0, <1>9, PackageFacts DEF RecvInv, DeliveredRead
      <3> QED
        BY <1>9, <1>13, <3>1 DEF DeliveredBefore
    <2> QED
      BY <2>1, <2>2, <2>3 DEF IdleReading
  <1>18. CleanReading'
    <2> SUFFICES ASSUME call'.clean PROVE CleanReading'
      BY DEF CleanReading
    <2>1. next \in Starts /\ n > 1
      BY <1>6
    <2>2. PICK p \in Packages : First(p) = next
      BY <2>1 DEF Starts
    <2>3. m = 1
      <3>1. next + 1 - 1 = next /\ 1 \in 1..n
        BY <1>0
      <3>2. 1 \in found
        BY <2>1, <3>1 DEF alink_check_magic
      <3> QED
        BY <1>3, <1>4, <3>2
    <2>4. s = Size(p)
      <3>1. alink_package_valid_length(m, n) = alink_get_package_size(First(p) + 1)
        BY <1>0, <2>1, <2>2, <2>3 DEF alink_package_valid_length
      <3> QED
        BY <1>5, <3>1, SizeFacts
    <2>5. First(p) = next' - rd'.off
      BY <1>0, <1>8, <1>9, <1>13, <2>2, <2>3
    <2>6. call'.arrived = {p}
      BY <1>6, <2>2, PackageOrder
    <2> QED
      BY <1>13, <2>4, <2>5, <2>6 DEF CleanReading
  <1>19. IdleParsing' /\ CleanParsing' /\ CleanCallDelivers'
    BY <1>1, <1>13 DEF IdleParsing, CleanParsing, CleanCallDelivers
  <1> QED
    BY <1>10, <1>12, <1>14, <1>15, <1>16, <1>17, <1>18, <1>19 DEF RecvInv

(* The first recv of the radar port, also when its bytes are dropped.      *)
LEMMA HeadRead ==
    ASSUME RecvInv, NEW n \in 1..FirstLen, ReadHead(n)
    PROVE  RecvInv'
  <1>1. CASE UNCHANGED <<mem, rd, call>>
    <2>1. next \in Nat /\ Total \in Nat /\ n \in Nat
      BY Types, PackageFacts, Numbers DEF FirstLen
    <2>2. n <= Total - next + 1 /\ next' = next + n /\ len = 0 /\ rd = NoRead
      BY DEF ReadHead, Left
    <2>3. next' \in Nat /\ next <= next' /\ next' <= Total + 1
      BY <2>1, <2>2
    <2> QED
      BY <1>1, <2>2, <2>3, SkipBytes DEF ReadHead
  <1>2. CASE ~ UNCHANGED <<mem, rd, call>>
    BY <1>2, HeadFound
  <1> QED
    BY <1>1, <1>2

(* A later recv of the radar port: what it reads follows in memory what    *)
(* was read before.                                                        *)
LEMMA RestFacts ==
    ASSUME RecvInv, NEW n \in 1..MaxSize, ReadRest(n)
    PROVE  /\ rd # NoRead /\ n \in Nat /\ 1 <= n /\ next' = next + n /\ rd.off + n <= rd.size
           /\ len = 0 /\ rd.base \in Blocks /\ rd.size \in MinSize..MaxSize
           /\ rd.off \in Nat /\ 1 <= rd.off /\ port = "radar"
           /\ next' \in Nat /\ 1 <= next' /\ next' <= Total + 1
           /\ mem' \in [Addr -> 0..Total] /\ MemRead' /\ DeliveredRead'
           /\ UNCHANGED <<port, st, buf, wCount, wPkgSize, delivered, call>>
           /\ call.idle =>
                 /\ st = "magic" /\ call.before = Len(delivered)
                 /\ \A k \in 0..(rd.off + n - 1) : mem'[rd.base + k] = next - rd.off + k
                 /\ DeliveredBefore(next - rd.off)
  <1>0. next \in Nat /\ 1 <= next /\ Total \in Nat
    BY Types, PackageFacts
  <1>1. /\ n <= Total - next + 1 /\ n <= rd.size - rd.off /\ rd # NoRead /\ next' = next + n
        /\ mem' = Written(mem, rd.base + rd.off, next, next + n - 1)
        /\ UNCHANGED <<port, st, buf, wCount, wPkgSize, delivered, call>>
    BY DEF ReadRest, Left, RestAt, recvVars
  <1>2. /\ rd.base \in Blocks /\ rd.size \in MinSize..MaxSize /\ rd.off \in 1..(rd.size - 1)
        /\ len = 0 /\ port = "radar"
    BY <1>1 DEF RecvInv, ReadType
  <1>3. /\ n \in Nat /\ 1 <= n /\ rd.off \in Nat /\ 1 <= rd.off /\ rd.size \in Nat
        /\ rd.base \in Nat /\ rd.off + n <= rd.size /\ rd.size <= MaxSize
    BY <1>1, <1>2, Numbers
  <1>4. PICK a \in Nat, j \in Nat : a = rd.base + rd.off /\ j = next + n - 1
    BY <1>0, <1>3
  <1>5. rd.base + rd.size <= 2 * Stride
    BY <1>2, <1>3, Numbers
  <1>p. Stride \in Nat /\ \A x \in Int : 0 <= x /\ x <= 2 * Stride => x \in Addr
    BY Numbers
  <1>q. a + j - next = rd.base + (rd.off + n) - 1 /\ j - next = n - 1
        /\ next <= j /\ j <= Total /\ next' = j + 1
    BY <1>0, <1>1, <1>3, <1>4
  <1>r. a + j - next \in Addr
    BY <1>3, <1>5, <1>p, <1>q
  <1>6. /\ a + j - next \in Addr /\ next <= next /\ next <= j /\ j <= Total
        /\ next' = j + 1 /\ mem' = Written(mem, a, next, j) /\ UNCHANGED delivered
        /\ mem \in Leftovers /\ j - next = n - 1 /\ next \in Nat
    BY <1>0, <1>1, <1>4, <1>q, <1>r DEF Leftovers
  <1>7. /\ mem' \in [Addr -> 0..Total] /\ MemRead' /\ DeliveredRead'
        /\ next' \in Nat /\ 1 <= next' /\ next' <= Total + 1
    BY ONLY RecvInv, <1>6, a \in Nat, j \in Nat, RecvFacts, SMT
  <1>8. \A k \in 0..(j - next) : mem'[a + k] = next + k
    BY ONLY RecvInv, <1>6, a \in Nat, j \in Nat, RecvFacts, SMT
  <1>9. \A b \in Addr : b < a => mem'[b] = mem[b]
    BY ONLY RecvInv, <1>6, a \in Nat, j \in Nat, RecvFacts, SMT
  <1>10. ASSUME call.idle
         PROVE  /\ st = "magic" /\ call.before = Len(delivered)
                /\ \A k \in 0..(rd.off + n - 1) : mem'[rd.base + k] = next - rd.off + k
                /\ DeliveredBefore(next - rd.off)
    <2>1. /\ st = "magic" /\ call.before = Len(delivered)
          /\ At(rd.base, next - rd.off, rd.off) /\ DeliveredBefore(next - rd.off)
      BY <1>1, <1>10 DEF RecvInv, IdleReading
    <2>2. ASSUME NEW k \in 0..(rd.off + n - 1)
          PROVE  mem'[rd.base + k] = next - rd.off + k
      <3>1. CASE k < rd.off
        <4>1. rd.base + k \in Addr /\ rd.base + k < a /\ k \in 0..(rd.off - 1)
          BY <1>3, <1>4, <1>5, <1>p, <3>1
        <4> QED
          BY <1>9, <2>1, <4>1 DEF At
      <3>2. CASE k >= rd.off
        <4>1. PICK h \in 0..(j - next) : h = k - rd.off
          BY <1>3, <1>6, <3>2
        <4>2. a + h = rd.base + k /\ next + h = next - rd.off + k
          BY <1>0, <1>3, <1>4, <4>1
        <4> QED
          BY <1>8, <4>2
      <3> QED
        BY <1>3, <3>1, <3>2
    <2> QED
      BY <2>1, <2>2
  <1> QED
    BY <1>1, <1>2, <1>3, <1>7, <1>10

(* A recv that does not complete the package.                              *)
LEMMA RestPart ==
    ASSUME RecvInv, NEW n \in 1..MaxSize, ReadRest(n), rd.off + n < rd.size
    PROVE  RecvInv'
  <1>a. /\ rd # NoRead /\ next' = next + n /\ rd.off + n <= rd.size /\ len = 0
        /\ rd.base \in Blocks /\ rd.size \in MinSize..MaxSize /\ rd.off \in Nat /\ 1 <= rd.off
        /\ port = "radar" /\ next' \in Nat /\ 1 <= next' /\ next' <= Total + 1
        /\ mem' \in [Addr -> 0..Total] /\ MemRead' /\ DeliveredRead'
        /\ UNCHANGED <<port, st, buf, wCount, wPkgSize, delivered, call>>
    BY RestFacts
  <1>b. call.idle =>
            /\ st = "magic" /\ call.before = Len(delivered)
            /\ \A k \in 0..(rd.off + n - 1) : mem'[rd.base + k] = next - rd.off + k
            /\ DeliveredBefore(next - rd.off)
    BY RestFacts
  <1>p. MinSize \in Nat /\ MaxSize \in Nat /\ 1 <= MinSize
    BY Numbers
  <1>0. next \in Nat /\ rd.off \in Nat /\ rd.size \in Nat /\ n \in Nat /\ 1 <= n
    BY <1>a, <1>p, Types
  <1>1. rd' = [rd EXCEPT !.off = @ + n] /\ UNCHANGED <<imp, len>>
    BY <1>a, <1>0 DEF ReadRest
  <1>2. rd = [base |-> rd.base, size |-> rd.size, off |-> rd.off, start |-> rd.start]
    BY <1>a DEF RecvInv, ReadType
  <1>3. /\ rd' = [base |-> rd.base, size |-> rd.size, off |-> rd.off + n, start |-> rd.start]
        /\ rd'.base = rd.base /\ rd'.size = rd.size /\ rd'.off = rd.off + n
    BY <1>a, <1>1, <1>2
  <1>4. next' - rd'.off = next - rd.off
    BY <1>a, <1>0, <1>3
  <1>5. TypeOK'
    BY <1>a, <1>0, <1>1 DEF RecvInv, TypeOK
  <1>6. ReadType' /\ CallType'
    <2>1. rd.off + n \in 1..(rd.size - 1) /\ rd.size # 0
      BY <1>a, <1>0
    <2>2. imp' + len' <= Stride + MaxSize + MaxRead /\ buf' <= Stride + MaxSize + MaxRead
      BY <1>a, <1>1 DEF RecvInv, ReadType
    <2>3. ReadType'
      BY <1>a, <1>1, <1>3, <2>1, <2>2 DEF ReadType
    <2> QED
      BY <1>a, <2>3 DEF RecvInv, CallType
  <1>7. rd' # NoRead /\ len' = 0
    BY <1>a, <1>0, <1>1, <1>3 DEF NoRead
  <1>8. IdleReading'
    <2> SUFFICES ASSUME call.idle PROVE IdleReading'
      BY <1>a DEF IdleReading
    <2>1. At(rd.base, next - rd.off, rd.off)'
      <3>1. \A k \in 0..(rd.off + n - 1) : mem'[rd.base + k] = next - rd.off + k
        BY <1>b
      <3>2. \A k \in 0..(rd'.off - 1) : mem'[rd'.base + k] = (next' - rd'.off) + k
        BY <1>0, <1>3, <1>4, <3>1
      <3> QED
        BY <3>2, Zenon DEF At
    <2>2. DeliveredBefore(next - rd.off)'
      BY <1>a, <1>b, <1>4 DEF DeliveredBefore
    <2> QED
      BY <1>a, <1>b, <2>1, <2>2 DEF IdleReading
  <1>9. CleanReading'
    BY <1>a, <1>3, <1>4 DEF RecvInv, CleanReading
  <1>10. IdleCallInOrder'
    BY <1>a DEF RecvInv, IdleCallInOrder
  <1>11. IdleParsing' /\ CleanParsing' /\ CleanCallDelivers'
    BY <1>a, <1>7 DEF IdleParsing, CleanParsing, CleanCallDelivers
  <1> QED
    BY <1>a, <1>5, <1>6, <1>8, <1>9, <1>10, <1>11 DEF RecvInv

(* The recv that completes the package: it is handed to the machine.       *)
LEMMA RestWhole ==
    ASSUME RecvInv, NEW n \in 1..MaxSize, ReadRest(n), ~(rd.off + n < rd.size)
    PROVE  RecvInv'
  <1>a. /\ rd # NoRead /\ next' = next + n /\ rd.off + n <= rd.size /\ len = 0
        /\ rd.base \in Blocks /\ rd.size \in MinSize..MaxSize /\ rd.off \in Nat /\ 1 <= rd.off
        /\ port = "radar" /\ next' \in Nat /\ 1 <= next' /\ next' <= Total + 1
        /\ mem' \in [Addr -> 0..Total] /\ MemRead' /\ DeliveredRead'
        /\ UNCHANGED <<port, st, buf, wCount, wPkgSize, delivered, call>>
    BY RestFacts
  <1>b. call.idle =>
            /\ st = "magic" /\ call.before = Len(delivered)
            /\ \A k \in 0..(rd.off + n - 1) : mem'[rd.base + k] = next - rd.off + k
            /\ DeliveredBefore(next - rd.off)
    BY RestFacts
  <1>0. /\ next \in Nat /\ rd.off \in Nat /\ 1 <= rd.off /\ n \in Nat /\ 1 <= n
        /\ rd.size \in MinSize..MaxSize /\ rd.size \in Nat /\ 1 <= rd.size /\ rd.base \in Nat
        /\ rd.size <= MaxSize
    <2>1. MinSize \in Nat /\ MaxSize \in Nat /\ 1 <= MinSize
      BY Numbers
    <2>2. rd.base \in Nat
      BY <1>a, Numbers
    <2> QED
      BY <1>a, <2>1, <2>2, Types
  <1>1. rd.off + n = rd.size /\ rd' = NoRead /\ imp' = rd.base /\ len' = rd.size
    BY <1>a, <1>0 DEF ReadRest
  <1>2. TypeOK'
    <2>1. imp' \in Addr /\ len' \in 0..(MaxSize + MaxRead)
      <3>1. rd.base \in Addr
        BY <1>a, Numbers
      <3>2. MaxSize \in Nat /\ MaxRead \in Nat
        BY Numbers
      <3> QED
        BY <1>0, <1>1, <3>1, <3>2
    <2> QED
      BY <1>a, <2>1, PackageFacts DEF RecvInv, TypeOK
  <1>3. ReadType' /\ CallType'
    <2>1. imp' + len' <= Stride + MaxSize + MaxRead
      <3>1. rd.base <= Stride /\ Stride \in Nat /\ MaxSize \in Nat /\ MaxRead \in Nat
        BY <1>a, Numbers
      <3> QED
        BY <1>0, <1>1, <3>1
    <2>3. buf' <= Stride + MaxSize + MaxRead
      BY <1>a DEF RecvInv, ReadType
    <2>2. ReadType'
      BY <1>a, <1>1, <2>1, <2>3 DEF ReadType, NoRead
    <2> QED
      BY <1>a, <2>2 DEF RecvInv, CallType
  <1>4. IdleReading' /\ CleanReading' /\ CleanCallDelivers'
    BY <1>a, <1>0, <1>1 DEF IdleReading, CleanReading, CleanCallDelivers
  <1>5. IdleCallInOrder'
    BY <1>a DEF RecvInv, IdleCallInOrder
  <1>6. call.idle => Begun' = 0 /\ Parsed' = next - rd.off
    BY <1>a, <1>b, <1>0, <1>1 DEF Begun, Parsed
  <1>7. IdleParsing'
    <2> SUFFICES ASSUME call.idle PROVE IdleState'
      BY <1>a DEF IdleParsing
    <2>1. imp' - Begun' = rd.base /\ Begun' + len' = rd.off + n /\ Parsed' = next - rd.off
      BY <1>a, <1>0, <1>1, <1>6, Numbers
    <2>2. At(imp - Begun, Parsed, Begun + len)'
      BY <1>a, <1>b, <2>1 DEF At
    <2>3. DeliveredBefore(Parsed)'
      BY <1>a, <1>b, <2>1 DEF DeliveredBefore
    <2> QED
      BY <1>a, <1>b, <2>2, <2>3 DEF IdleState
  <1>8. CleanParsing'
    <2> SUFFICES ASSUME call.clean PROVE CleanState'
      BY <1>a DEF CleanParsing
    <2>1. call.idle
      BY <1>a, Types
    <2>2. PICK p \in Packages : rd.size = Size(p) /\ First(p) = next - rd.off
                                /\ call.arrived = {p}
      BY <1>a DEF RecvInv, CleanReading
    <2>3. Parsed' = First(p) /\ First(p) \in Starts
      BY <1>a, <1>6, <2>1, <2>2, PackageFacts
    <2>4. /\ Ends[p] = next' - 1 /\ First(p) \in Nat /\ Ends[p] \in Nat
          /\ First(p) <= Ends[p] /\ next' \in Nat
      <3>1. /\ Ends[p] = First(p) + Size(p) - 1 /\ First(p) \in Nat /\ Ends[p] \in Nat
        BY PackageFacts
      <3> QED
        BY <1>a, <1>0, <1>1, <2>2, <3>1
    <2>5. Fresh' = {}
      BY <1>a, <1>b, <2>1, NothingFresh
    <2>6. ASSUME NEW q \in Packages, First(q) >= First(p), Ends[q] < next' PROVE q = p
      <3>1. First(q) \in Nat /\ Ends[q] \in Nat /\ First(q) <= Ends[q] /\ Ends[q] <= Ends[p]
        <4>1. /\ Ends[q] = First(q) + Size(q) - 1 /\ First(q) \in Nat /\ Ends[q] \in Nat
              /\ Size(q) > HeadLen /\ HeadLen > 1 /\ HeadLen \in Nat /\ Size(q) \in Int
          BY PackageFacts, Numbers
        <4> QED
          BY <2>4, <2>6, <4>1
      <3>2. p \in Nat /\ q \in Nat
        BY <1>a, PackageFacts
      <3>3. ~(q < p) /\ ~(p < q)
        <4>1. (q < p => Ends[q] < First(p)) /\ (p < q => Ends[p] < First(q))
          BY PackageFacts
        <4> QED
          BY <2>4, <2>6, <3>1, <4>1
      <3> QED
        BY <1>a, <3>2, <3>3
    <2>7. call'.arrived = {p} /\ st' # "crc"
      BY <1>a, <1>b, <2>1, <2>2
    <2>8. Fresh' = {q \in call'.arrived : Ends[q] < Parsed'}
      BY <1>a, <2>3, <2>4, <2>5, <2>7
    <2> QED
      BY <1>a, <2>3, <2>4, <2>6, <2>7, <2>8 DEF CleanState
  <1> QED
    BY <1>a, <1>2, <1>3, <1>4, <1>5, <1>7, <1>8 DEF RecvInv

(* A later part of a stretch of the stream in memory.                      *)
LEMMA AtShift ==
    ASSUME NEW a \in Int, NEW i \in Int, NEW n \in Nat, NEW d \in Nat, At(a, i, n)
    PROVE  At(a + d, i + d, n - d)
  <1> SUFFICES ASSUME NEW k \in 0..(n - d - 1) PROVE mem[a + d + k] = i + d + k
    BY DEF At
  <1>1. d + k \in 0..(n - 1) /\ a + (d + k) = a + d + k /\ i + (d + k) = i + d + k
    OBVIOUS
  <1>2. mem[a + (d + k)] = i + (d + k)
    BY <1>1 DEF At
  <1> QED
    BY <1>1, <1>2

(* A clean call that is over has delivered all it brought: the package the *)
(* machine has begun is not whole.                                         *)
LEMMA CleanEnds ==
    ASSUME RecvInv, TypeOK', UNCHANGED <<next, call>>, len' = 0, CleanState'
    PROVE  Fresh' = call'.arrived
  <1>0. /\ next \in Nat /\ wCount' \in Nat /\ wPkgSize' \in Nat /\ HeadLen \in Nat
        /\ MinSize \in Nat /\ MaxSize \in Nat /\ HeadLen < MinSize
        /\ st' \in {"magic", "head", "crc"} /\ call'.arrived \subseteq Packages
    <2>1. /\ HeadLen \in Nat /\ MinSize \in Nat /\ MaxSize \in Nat /\ HeadLen < MinSize
      BY Numbers
    <2>2. next \in Nat /\ call'.arrived \subseteq Packages
      BY Types
    <2>3. wCount' \in 0..MaxSize /\ wPkgSize' \in {0} \cup MinSize..MaxSize
          /\ st' \in {"magic", "head", "crc"}
      BY DEF TypeOK
    <2> QED
      BY <2>1, <2>2, <2>3
  <1>1. /\ Fresh' = {p \in call'.arrived : Ends[p] < Parsed'}
        /\ \A p \in call'.arrived : Ends[p] < next
    BY DEF CleanState
  <1>2. CASE Parsed' = next
    BY <1>1, <1>2
  <1>3. CASE Parsed' # next
    <2>1. PICK p \in Packages : First(p) = Parsed'
      BY <1>3 DEF CleanState, Starts
    <2>2. /\ Ends[p] = First(p) + Size(p) - 1 /\ First(p) \in Nat /\ Ends[p] \in Nat
          /\ Size(p) > HeadLen /\ Size(p) \in Int
      BY <1>0, PackageFacts
    <2>3. st' # "magic"
      <3>1. st' = "magic" => Parsed' = next' - len' - 0
        BY DEF Parsed, Begun
      <3> QED
        BY <1>0, <1>3, <3>1
    <2>4. Parsed' = next - wCount'
      BY <1>0, <2>3 DEF Parsed, Begun
    <2>5. wCount' < Size(p)
      <3>1. CASE st' = "head"
        <4>1. wCount' < HeadLen
          BY <1>0, <3>1 DEF TypeOK
        <4> QED
          BY <1>0, <2>2, <4>1
      <3>2. CASE st' = "crc"
        <4>1. wCount' < wPkgSize'
          <5>1. wCount' \in HeadLen..(wPkgSize' - 1)
            BY <3>2 DEF TypeOK
          <5>2. \A h, w \in Nat : \A x \in h..(w - 1) : x < w
            OBVIOUS
          <5> QED
            BY <1>0, <5>1, <5>2, Zenon
        <4>2. wPkgSize' = Size(p)
          BY <2>1, <3>2 DEF CleanState
        <4> QED
          BY <4>1, <4>2
      <3> QED
        BY <1>0, <2>3, <3>1, <3>2
    <2>6. Ends[p] >= next
      BY <1>0, <2>1, <2>2, <2>4, <2>5
    <2>7. ASSUME NEW q \in call'.arrived PROVE Ends[q] < Parsed'
      <3>1. q \in Packages /\ Ends[q] \in Nat /\ Ends[q] < next
        BY <1>0, <1>1, PackageFacts
      <3>2. Ends[q] < Ends[p]
        BY <1>0, <2>2, <2>6, <3>1
      <3> QED
        BY <2>1, <3>1, <3>2, PackageOrder
    <2> QED
      BY <1>1, <2>7
  <1> QED
    BY <1>2, <1>3

(* What a step of the machine has to show.                                 *)
LEMMA MachineStep ==
    ASSUME RecvInv, len > 0, UNCHANGED <<port, next, mem, rd, call>>,
           TypeOK', imp' + len' = imp + len, buf' <= Stride + MaxSize + MaxRead,
           DeliveredRead', Len(delivered') >= Len(delivered), IdleCallInOrder',
           call.idle => IdleState', call.clean => CleanState'
    PROVE  RecvInv'
  <1>0. len \in Nat /\ rd = NoRead
    BY Types
  <1>1. ReadType'
    BY <1>0 DEF RecvInv, ReadType, NoRead
  <1>2. CallType'
    <2>1. Len(delivered') \in Nat /\ Len(delivered) \in Nat /\ call.before \in Nat
      BY Types, LenProperties DEF TypeOK
    <2> QED
      BY <2>1 DEF RecvInv, CallType
  <1>3. MemRead'
    BY DEF RecvInv, MemRead
  <1>4. IdleReading' /\ CleanReading'
    BY <1>0 DEF IdleReading, CleanReading
  <1>5. IdleParsing' /\ CleanParsing'
    BY DEF IdleParsing, CleanParsing
  <1>6. CleanCallDelivers'
    <2> SUFFICES ASSUME call.clean, len' = 0 PROVE Fresh' = call'.arrived
      BY DEF CleanCallDelivers, Fresh
    <2> QED
      BY CleanEnds
  <1> QED
    BY <1>1, <1>2, <1>3, <1>4, <1>5, <1>6 DEF RecvInv

(* What the step knows of the state of the machine.                        *)
LEMMA MachineFacts ==
    ASSUME RecvInv, len > 0
    PROVE  /\ next \in Nat /\ len \in Nat /\ 1 <= len /\ imp \in Nat /\ buf \in Nat
           /\ wCount \in Nat /\ wPkgSize \in Nat /\ Begun \in Nat /\ Parsed \in Int
           /\ next - len \in Int /\ imp + len <= Stride + MaxSize + MaxRead
           /\ buf <= Stride + MaxSize + MaxRead
           /\ call.idle => /\ At(imp - Begun, Parsed, Begun + len)
                           /\ st # "magic" => imp = buf + wCount
                           /\ DeliveredBefore(Parsed)
           /\ call.clean => CleanState /\ call.idle
           /\ \A k \in DOMAIN delivered : delivered[k] \in Packages
                                          /\ Ends[delivered[k]] \in Nat
  <1>1. /\ next \in Nat /\ len \in Nat /\ 1 <= len /\ imp \in Nat /\ buf \in Nat
        /\ wCount \in Nat /\ wPkgSize \in Nat /\ (call.clean => call.idle)
    BY Types
  <1>2. Begun \in Nat
    BY <1>1 DEF Begun
  <1>3. Parsed \in Int /\ next - len \in Int
    BY <1>1, <1>2 DEF Parsed
  <1>4. imp + len <= Stride + MaxSize + MaxRead /\ buf <= Stride + MaxSize + MaxRead
    BY DEF RecvInv, ReadType
  <1>5. call.idle => IdleState
    BY DEF RecvInv, IdleParsing
  <1>6. call.clean => CleanState
    BY DEF RecvInv, CleanParsing
  <1>7. \A k \in DOMAIN delivered : delivered[k] \in Packages /\ Ends[delivered[k]] \in Nat
    BY PackageFacts DEF RecvInv, DeliveredRead
  <1> QED
    BY <1>1, <1>2, <1>3, <1>4, <1>5, <1>6, <1>7 DEF IdleState

(* A step that delivers nothing.                                           *)
LEMMA QuietStep ==
    ASSUME RecvInv, len > 0, UNCHANGED <<port, next, mem, rd, delivered, call>>,
           TypeOK', imp' + len' = imp + len, buf' <= Stride + MaxSize + MaxRead,
           Parsed' \in Int, Parsed' >= Parsed,
           call.idle => At(imp - Begun, Parsed, Begun + len)',
           call.idle /\ st' # "magic" => imp' = buf' + wCount',
           call.clean => /\ Parsed' = Parsed
                         /\ st' = "crc" => \A p \in Packages :
                                              First(p) = Parsed => wPkgSize' = Size(p)
    PROVE  RecvInv'
  <1>1. DeliveredRead' /\ IdleCallInOrder' /\ Len(delivered') >= Len(delivered)
    BY Types DEF RecvInv, DeliveredRead, IdleCallInOrder
  <1>2. ASSUME call.idle PROVE IdleState'
    <2>1. DeliveredBefore(Parsed)'
      BY <1>2, MachineFacts DEF DeliveredBefore
    <2> QED
      BY <1>2, <2>1 DEF IdleState
  <1>3. ASSUME call.clean PROVE CleanState'
    <2>1. CleanState /\ Parsed' = Parsed /\ Fresh' = Fresh
      BY <1>3, MachineFacts DEF Fresh
    <2> QED
      BY <1>3, <2>1 DEF CleanState
  <1> QED
    BY <1>1, <1>2, <1>3, MachineStep

(* alink_recv_state_check_magic: bytes up to a magic are passed over.      *)
LEMMA MagicStep ==
    ASSUME RecvInv, alink_recv_state_check_magic
    PROVE  RecvInv'
  <1> DEFINE found == {i \in 0..(len - 1) : alink_check_magic(mem[imp + i])}
  <1>0. len > 0 /\ st = "magic" /\ UNCHANGED <<port, next, mem, rd, delivered, call>>
    BY DEF alink_recv_state_check_magic
  <1>1. /\ next \in Nat /\ len \in Nat /\ 1 <= len /\ imp \in Nat
        /\ imp + len <= Stride + MaxSize + MaxRead
        /\ Stride \in Nat /\ MaxSize \in Nat /\ MaxRead \in Nat /\ Stride = 2 * (MaxSize + MaxRead)
    BY <1>0, MachineFacts, Numbers
  <1>2. Begun = 0 /\ Parsed = next - len
    BY <1>0, <1>1 DEF Begun, Parsed
  <1>3. call.idle => At(imp, next - len, len)
    <2>1. imp - Begun = imp /\ Begun + len = len
      BY <1>1, <1>2
    <2> QED
      BY <1>0, <1>2, <2>1, MachineFacts
  <1>4. call.clean => 0 \in found
    <2> SUFFICES ASSUME call.clean PROVE 0 \in found
      OBVIOUS
    <2>1. Parsed \in Starts
      BY <1>0, <1>1, <1>2, MachineFacts DEF CleanState
    <2>2. 0 \in 0..(len - 1) /\ (next - len) + 0 = next - len
      BY <1>1
    <2>3. mem[imp + 0] = next - len
      <3>1. call.idle
        BY <1>0, MachineFacts
      <3> QED
        BY <1>3, <2>2, <3>1 DEF At
    <2> QED
      BY <1>2, <2>1, <2>2, <2>3 DEF alink_check_magic
  <1>5. CASE found = {}
    <2>1. imp' = imp + len /\ len' = len - len /\ UNCHANGED <<st, buf, wCount, wPkgSize>>
      BY <1>5 DEF alink_recv_state_check_magic, Consume, recvVars
    <2>2. len' = 0 /\ imp' + len' = imp + len /\ imp' \in Addr
      BY <1>1, <2>1, Numbers
    <2>3. TypeOK'
      BY <1>0, <2>1, <2>2, Numbers DEF RecvInv, TypeOK
    <2>4. Begun' = 0 /\ Parsed' = next /\ Parsed' >= Parsed /\ Parsed' \in Int
      BY <1>0, <1>1, <1>2, <2>1, <2>2 DEF Begun, Parsed
    <2>5. At(imp - Begun, Parsed, Begun + len)'
      BY <2>2, <2>4 DEF At
    <2>6. buf' <= Stride + MaxSize + MaxRead /\ st' = "magic" /\ ~call.clean
      BY <1>0, <1>4, <1>5, <2>1, MachineFacts
    <2> QED
      BY <1>0, <2>2, <2>3, <2>4, <2>5, <2>6, QuietStep
  <1>6. CASE found # {}
    <2>1. PICK m \in found : m = Min(found) /\ \A i \in found : m <= i
      <3>1. found \in SUBSET Nat
        BY <1>1
      <3> QED
        BY <1>6, <3>1, LeastFound
    <2>2. m \in Nat /\ m < len
      BY <1>1, <2>1
    <2>3. /\ buf' = imp + m /\ wCount' = 1 /\ st' = "head" /\ UNCHANGED wPkgSize
          /\ imp' = imp + (m + 1) /\ len' = len - (m + 1)
      BY <1>6, <2>1 DEF alink_recv_state_check_magic, Consume, BufferAt
    <2>4. /\ imp' + len' = imp + len /\ buf' <= Stride + MaxSize + MaxRead
          /\ imp' <= Stride + MaxSize + MaxRead /\ imp' \in Nat /\ buf' \in Nat /\ len' \in Nat
          /\ len' <= len /\ imp' = buf' + wCount'
      BY <1>1, <2>2, <2>3
    <2>5. TypeOK'
      <3>1. imp' \in Addr /\ buf' \in Addr
        BY <1>1, <2>4, Numbers
      <3>2. len' \in 0..(MaxSize + MaxRead)
        BY <1>1, <2>4 DEF RecvInv, TypeOK
      <3>3. wCount' \in 0..MaxSize /\ wCount' \in 1..(HeadLen - 1)
        BY <2>3, Numbers
      <3> QED
        BY <1>0, <2>3, <3>1, <3>2, <3>3 DEF RecvInv, TypeOK
    <2>6. Begun' = 1 /\ Parsed' = next - len + m /\ Parsed' \in Int /\ Parsed' >= Parsed
      BY <1>0, <1>1, <1>2, <2>2, <2>3 DEF Begun, Parsed
    <2>7. ASSUME call.idle PROVE At(imp - Begun, Parsed, Begun + len)'
      <3>1. At(imp + m, (next - len) + m, len - m)
        <4>1. imp \in Int /\ next - len \in Int
          BY <1>1
        <4> QED
          BY <1>1, <1>3, <2>2, <2>7, <4>1, AtShift
      <3>2. imp' - Begun' = imp + m /\ Begun' + len' = len - m /\ Parsed' = (next - len) + m
        BY <1>1, <2>2, <2>3, <2>6
      <3> QED
        BY <1>0, <3>1, <3>2 DEF At
    <2>8. call.clean => Parsed' = Parsed
      BY <1>1, <1>2, <1>4, <2>1, <2>2, <2>6
    <2> QED
      BY <1>0, <2>3, <2>4, <2>5, <2>6, <2>7, <2>8, QuietStep
  <1> QED
    BY <1>5, <1>6

(* The machine takes the whole import without completing anything.         *)
LEMMA TakeAll ==
    ASSUME RecvInv, len > 0, st \in {"head", "crc"},
           imp' = imp + len, len' = len - len, wCount' = wCount + len,
           UNCHANGED <<port, next, mem, rd, delivered, call, st, buf, wPkgSize>>,
           st = "head" => wCount + len < HeadLen, st = "crc" => wCount + len < wPkgSize
    PROVE  RecvInv'
  <1>1. /\ next \in Nat /\ len \in Nat /\ 1 <= len /\ imp \in Nat /\ wCount \in Nat
        /\ imp + len <= Stride + MaxSize + MaxRead /\ buf <= Stride + MaxSize + MaxRead
        /\ wPkgSize \in Nat
    BY MachineFacts
  <1>2. /\ Stride \in Nat /\ MaxSize \in Nat /\ MaxRead \in Nat /\ HeadLen \in Nat
        /\ Stride = 2 * (MaxSize + MaxRead) /\ MinSize \in Nat
        /\ HeadLen < MinSize /\ MinSize <= MaxSize
    BY Numbers
  <1>3. /\ imp' + len' = imp + len /\ imp' \in Nat /\ imp' <= Stride + MaxSize + MaxRead
        /\ len' = 0
    BY <1>1
  <1>4. TypeOK'
    <2>1. imp' \in Addr /\ len' \in 0..(MaxSize + MaxRead)
      BY <1>2, <1>3, Numbers
    <2>2. /\ st = "head" => wCount \in 1..(HeadLen - 1)
          /\ st = "crc" => wCount \in HeadLen..(wPkgSize - 1)
          /\ wPkgSize \in {0} \cup MinSize..MaxSize
      BY DEF RecvInv, TypeOK
    <2>3. st = "head" => wCount' \in 1..(HeadLen - 1) /\ wCount' \in 0..MaxSize
      BY <1>1, <1>2, <2>2
    <2>4. st = "crc" => wCount' \in HeadLen..(wPkgSize - 1) /\ wCount' \in 0..MaxSize
      BY <1>1, <1>2, <2>2
    <2> QED
      BY <2>1, <2>3, <2>4 DEF RecvInv, TypeOK
  <1>5. /\ Begun = wCount /\ Parsed = next - len - wCount
        /\ Begun' = wCount + len /\ Parsed' = next - len' - (wCount + len)
    BY DEF Begun, Parsed
  <1>6. /\ Parsed' = Parsed /\ Parsed \in Int /\ imp' - Begun' = imp - Begun
        /\ Begun' + len' = Begun + len
    BY <1>1, <1>3, <1>5
  <1>7. call.idle => At(imp - Begun, Parsed, Begun + len)' /\ imp' = buf' + wCount'
    <2> SUFFICES ASSUME call.idle PROVE At(imp - Begun, Parsed, Begun + len)' /\ imp' = buf' + wCount'
      OBVIOUS
    <2>1. At(imp - Begun, Parsed, Begun + len) /\ imp = buf + wCount /\ buf \in Nat
      BY MachineFacts
    <2>2. At(imp - Begun, Parsed, Begun + len)'
      BY <1>6, <2>1 DEF At
    <2>3. imp' = buf' + wCount'
      BY <1>1, <2>1
    <2> QED
      BY <2>2, <2>3
  <1>8. call.clean => (st' = "crc" => \A p \in Packages : First(p) = Parsed => wPkgSize' = Size(p))
    BY MachineFacts DEF CleanState
  <1>9. Parsed' \in Int /\ Parsed' >= Parsed
    BY <1>6
  <1> QED
    BY <1>1, <1>3, <1>4, <1>6, <1>7, <1>8, <1>9, QuietStep

(* Where the machine stands when it has taken n bytes of what it has begun *)
(* and looks for a magic again.                                            *)
LEMMA TakeSome ==
    ASSUME RecvInv, len > 0, st \in {"head", "crc"}, NEW n \in Nat,
           wCount <= n, n <= wCount + len,
           imp' = imp + (n - wCount), len' = len - (n - wCount),
           UNCHANGED <<next, mem, buf>>
    PROVE  /\ imp' \in Nat /\ len' \in Nat /\ len' <= len /\ imp' + len' = imp + len
           /\ imp' \in Addr /\ len' \in 0..(MaxSize + MaxRead)
           /\ Parsed \in Int /\ Parsed = next - len - wCount /\ Begun = wCount
           /\ next - len' = Parsed + n
           /\ call.idle => /\ \A k \in 0..(n - 1) : mem[buf + k] = Parsed + k
                           /\ \A k \in 0..(len' - 1) : mem[imp' + k] = (Parsed + n) + k
                           /\ imp' = buf + n
  <1>1. /\ next \in Nat /\ len \in Nat /\ 1 <= len /\ imp \in Nat /\ wCount \in Nat /\ buf \in Nat
        /\ imp + len <= Stride + MaxSize + MaxRead /\ Parsed \in Int
    BY MachineFacts
  <1>2. /\ Stride \in Nat /\ MaxSize \in Nat /\ MaxRead \in Nat
        /\ Stride = 2 * (MaxSize + MaxRead) /\ \A x \in Nat : x <= 2 * Stride => x \in Addr
    BY Numbers
  <1>3. Begun = wCount /\ Parsed = next - len - wCount
    BY DEF Begun, Parsed
  <1>4. imp' \in Nat /\ len' \in Nat /\ len' <= len /\ imp' + len' = imp + len
        /\ next - len' = Parsed + n
    BY <1>1, <1>3
  <1>5. imp' \in Addr /\ len' \in 0..(MaxSize + MaxRead)
    <2>1. imp' <= 2 * Stride
      BY <1>1, <1>2, <1>4
    <2>2. len <= MaxSize + MaxRead
      BY <1>1, <1>2 DEF RecvInv, TypeOK
    <2> QED
      BY <1>1, <1>2, <1>4, <2>1, <2>2
  <1>6. ASSUME call.idle
        PROVE  /\ \A k \in 0..(n - 1) : mem[buf + k] = Parsed + k
               /\ \A k \in 0..(len' - 1) : mem[imp' + k] = (Parsed + n) + k
               /\ imp' = buf + n
    <2>1. At(imp - Begun, Parsed, Begun + len) /\ imp = buf + wCount
      BY <1>6, MachineFacts
    <2>2. imp - Begun = buf /\ Begun + len = wCount + len /\ imp' = buf + n
      BY <1>1, <1>3, <2>1
    <2>3. At(buf, Parsed, wCount + len)
      BY <2>1, <2>2
    <2>4. \A k \in 0..(n - 1) : mem[buf + k] = Parsed + k
      BY <1>1, <2>3 DEF At
    <2>5. At(buf + n, Parsed + n, (wCount + len) - n)
      <3>1. buf \in Int /\ wCount + len \in Nat
        BY <1>1
      <3> QED
        BY <1>1, <2>3, <3>1, AtShift
    <2>6. (wCount + len) - n = len'
      BY <1>1
    <2> QED
      BY <2>2, <2>4, <2>5, <2>6 DEF At
  <1> QED
    BY <1>1, <1>3, <1>4, <1>5, <1>6

(* alink_recv_state_check_head: a header that is complete is checked.      *)
LEMMA HeadStep ==
    ASSUME RecvInv, alink_recv_state_check_head
    PROVE  RecvInv'
  <1>0. /\ len > 0 /\ st = "head" /\ UNCHANGED <<port, next, mem, buf, rd, delivered, call>>
    BY DEF alink_recv_state_check_head
  <1>1. /\ len \in Nat /\ wCount \in Nat /\ HeadLen \in Nat /\ 1 < HeadLen /\ HeadLen < MinSize
        /\ MinSize \in Nat /\ MaxSize \in Nat /\ MinSize <= MaxSize
        /\ buf <= Stride + MaxSize + MaxRead /\ wCount < HeadLen
    <2>1. /\ HeadLen \in Nat /\ 1 < HeadLen /\ HeadLen < MinSize /\ MinSize <= MaxSize
          /\ MinSize \in Nat /\ MaxSize \in Nat
      BY Numbers
    <2>2. len \in Nat /\ wCount \in Nat /\ buf <= Stride + MaxSize + MaxRead
      BY <1>0, MachineFacts
    <2>3. wCount \in 1..(HeadLen - 1)
      BY <1>0 DEF RecvInv, TypeOK
    <2> QED
      BY <2>1, <2>2, <2>3
  <1>2. CASE HeadLen - wCount > len
    <2>1. imp' = imp + len /\ len' = len - len /\ wCount' = wCount + len
          /\ UNCHANGED <<st, wPkgSize>>
      BY <1>1, <1>2 DEF alink_recv_state_check_head, Consume
    <2>2. wCount + len < HeadLen
      BY <1>1, <1>2
    <2> QED
      BY <1>0, <2>1, <2>2, TakeAll
  <1>3. CASE HeadLen - wCount <= len
    <2>1. /\ imp' = imp + (HeadLen - wCount) /\ len' = len - (HeadLen - wCount)
          /\ wCount' = HeadLen
          /\ \/ /\ alink_check_header_checksum(buf)
                /\ wPkgSize' \in alink_get_package_size(mem[buf + 1])
                /\ st' = "crc"
             \/ /\ ~alink_check_header_checksum(buf)
                /\ st' = "magic"
                /\ UNCHANGED wPkgSize
      BY <1>1, <1>3 DEF alink_recv_state_check_head, Consume
    <2>2. wCount <= HeadLen /\ HeadLen <= wCount + len
      BY <1>1, <1>3
    <2>3. /\ imp' \in Nat /\ len' \in Nat /\ imp' + len' = imp + len
          /\ imp' \in Addr /\ len' \in 0..(MaxSize + MaxRead)
          /\ Parsed \in Int /\ next - len' = Parsed + HeadLen
          /\ call.idle => /\ \A k \in 0..(HeadLen - 1) : mem[buf + k] = Parsed + k
                          /\ \A k \in 0..(len' - 1) : mem[imp' + k] = (Parsed + HeadLen) + k
                          /\ imp' = buf + HeadLen
      BY <1>0, <1>1, <2>1, <2>2, TakeSome
    <2>4. st' = "crc" => wPkgSize' \in MinSize..MaxSize
      <3>1. mem[buf + 1] \in Int
        <4>1. buf \in Nat /\ mem \in [Addr -> 0..Total] /\ Total \in Nat
          BY Types, PackageFacts
        <4>2. buf + 1 \in Addr
          BY <1>1, <4>1, Numbers
        <4> QED
          BY <4>1, <4>2
      <3> QED
        BY <2>1, <3>1, SizeFacts
    <2>5. TypeOK'
      <3>1. wCount' \in 0..MaxSize
        BY <1>1, <2>1
      <3>2. st' = "crc" => wCount' \in HeadLen..(wPkgSize' - 1)
        BY <1>1, <2>1, <2>4
      <3> QED
        BY <1>0, <2>1, <2>3, <2>4, <3>1, <3>2 DEF RecvInv, TypeOK
    <2>6. /\ st' = "crc" => Begun' = HeadLen /\ Parsed' = Parsed
          /\ st' = "magic" => Begun' = 0 /\ Parsed' = Parsed + HeadLen
          /\ Parsed' \in Int /\ Parsed' >= Parsed
      <3>1. st' = "crc" => Begun' = HeadLen /\ Parsed' = next - len' - HeadLen
        BY <1>0, <2>1 DEF Begun, Parsed
      <3>2. st' = "magic" => Begun' = 0 /\ Parsed' = next - len' - 0
        BY <1>0, <2>1 DEF Begun, Parsed
      <3> QED
        BY <1>1, <2>1, <2>3, <3>1, <3>2
    <2>7. ASSUME call.idle PROVE At(imp - Begun, Parsed, Begun + len)'
      <3>0. /\ imp' = buf + HeadLen /\ buf \in Nat /\ len' \in Nat /\ Parsed \in Int
            /\ imp' \in Nat /\ HeadLen \in Nat
        BY <1>0, <1>1, <2>3, <2>7, MachineFacts
      <3>a. imp' \in Int /\ len' \in Int /\ HeadLen \in Int
        BY <3>0
      <3>1. \A k \in 0..(HeadLen - 1) : mem[buf + k] = Parsed + k
        BY <2>3, <2>7
      <3>2. \A k \in 0..(len' - 1) : mem[imp' + k] = (Parsed + HeadLen) + k
        BY <2>3, <2>7
      <3>3. CASE st' = "crc"
        <4>1. Begun' = HeadLen /\ Parsed' = Parsed
          BY <2>6, <3>3
        <4>2. imp' - Begun' = buf /\ Begun' + len' = HeadLen + len'
          BY <3>0, <4>1
        <4>3. ASSUME NEW k \in 0..((HeadLen + len') - 1) PROVE mem[buf + k] = Parsed + k
          <5>1. CASE k < HeadLen
            <6>1. k \in 0..(HeadLen - 1)
              BY <3>0, <5>1
            <6> QED
              BY <3>1, <6>1
          <5>2. CASE k >= HeadLen
            <6>a. \A h, l \in Int : \A x \in 0..((h + l) - 1) : x >= h => x - h \in 0..(l - 1)
              OBVIOUS
            <6>1. k - HeadLen \in 0..(len' - 1)
              BY <3>a, <5>2, <6>a, Zenon
            <6>2. mem[imp' + (k - HeadLen)] = (Parsed + HeadLen) + (k - HeadLen)
              BY <3>2, <6>1
            <6>3. imp' + (k - HeadLen) = buf + k
                  /\ (Parsed + HeadLen) + (k - HeadLen) = Parsed + k
              BY <3>0
            <6> QED
              BY <6>2, <6>3
          <5> QED
            BY <3>0, <5>1, <5>2
        <4>4. At(buf, Parsed, HeadLen + len')
          BY <4>3 DEF At
        <4>5. imp' - Begun' = buf
          BY <4>2
        <4>6. Begun' + len' = HeadLen + len'
          BY <4>2
        <4>7. Parsed' = Parsed /\ mem' = mem
          BY <1>0, <4>1
        <4> QED
          BY <4>4, <4>5, <4>6, <4>7 DEF At
      <3>4. CASE st' = "magic"
        <4>1. Begun' = 0 /\ \A x \in Int : x - 0 = x /\ 0 + x = x
          BY <2>6, <3>4
        <4>2. imp' - Begun' = imp'
          BY <3>a, <4>1, Zenon
        <4>a. Begun' + len' = len'
          BY <3>a, <4>1, Zenon
        <4>b. Parsed' = Parsed + HeadLen
          BY <2>6, <3>4
        <4>3. At(imp', Parsed + HeadLen, len')
          BY <1>0, <3>2 DEF At
        <4> QED
          BY <1>0, <4>a, <4>b, <4>2, <4>3 DEF At
      <3> QED
        BY <2>1, <3>3, <3>4
    <2>8. ASSUME call.clean
          PROVE  /\ st' = "crc" /\ Parsed' = Parsed
                 /\ \A p \in Packages : First(p) = Parsed => wPkgSize' = Size(p)
      <3>0. CleanState /\ call.idle /\ next \in Nat
        BY <1>0, <2>8, MachineFacts
      <3>1. Parsed < next
        BY <1>1, <2>1, <2>2, <2>3, <3>0
      <3>2. PICK p \in Packages : First(p) = Parsed
        BY <3>0, <3>1 DEF CleanState, Starts
      <3>3. mem[buf] = Parsed /\ mem[buf + 1] = First(p) + 1
        <4>1. buf \in Nat /\ buf + 0 = buf /\ Parsed + 0 = Parsed
              /\ 0 \in 0..(HeadLen - 1) /\ 1 \in 0..(HeadLen - 1)
          BY <1>1, <2>3, Types
        <4> QED
          BY <2>3, <3>0, <3>2, <4>1
      <3>4. Holds(buf, p, HeadLen)
        <4> SUFFICES ASSUME NEW q \in 2..HeadLen PROVE mem[buf + q - 1] = First(p) + q - 1
          BY DEF Holds
        <4>1. PICK k \in 0..(HeadLen - 1) : k = q - 1
          BY <1>1
        <4>2. buf + k = buf + q - 1 /\ Parsed + k = First(p) + q - 1
          BY <1>1, <2>3, <3>2, <4>1, Types
        <4> QED
          BY <2>3, <3>0, <4>2
      <3>5. alink_check_header_checksum(buf)
        BY <3>2, <3>3, <3>4, PackageFacts DEF alink_check_header_checksum, alink_check_magic
      <3>6. st' = "crc" /\ wPkgSize' = Size(p)
        BY <2>1, <3>3, <3>5, SizeFacts
      <3> QED
        BY <2>6, <3>2, <3>6, PackageOrder
    <2>9. call.idle /\ st' # "magic" => imp' = buf' + wCount'
      BY <1>0, <2>1, <2>3
    <2> QED
      BY <1>0, <1>1, <2>3, <2>5, <2>6, <2>7, <2>8, <2>9, QuietStep
  <1> QED
    BY <1>1, <1>2, <1>3

(* A package is delivered; in an idle call it is the one the machine has   *)
(* come to.                                                                *)
LEMMA DeliverStep ==
    ASSUME RecvInv, len > 0, UNCHANGED <<port, next, mem, rd, call>>,
           TypeOK', imp' + len' = imp + len, buf' <= Stride + MaxSize + MaxRead,
           st' = "magic", NEW p \in Packages, delivered' = Append(delivered, p),
           Ends[p] < next, Parsed' = Ends[p] + 1 \/ ~call.idle,
           call.idle => First(p) = Parsed,
           call.idle => At(imp - Begun, Parsed, Begun + len)'
    PROVE  RecvInv'
  <1>0. /\ p \in Nat /\ First(p) \in Nat /\ Ends[p] \in Nat /\ First(p) <= Ends[p]
        /\ Ends[p] <= Total /\ Total \in Nat
        /\ next \in Nat /\ next <= Total + 1 /\ Parsed \in Int
    <2>1. /\ p \in Nat /\ First(p) \in Nat /\ Ends[p] \in Nat /\ Total \in Nat
          /\ Ends[p] = First(p) + Size(p) - 1 /\ Size(p) > HeadLen
          /\ Size(p) \in MinSize..MaxSize /\ Ends[p] <= Total
      BY PackageFacts
    <2>2. HeadLen \in Nat /\ MinSize \in Nat /\ MaxSize \in Nat
      BY Numbers
    <2>3. First(p) <= Ends[p]
      BY <2>1, <2>2
    <2>4. next \in Nat /\ next <= Total + 1 /\ Parsed \in Int
      BY Types, MachineFacts
    <2> QED
      BY <2>1, <2>3, <2>4
  <1>1. /\ Len(delivered) \in Nat /\ DOMAIN delivered = 1..Len(delivered)
        /\ Len(delivered') = Len(delivered) + 1
        /\ DOMAIN delivered' = 1..(Len(delivered) + 1)
        /\ \A i \in 1..Len(delivered) : delivered'[i] = delivered[i]
        /\ delivered'[Len(delivered) + 1] = p
    <2>1. delivered \in Seq({0} \cup Packages) /\ p \in {0} \cup Packages
      BY Types
    <2>2. Len(delivered) \in Nat /\ DOMAIN delivered = 1..Len(delivered)
      BY Types
    <2>3. delivered' \in Seq({0} \cup Packages) /\ Len(delivered') = Len(delivered) + 1
          /\ \A i \in 1..Len(delivered) : delivered'[i] = delivered[i]
          /\ delivered'[Len(delivered) + 1] = p
      BY <2>1, AppendProperties
    <2> QED
      BY <2>2, <2>3, LenProperties
  <1>2. \A i \in DOMAIN delivered' : i \in DOMAIN delivered \/ i = Len(delivered) + 1
    BY <1>1
  <1>3. DeliveredRead'
    <2>1. DeliveredRead
      BY DEF RecvInv
    <2>2. ASSUME NEW i \in DOMAIN delivered'
          PROVE  delivered'[i] \in Packages /\ Ends[delivered'[i]] < next
      <3>1. CASE i \in DOMAIN delivered
        BY <1>1, <2>1, <3>1 DEF DeliveredRead
      <3>2. CASE i = Len(delivered) + 1
        BY <1>1, <3>2
      <3> QED
        BY <1>2, <3>1, <3>2
    <2> QED
      BY <2>2 DEF DeliveredRead
  <1>4. ASSUME call.idle
        PROVE  \A k \in DOMAIN delivered :
                  /\ delivered[k] \in Packages /\ Ends[delivered[k]] \in Nat
                  /\ Ends[delivered[k]] < First(p) /\ delivered[k] < p
    <2>1. DeliveredBefore(Parsed) /\ First(p) = Parsed
      BY <1>4, MachineFacts
    <2>2. ASSUME NEW k \in DOMAIN delivered
          PROVE  /\ delivered[k] \in Packages /\ Ends[delivered[k]] \in Nat
                 /\ Ends[delivered[k]] < First(p)
      BY <2>1, MachineFacts DEF DeliveredBefore
    <2> QED
      BY <2>2, PackageOrder
  <1>5. IdleCallInOrder'
    <2> SUFFICES ASSUME call.idle, NEW i \in DOMAIN delivered', NEW j \in DOMAIN delivered',
                        i < j, j > call.before
                 PROVE  delivered'[i] < delivered'[j]
      BY DEF IdleCallInOrder
    <2>1. i \in DOMAIN delivered
      BY <1>1
    <2>2. CASE j \in DOMAIN delivered
      <3>1. delivered[i] < delivered[j]
        BY <2>1, <2>2 DEF RecvInv, IdleCallInOrder
      <3> QED
        BY <1>1, <2>1, <2>2, <3>1
    <2>3. CASE j = Len(delivered) + 1
      BY <1>1, <1>4, <2>1, <2>3
    <2> QED
      BY <1>2, <2>2, <2>3
  <1>6. ASSUME call.idle PROVE IdleState'
    <2>1. Parsed' = Ends[p] + 1
      BY <1>6
    <2>2. ASSUME NEW k \in DOMAIN delivered' PROVE Ends[delivered'[k]] < Parsed'
      <3>1. CASE k \in DOMAIN delivered
        <4>1. Ends[delivered[k]] \in Nat /\ Ends[delivered[k]] < First(p)
          BY <1>4, <1>6, <3>1
        <4> QED
          BY <1>0, <1>1, <2>1, <3>1, <4>1
      <3>2. CASE k = Len(delivered) + 1
        BY <1>0, <1>1, <2>1, <3>2
      <3> QED
        BY <1>2, <3>1, <3>2
    <2> QED
      BY <1>6, <2>2 DEF IdleState, DeliveredBefore
  <1>7. ASSUME call.clean PROVE CleanState'
    <2>1. /\ CleanState /\ call.idle /\ First(p) = Parsed /\ Parsed' = Ends[p] + 1
          /\ call.arrived \subseteq Packages /\ call' = call
      BY <1>7, MachineFacts, Types
    <2>2. Parsed' \in Starts \cup {next'}
      <3>1. CASE Ends[p] < Total
        BY <2>1, <3>1, PackageFacts
      <3>2. CASE Ends[p] = Total
        BY <1>0, <2>1, <3>2
      <3> QED
        BY <1>0, <3>1, <3>2
    <2>3. Fresh' = Fresh \cup {p}
      <3>1. call.before \in Nat /\ call.before <= Len(delivered)
        BY Types
      <3>2. ASSUME NEW x \in Fresh' PROVE x \in Fresh \cup {p}
        <4>1. PICK i \in (call.before + 1)..(Len(delivered) + 1) : x = delivered'[i]
          BY <1>1, <2>1 DEF Fresh
        <4>2. CASE i = Len(delivered) + 1
          BY <1>1, <4>1, <4>2
        <4>3. CASE i # Len(delivered) + 1
          <5>1. i \in (call.before + 1)..Len(delivered) /\ i \in 1..Len(delivered)
            BY <1>1, <3>1, <4>3
          <5> QED
            BY <1>1, <4>1, <5>1 DEF Fresh
        <4> QED
          BY <4>2, <4>3
      <3>3. p \in Fresh'
        <4>1. Len(delivered) + 1 \in (call.before + 1)..(Len(delivered) + 1)
          BY <1>1, <3>1
        <4> QED
          BY <1>1, <2>1, <4>1 DEF Fresh
      <3>4. ASSUME NEW x \in Fresh PROVE x \in Fresh'
        <4>1. PICK i \in (call.before + 1)..Len(delivered) : x = delivered[i]
          BY DEF Fresh
        <4>2. i \in 1..Len(delivered) /\ i \in (call.before + 1)..(Len(delivered) + 1)
          BY <1>1, <3>1
        <4> QED
          BY <1>1, <2>1, <4>1, <4>2 DEF Fresh
      <3> QED
        BY <3>2, <3>3, <3>4
    <2>4. Fresh = {q \in call.arrived : Ends[q] < Parsed} /\ p \in call.arrived
      BY <1>0, <2>1 DEF CleanState
    <2>5. ASSUME NEW q \in call.arrived
          PROVE  Ends[q] < Parsed' <=> (Ends[q] < Parsed \/ q = p)
      <3>1. q \in Packages /\ Ends[q] \in Nat
        BY <2>1, PackageFacts
      <3>2. CASE q = p
        BY <1>0, <2>1, <3>2
      <3>3. CASE q < p
        <4>1. Ends[q] < First(p)
          BY <3>1, <3>3, PackageFacts
        <4> QED
          BY <1>0, <2>1, <3>1, <4>1
      <3>4. CASE p < q
        <4>1. Ends[p] < First(q) /\ First(q) <= Ends[q] /\ First(q) \in Nat
          <5>1. /\ First(q) \in Nat /\ Ends[q] = First(q) + Size(q) - 1 /\ Size(q) > HeadLen
                /\ Size(q) \in MinSize..MaxSize /\ Ends[p] < First(q)
            BY <3>1, <3>4, PackageFacts
          <5> QED
            BY <5>1, Numbers
        <4> QED
          BY <1>0, <2>1, <3>1, <3>4, <4>1
      <3>5. q \in Nat /\ p \in Nat
        BY <3>1, PackageFacts
      <3> QED
        BY <3>2, <3>3, <3>4, <3>5
    <2>6. Fresh' = {q \in call'.arrived : Ends[q] < Parsed'}
      BY <2>1, <2>3, <2>4, <2>5
    <2>7. \A q \in Packages : First(q) >= Parsed' /\ Ends[q] < next' => q \in call'.arrived
      <3> SUFFICES ASSUME NEW q \in Packages, First(q) >= Parsed', Ends[q] < next
                   PROVE  q \in call.arrived
        BY <2>1
      <3>1. First(q) \in Nat
        BY PackageFacts
      <3>2. First(q) >= Parsed
        BY <1>0, <2>1, <3>1
      <3> QED
        BY <2>1, <3>2 DEF CleanState
    <2>8. \A q \in call'.arrived : Ends[q] < next'
      BY <2>1 DEF CleanState
    <2> QED
      BY <2>2, <2>6, <2>7, <2>8 DEF CleanState
  <1>8. Len(delivered') >= Len(delivered)
    BY <1>1
  <1> QED
    BY <1>3, <1>5, <1>6, <1>7, <1>8, MachineStep

(* alink_recv_state_check_crc: a package that is complete is checked and   *)
(* delivered.                                                              *)
LEMMA CrcStep ==
    ASSUME RecvInv, alink_recv_state_check_crc
    PROVE  RecvInv'
  <1>0. len > 0 /\ st = "crc" /\ UNCHANGED <<port, next, mem, buf, wPkgSize, rd, call>>
    BY DEF alink_recv_state_check_crc
  <1>1. /\ len \in Nat /\ wCount \in Nat /\ HeadLen \in Nat /\ 1 < HeadLen
        /\ MinSize \in Nat /\ MaxSize \in Nat /\ buf \in Nat
        /\ buf <= Stride + MaxSize + MaxRead /\ wPkgSize \in Nat /\ wPkgSize <= MaxSize
        /\ HeadLen <= wCount /\ wCount < wPkgSize
    <2>1. HeadLen \in Nat /\ 1 < HeadLen /\ MinSize \in Nat /\ MaxSize \in Nat
      BY Numbers
    <2>2. /\ len \in Nat /\ wCount \in Nat /\ buf \in Nat
          /\ buf <= Stride + MaxSize + MaxRead /\ wPkgSize \in Nat
      BY <1>0, MachineFacts
    <2>3. wCount \in HeadLen..(wPkgSize - 1) /\ wPkgSize \in {0} \cup MinSize..MaxSize
      BY <1>0 DEF RecvInv, TypeOK
    <2> QED
      BY <2>1, <2>2, <2>3
  <1>2. CASE wPkgSize > wCount + len
    <2>1. imp' = imp + len /\ len' = len - len /\ wCount' = wCount + len
          /\ UNCHANGED <<st, delivered>>
      BY <1>1, <1>2 DEF alink_recv_state_check_crc, Consume
    <2>2. wCount + len < wPkgSize
      BY <1>1, <1>2
    <2> QED
      BY <1>0, <2>1, <2>2, TakeAll
  <1>3. CASE wPkgSize <= wCount + len
    <2> DEFINE ok == alink_check_crc(buf, wPkgSize)
               p  == PackageAt(buf, wPkgSize)
    <2>1. /\ imp' = imp + (wPkgSize - wCount) /\ len' = len - (wPkgSize - wCount)
          /\ wCount' = wPkgSize /\ st' = "magic"
          /\ delivered' = IF ok THEN Append(delivered, p) ELSE delivered
      BY <1>1, <1>3 DEF alink_recv_state_check_crc, Consume, StateAfterPackage
    <2>2. wCount <= wPkgSize
      BY <1>1
    <2>3. /\ imp' \in Nat /\ len' \in Nat /\ imp' + len' = imp + len
          /\ imp' \in Addr /\ len' \in 0..(MaxSize + MaxRead)
          /\ Parsed \in Int /\ next - len' = Parsed + wPkgSize
          /\ call.idle => /\ \A k \in 0..(wPkgSize - 1) : mem[buf + k] = Parsed + k
                          /\ \A k \in 0..(len' - 1) : mem[imp' + k] = (Parsed + wPkgSize) + k
                          /\ imp' = buf + wPkgSize
      BY <1>0, <1>1, <1>3, <2>1, <2>2, TakeSome
    <2>4. ok => p \in Packages /\ Size(p) = wPkgSize /\ Holds(buf, p, wPkgSize)
      BY DEF alink_check_crc, PackageAt
    <2>5. TypeOK'
      <3>1. delivered' \in Seq({0} \cup Packages)
        BY <2>1, <2>4, Types, AppendProperties
      <3>2. wCount' \in 0..MaxSize
        BY <1>1, <2>1
      <3> QED
        BY <1>0, <2>1, <2>3, <3>1, <3>2 DEF RecvInv, TypeOK
    <2>6. Begun' = 0 /\ Parsed' = Parsed + wPkgSize /\ Parsed' \in Int /\ Parsed' >= Parsed
      <3>1. Begun' = 0 /\ Parsed' = next - len' - 0
        BY <1>0, <2>1 DEF Begun, Parsed
      <3> QED
        BY <1>1, <2>3, <3>1
    <2>7. ASSUME call.idle PROVE At(imp - Begun, Parsed, Begun + len)'
      <3>1. /\ Begun' = 0 /\ \A x \in Int : x - 0 = x /\ 0 + x = x
            /\ imp' \in Int /\ len' \in Int
        BY <2>3, <2>6
      <3>2. imp' - Begun' = imp'
        BY <3>1, Zenon
      <3>3. Begun' + len' = len'
        BY <3>1, Zenon
      <3>4. At(imp', Parsed + wPkgSize, len')
        BY <2>3, <2>7 DEF At
      <3>5. Parsed' = Parsed + wPkgSize /\ mem' = mem
        BY <1>0, <2>6
      <3> QED
        BY <3>2, <3>3, <3>4, <3>5 DEF At
    <2>8. ASSUME call.clean PROVE ok
      <3>1. CleanState /\ call.idle /\ next \in Nat
        BY <1>0, <2>8, MachineFacts
      <3>2. Parsed < next
        <4>1. \A x, y \in Int : \A l, w \in Nat : x - l = y + w /\ w > 0 => y < x
          OBVIOUS
        <4>2. next - len' = Parsed + wPkgSize /\ len' \in Nat /\ Parsed \in Int
          BY <2>3
        <4>3. wPkgSize \in Nat /\ wPkgSize > 0 /\ next \in Int
          BY <1>1, <3>1
        <4> QED
          BY <4>1, <4>2, <4>3, Zenon
      <3>3. PICK q \in Packages : First(q) = Parsed
        BY <3>1, <3>2 DEF CleanState, Starts
      <3>4. wPkgSize = Size(q)
        BY <1>0, <3>1, <3>3 DEF CleanState
      <3>5. Holds(buf, q, wPkgSize)
        <4> SUFFICES ASSUME NEW i \in 2..wPkgSize PROVE mem[buf + i - 1] = First(q) + i - 1
          BY DEF Holds
        <4>1. i - 1 \in 0..(wPkgSize - 1)
          BY <1>1
        <4>2. mem[buf + (i - 1)] = Parsed + (i - 1)
          BY <2>3, <3>1, <4>1
        <4> QED
          BY <3>3, <4>2
      <3> QED
        BY <3>4, <3>5 DEF alink_check_crc
    <2>9. buf' <= Stride + MaxSize + MaxRead
      BY <1>0, <1>1
    <2>10. CASE ~ok
      BY <1>0, <2>1, <2>3, <2>5, <2>6, <2>7, <2>8, <2>9, <2>10, QuietStep
    <2>11. CASE ok
      <3>1. /\ p \in Packages /\ Size(p) = wPkgSize /\ Holds(buf, p, wPkgSize)
            /\ delivered' = Append(delivered, p)
        BY <2>1, <2>4, <2>11
      <3>2. First(p) \in Nat /\ Ends[p] = First(p) + wPkgSize - 1
        BY <3>1, PackageFacts
      <3>3. Ends[p] < next
        <4>1. wPkgSize \in 2..wPkgSize
          BY <1>1
        <4>2. mem[buf + wPkgSize - 1] = First(p) + wPkgSize - 1
          BY <3>1, <4>1 DEF Holds
        <4>3. buf + wPkgSize - 1 \in Addr
          BY <1>1, Numbers
        <4>4. mem[buf + wPkgSize - 1] < next
          BY <4>3 DEF RecvInv, MemRead
        <4> QED
          BY <3>2, <4>2, <4>4
      <3>4. ASSUME call.idle PROVE First(p) = Parsed
        <4>1. 2 \in 2..wPkgSize /\ 1 \in 0..(wPkgSize - 1)
          BY <1>1
        <4>2. mem[buf + 2 - 1] = First(p) + 2 - 1
          BY <3>1, <4>1 DEF Holds
        <4>3. mem[buf + 1] = Parsed + 1
          BY <2>3, <3>4, <4>1
        <4>4. buf + 2 - 1 = buf + 1 /\ First(p) + 2 - 1 = First(p) + 1
          BY <1>1, <3>2
        <4> QED
          BY <2>3, <3>2, <4>2, <4>3, <4>4
      <3>5. Parsed' = Ends[p] + 1 \/ ~call.idle
        BY <1>1, <2>3, <2>6, <3>2, <3>4
      <3> HIDE DEF p
      <3> QED
        BY <1>0, <2>1, <2>3, <2>5, <2>7, <2>9, <3>1, <3>3, <3>4, <3>5, DeliverStep
    <2> QED
      BY <2>10, <2>11
  <1> QED
    BY <1>1, <1>2, <1>3

(* Every step keeps the invariant.                                         *)
LEMMA NextRecv ==
    ASSUME RecvInv, [Next]_vars
    PROVE  RecvInv'
  <1>1. CASE alink_recv_task
    BY <1>1, MagicStep, HeadStep, CrcStep DEF alink_recv_task
  <1>2. ASSUME NEW n \in 1..MaxRead, c2_network_cbk_data(n) PROVE RecvInv'
    BY <1>2, C2Read
  <1>3. CASE Reconnect
    BY <1>3, ReconnectRecv
  <1>4. ASSUME NEW n \in 1..FirstLen, ReadHead(n) PROVE RecvInv'
    BY <1>4, HeadRead
  <1>5. ASSUME NEW n \in 1..MaxSize, ReadRest(n) PROVE RecvInv'
    BY <1>5, RestPart, RestWhole
  <1>6. CASE RecvFails
    BY <1>6, FailsRecv
  <1>7. CASE UNCHANGED vars
    <2>1. UNCHANGED <<port, next, mem, imp, len, st, buf, wCount, wPkgSize, rd, delivered, call>>
      BY <1>7 DEF vars, recvVars
    <2>2. UNCHANGED <<Begun, Fresh>>
      BY <2>1 DEF Begun, Fresh
    <2>3. UNCHANGED Parsed
      BY <2>1, <2>2 DEF Parsed
    <2>4. TypeOK' /\ ReadType' /\ CallType' /\ MemRead' /\ DeliveredRead'
      BY <2>1 DEF RecvInv, TypeOK, ReadType, CallType, MemRead, DeliveredRead
    <2>5. IdleReading' /\ CleanReading' /\ IdleCallInOrder' /\ CleanCallDelivers'
      BY <2>1 DEF RecvInv, IdleReading, CleanReading, IdleCallInOrder, CleanCallDelivers,
                  At, DeliveredBefore
    <2>6. IdleParsing' /\ CleanParsing'
      BY <2>1, <2>2, <2>3 DEF RecvInv, IdleParsing, CleanParsing, IdleState, CleanState,
                              At, DeliveredBefore
    <2> QED
      BY <2>4, <2>5, <2>6 DEF RecvInv
  <1> QED
    BY <1>1, <1>2, <1>3, <1>4, <1>5, <1>6, <1>7 DEF Next, radar_network_cbk_data

-----------------------------------------------------------------------------
(* Types; the count of alink_recv_task stays below the length of the       *)
(* header and of the package it waits for.                                 *)
THEOREM RecvTypes == Spec => []TypeOK
  <1>1. RecvInv => TypeOK
    BY DEF RecvInv
  <1> QED
    BY <1>1, InitRecv, NextRecv, PTL DEF Spec

(* However TCP cuts the stream, and whatever was lost before, a call of    *)
(* alink_recv_task that begins in step with the stream delivers exactly    *)
(* the packages it brings.                                                 *)
THEOREM CleanCalls == Spec => []CleanCallDelivers
  <1>1. RecvInv => CleanCallDelivers
    BY DEF RecvInv
  <1> QED
    BY <1>1, InitRecv, NextRecv, PTL DEF Spec

(* The pointer psRecv->pbyBuffer goes to memory that holds older packages; *)
(* a call of alink_recv_task that finds the machine idle delivers none of  *)
(* them again, and nothing out of order.                                   *)
THEOREM IdleCallsOrdered == Spec => []IdleCallInOrder
  <1>1. RecvInv => IdleCallInOrder
    BY DEF RecvInv
  <1> QED
    BY <1>1, InitRecv, NextRecv, PTL DEF Spec
=============================================================================
