------------------------------ MODULE AlinkRecv ------------------------------
(***************************************************************************)
(* How packages are found in a TCP stream: srv/alink/analysis/alink_recv.c *)
(* with srv/alink/check, fed by app/c2_network and app/radars_network.     *)
(*                                                                         *)
(* A stream is packages one after the other, cut anywhere by TCP.  The     *)
(* receive machine (alink_recv_task) does not copy what it is given: it    *)
(* keeps a POINTER to where a package begins in its caller's buffer, also  *)
(* when the rest of the package comes with a later call.                   *)
(*   - c2_network_cbk_data reads into a buffer on its stack, from its      *)
(*     start, every time; what earlier reads left behind the new bytes     *)
(*     is still there.                                                     *)
(*   - radar_network_cbk_data first reads the head, learns the length,     *)
(*     allocates the package and reads the rest before it calls the        *)
(*     machine; then it frees the package.                                 *)
(*                                                                         *)
(* A byte is known by its place in the stream; a header is magic, length   *)
(* (one byte here, two in the code), and checksum.  Checksum and CRC are   *)
(* taken to be exact.                                                      *)
(***************************************************************************)
EXTENDS Integers, Sequences, FiniteSetsExt

CONSTANTS
    Ends,       (* where in the stream each package ends                   *)
    HeadLen,    (* sizeof(alink_msg_head_t)                                *)
    MinSize,    (* ALINK_NO_PAYLOAD_SIZE                                   *)
    MaxSize,    (* bound: largest size a length field can say              *)
    MaxRead,    (* bound: bytes one recv of the C2 port returns            *)
    Lookalike   (* bytes of payload that have the value of the magic       *)

Packages == DOMAIN Ends
First(p) == IF p = 1 THEN 1 ELSE Ends[p - 1] + 1
Size(p)  == Ends[p] - First(p) + 1
Starts   == {First(p) : p \in Packages}
Total    == Ends[Len(Ends)]
Garbage  == 0

ASSUME RecvAssumption ==
    /\ HeadLen \in Nat /\ HeadLen > 1
    /\ MinSize \in Nat /\ MinSize > HeadLen
    /\ MaxSize \in Nat
    /\ Ends \in Seq(Nat) /\ Ends # <<>>
    /\ \A p \in Packages : Size(p) \in MinSize..MaxSize
    /\ \A p, q \in Packages : p < q => Ends[p] < Ends[q]
    /\ MaxRead \in Nat \ {0}
    /\ Lookalike \subseteq (1..Total) \ Starts

(* Memory: the stack buffer of the C2 port begins at 0; a package of the   *)
(* radar port is allocated at one of two places.  Whatever lies beyond is  *)
(* garbage.                                                                *)
Stride == 2 * (MaxSize + MaxRead)
Blocks == {0, Stride}
Addr == 0..(2 * Stride)

VARIABLES
    port,       (* "c2" or "radar": which of them feeds this machine       *)
    next,       (* the next byte of the stream to be read                  *)
    mem,        (* memory                                                  *)
    imp, len,   (* sImport: pbyData and uLength                            *)
    st,         (* psRecv->pu_state                                        *)
    buf,        (* psRecv->pbyBuffer                                       *)
    wCount,     (* psRecv->wCount                                          *)
    wPkgSize,   (* psRecv->wPkgSize                                        *)
    rd,         (* radar_network_cbk_data between two recv                 *)
    delivered,  (* packages given to alink_order_task; 0: not one sent     *)
    call        (* history: the current call of the machine                *)

recvVars == <<st, buf, wCount, wPkgSize>>
vars == <<port, next, mem, imp, len, recvVars, rd, delivered, call>>

NoRead == [base |-> 0, size |-> 0, off |-> 0, start |-> 0]
NoCall == [idle |-> FALSE, clean |-> FALSE, before |-> 0, arrived |-> {}]

Init ==
    /\ port \in {"c2", "radar"}
    /\ next = 1
    /\ mem = [a \in Addr |-> Garbage]
    /\ imp = 0 /\ len = 0
    /\ st = "magic" /\ buf = 0 /\ wCount = 0 /\ wPkgSize = 0
    /\ rd = NoRead
    /\ delivered = <<>>
    /\ call = NoCall

(***************************************************************************)
(* srv/alink/check.                                                        *)
(***************************************************************************)
alink_check_magic(b) == b \in Starts \cup Lookalike

(* The bytes at a + 1 and after it are those of package p, up to its n-th. *)
Holds(a, p, n) == \A q \in 2..n : mem[a + q - 1] = First(p) + q - 1

(* The checksum counts the magic in, the CRC does not.                     *)
alink_check_header_checksum(a) ==
    alink_check_magic(mem[a]) /\ \E p \in Packages : Holds(a, p, HeadLen)

(* A byte that is no length can be read as any.                            *)
alink_get_package_size(b) ==
    IF b - 1 \in Starts THEN {Size(p) : p \in {p \in Packages : First(p) = b - 1}}
    ELSE MinSize..MaxSize

alink_check_crc(a, n) == \E p \in Packages : Size(p) = n /\ Holds(a, p, n)

PackageAt(a, n) ==
    IF \E p \in Packages : Size(p) = n /\ Holds(a, p, n)
    THEN CHOOSE p \in Packages : Size(p) = n /\ Holds(a, p, n)
    ELSE 0

(***************************************************************************)
(* alink_recv_task: one state function after the other until the import    *)
(* is used up.                                                             *)
(***************************************************************************)
Consume(n) == imp' = imp + n /\ len' = len - n

(* Mutated: the pointer stays where it was.                                *)
BufferAt_Kept(i) == buf

BufferAt(i) == imp + i

alink_recv_state_check_magic ==
    /\ len > 0 /\ st = "magic"
    /\ LET found == {i \in 0..(len - 1) : alink_check_magic(mem[imp + i])}
       IN  \/ /\ found = {}
              /\ Consume(len)
              /\ UNCHANGED recvVars
           \/ /\ found # {}
              /\ buf' = BufferAt(Min(found))
              /\ wCount' = 1
              /\ st' = "head"
              /\ Consume(Min(found) + 1)
              /\ UNCHANGED wPkgSize
    /\ UNCHANGED <<port, next, mem, rd, delivered, call>>

alink_recv_state_check_head ==
    /\ len > 0 /\ st = "head"
    /\ \/ /\ HeadLen - wCount > len
          /\ Consume(len) /\ wCount' = wCount + len
          /\ UNCHANGED <<st, wPkgSize>>
       \/ /\ HeadLen - wCount <= len
          /\ Consume(HeadLen - wCount) /\ wCount' = HeadLen
          /\ \/ /\ alink_check_header_checksum(buf)
                /\ wPkgSize' \in alink_get_package_size(mem[buf + 1])
                /\ st' = "crc"
             \/ /\ ~alink_check_header_checksum(buf)
                /\ st' = "magic"
                /\ UNCHANGED wPkgSize
    /\ UNCHANGED <<port, next, mem, buf, rd, delivered, call>>

(* Mutated: after a wrong CRC the machine stays where it is.               *)
StateAfterPackage_Stays(ok) == IF ok THEN "magic" ELSE st

(* Mutated: it takes the next byte for a magic.                            *)
StateAfterPackage_Head(ok) == IF ok THEN "head" ELSE "magic"

StateAfterPackage(ok) == "magic"

alink_recv_state_check_crc ==
    /\ len > 0 /\ st = "crc"
    /\ \/ /\ wPkgSize > wCount + len
          /\ Consume(len) /\ wCount' = wCount + len
          /\ UNCHANGED <<st, delivered>>
       \/ /\ wPkgSize <= wCount + len
          /\ Consume(wPkgSize - wCount) /\ wCount' = wPkgSize
          /\ LET ok == alink_check_crc(buf, wPkgSize)
             IN  /\ delivered' = IF ok THEN Append(delivered, PackageAt(buf, wPkgSize))
                                 ELSE delivered
                 /\ st' = StateAfterPackage(ok)
    /\ UNCHANGED <<port, next, mem, buf, wPkgSize, rd, call>>

alink_recv_task ==
    \/ alink_recv_state_check_magic
    \/ alink_recv_state_check_head
    \/ alink_recv_state_check_crc

(***************************************************************************)
(* The two readers.                                                        *)
(***************************************************************************)
Left == Total - next + 1

(* Bytes i to j of the stream, at address a.                               *)
Written(m, a, i, j) == [b \in Addr |-> IF b \in a..(a + j - i) THEN i + b - a ELSE m[b]]

(* What a buffer holds besides the bytes just read into it: stack or heap  *)
(* that nobody, or somebody, has used meanwhile.                           *)
Leftovers == {mem, [a \in Addr |-> Garbage]}

(* The packages that lie within bytes i to j.                              *)
WholeIn(i, j) == {p \in Packages : i <= First(p) /\ Ends[p] <= j}

(* c2_network_cbk_data and alink_socket_task.                              *)
c2_network_cbk_data(n) ==
    /\ port = "c2" /\ len = 0
    /\ n <= Left
    /\ \E old \in Leftovers : mem' = Written(old, 0, next, next + n - 1)
    /\ imp' = 0 /\ len' = n
    /\ next' = next + n
    /\ call' = [idle    |-> st = "magic",
                clean   |-> st = "magic" /\ next \in Starts,
                before  |-> Len(delivered),
                arrived |-> WholeIn(next, next + n - 1)]
    /\ UNCHANGED <<port, recvVars, rd, delivered>>

(* The connection breaks and is made again: the link, and its machine,     *)
(* stay, and the peer goes on with a later package.                        *)
Reconnect ==
    /\ port = "c2" /\ len = 0
    /\ \E i \in Starts : i > next /\ next' = i
    /\ UNCHANGED <<port, mem, imp, len, recvVars, rd, delivered, call>>

(* radar_network_cbk_data, first recv: into a zeroed array that holds the  *)
(* header except its checksum.  Without a magic, or without memory for the *)
(* package, the bytes are dropped.                                         *)
FirstLen == HeadLen - 1

(* alink_package_integrity_check for a magic in place i of n bytes read: a *)
(* length that has not come yet is zero, and one beyond the array is       *)
(* whatever the stack holds there.                                         *)
alink_package_valid_length(i, n) ==
    IF i < n THEN alink_get_package_size(next + i)
    ELSE IF i < FirstLen THEN {MinSize}
    ELSE MinSize..MaxSize

ReadHead(n) ==
    /\ port = "radar" /\ len = 0 /\ rd = NoRead
    /\ n <= Left
    /\ next' = next + n
    /\ LET found == {i \in 1..n : alink_check_magic(next + i - 1)}
       IN  \/ UNCHANGED <<mem, rd, call>>
           \/ /\ found # {}
              /\ \E b \in Blocks, s \in alink_package_valid_length(Min(found), n),
                    old \in Leftovers :
                   /\ mem' = Written(old, b, next + Min(found) - 1, next + n - 1)
                   /\ rd' = [base |-> b, size |-> s, off |-> n - Min(found) + 1,
                             start |-> next]
              /\ call' = [idle    |-> st = "magic",
                          clean   |-> st = "magic" /\ next \in Starts /\ n > 1,
                          before  |-> Len(delivered),
                          arrived |-> {p \in Packages : First(p) = next}]
    /\ UNCHANGED <<port, imp, len, recvVars, delivered>>

(* Mutated: the rest is read to the start of the package.                  *)
RestAt_Start == rd.base

RestAt == rd.base + rd.off

(* The recv that follow, until the package is complete and is handed over. *)
ReadRest(n) ==
    /\ rd # NoRead
    /\ n <= Left /\ n <= rd.size - rd.off
    /\ mem' = Written(mem, RestAt, next, next + n - 1)
    /\ next' = next + n
    /\ \/ /\ rd.off + n < rd.size
          /\ rd' = [rd EXCEPT !.off = @ + n]
          /\ UNCHANGED <<imp, len>>
       \/ /\ rd.off + n = rd.size
          /\ rd' = NoRead
          /\ imp' = rd.base /\ len' = rd.size
    /\ UNCHANGED <<port, recvVars, delivered, call>>

(* A recv that fails: the package begun is freed, and the server ends with *)
(* its connection.                                                         *)
RecvFails ==
    /\ port = "radar" /\ len = 0 /\ next <= Total
    /\ next' = Total + 1
    /\ rd' = NoRead /\ call' = NoCall
    /\ UNCHANGED <<port, mem, imp, len, recvVars, delivered>>

radar_network_cbk_data ==
    \/ \E n \in 1..FirstLen : ReadHead(n)
    \/ \E n \in 1..MaxSize : ReadRest(n)
    \/ RecvFails

Next ==
    \/ alink_recv_task
    \/ \E n \in 1..MaxRead : c2_network_cbk_data(n)
    \/ Reconnect
    \/ radar_network_cbk_data

Spec == Init /\ [][Next]_vars
-----------------------------------------------------------------------------
(***************************************************************************)
(* Properties.                                                             *)
(***************************************************************************)

(* Types of the variables; the machine never counts past its package.      *)
TypeOK ==
    /\ port \in {"c2", "radar"}
    /\ next \in 1..(Total + 1)
    /\ mem \in [Addr -> 0..Total]
    /\ imp \in Addr /\ len \in 0..(MaxSize + MaxRead)
    /\ st \in {"magic", "head", "crc"}
    /\ buf \in Addr
    /\ wCount \in 0..MaxSize /\ wPkgSize \in {0} \cup MinSize..MaxSize
    /\ st = "head" => wCount \in 1..(HeadLen - 1)
    /\ st = "crc" => wCount \in HeadLen..(wPkgSize - 1)
    /\ delivered \in Seq({0} \cup Packages)

(* A call that begins in step with the stream delivers what it brings: on  *)
(* the C2 port the packages that lie whole in the read, on the radar port  *)
(* the package that was reassembled (if the first recv brought its         *)
(* length).  So the machine recovers from any earlier loss as soon as it   *)
(* is in step again.                                                       *)
CleanCallDelivers ==
    call.clean /\ len = 0 /\ rd = NoRead =>
        {delivered[i] : i \in (call.before + 1)..Len(delivered)} = call.arrived

(* The machine keeps a pointer into memory that is used again, where older *)
(* packages lie.  Nevertheless what a call delivers that finds it idle,    *)
(* wherever in the stream the call begins, is later than everything        *)
(* delivered before: no package twice, none before an earlier one.  (A     *)
(* call that finds it waiting for the rest of a package may deliver an old *)
(* one again.)                                                             *)
IdleCallInOrder ==
    call.idle => \A i, j \in DOMAIN delivered :
        i < j /\ j > call.before => delivered[i] < delivered[j]

(* radar_network_cbk_data loops to receive the whole package: one that     *)
(* begins with a package asks for as many bytes as the package has.        *)
WholePackage ==
    rd # NoRead => \A p \in Packages : First(p) = rd.start => rd.size = Size(p)

(* The loop of alink_recv_task runs in the thread of the link.             *)
FairSpec == Spec /\ WF_vars(alink_recv_task)

(* The machine uses up everything it is given: no state function returns   *)
(* without taking a byte, for ever.                                        *)
ImportUsedUp == len > 0 ~> len = 0
=============================================================================
