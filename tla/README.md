# Verification of the AGX video-tracking controller

The program runs on an AGX board. It watches a PTZ camera, takes targets from
radars and from an operator, points the camera at them, and reports what it
tracks to command-and-control (C2) stations. This directory holds TLA+ models of
its concurrent core, the TLC configurations that check them, and TLAPS proofs.

All paths below are relative to `src/src/` of the repository.

## 1. Inventory

| Component | State it keeps | Operations | Talks to |
|---|---|---|---|
| target pipeline: `app/alg_app/alg_app.cpp`, `srv/algs/alg_interface.c`, `common/sysport/task/sysport_task.c` | the named POSIX queue `/alg_task`, the user slot, the device list and its counter, stop flag, mutex | post a target, receive and insert it, take one and run the algorithm on it, start, stop | network threads post into it; the algorithm thread takes from it |
| radar servers: `srv/eth_link/eth_link_server.c`, `srv/eth_link/socket/tcp_server.c`, `app/radars_network` | list of servers, their ports, serial numbers, threads, idle counters; the detect thread and its stop flag | register, take over, announce a port, accept, time out, delete, close all | the UDP lookup, radars, the alink receive path |
| C2 links: `srv/eth_link/eth_link.c`, `srv/eth_link/socket/tcp_client.c`, `app/c2_network` | list of links, their peers, attempts | add the default link, add a requested one, connect, fail, delete | the UDP protocol, C2 stations, the uploads |
| alink uploads: `srv/alink/upload` | subscribers of each package, one buffer, a sequence number | subscribe, unsubscribe, send | the heartbeat thread, the algorithm thread, C2 links |
| alink receive path: `srv/alink/analysis`, `srv/alink/check`, `srv/alink/alink.c` | receive state machine, order table | parse a byte stream, look up and call a handler | C2 links, radar servers |
| alink commands: `srv/alink/command` | heartbeat data, version, track data | handlers; post targets | target pipeline, uploads |
| lookup protocol and UDP: `srv/eth_link/eth_protocol`, `socket/udp_socket.c`, `device_network_manager.c` | socket, peer address | encode, decode, broadcast | radar servers, C2 links |
| PTZ link: `srv/eth_link/eth_link_ptz.c`, `srv/eth_link/ptz_protocol` | list of report handlers, socket, its mutex and flags, address commands go to | register, receive and dispatch a report, send a command, close | guidance |
| camera stream: `app/ptz/ptz_app.cpp` | frame queue of at most five, stop flags | read, queue, capture, stop | the algorithm thread |
| guidance: `srv/algs/ai_alg` | mode of the PTZ, counters of frames since the last command | choose a target, command the PTZ, upload | PTZ link, uploads |
| tracker and inference: `srv/algs/yolov8_infer` | tracked, lost and removed tracks | update with detections, assignment | guidance |
| start and stop: `main.c`, `common/tools` | exit flag, allocation count | initialise and release all of the above | all |
| storage, timers, logging: `common/storage`, `common/sysport`, `srv/log` | none the rest depends on | wrappers | - |

### What is hard here

* **Threads without locks.** The list of C2 links has no lock at all; the list of
  radar servers is locked by some of its users. Both are changed by the threads
  of the entries themselves.
* **Shared buffers and fields**: one upload buffer, one "current connection"
  field through which a port is passed, PTZ reports overwritten in place.
* **Failure**: sockets, threads and allocations that fail; errors of
  `pthread_create` that two callers do not notice; a process that is killed and
  restarted on a queue whose name outlives it.
* **Bounds**: a message queue that blocks its senders, the shutdown among them;
  lists bounded by counters and counts; timeouts counted in rounds.
* **Order**: user targets before device targets, oldest first, newest kept.

`PROJECT.json` lists these places, with their lines, under `hazards`.

### What makes each component correct

* pipeline: a target is lost only where the code means to lose it, targets of a
  kind are not reordered, an operator's target goes first, the counter agrees
  with the list, every block is accounted for, nobody waits for ever.
* radar servers: one server and one port per radar, the radar is told its own
  port, the list is sound under concurrent deletes, unused servers go away.
* C2 links: at most one listed link per requested peer, no more than the maximum,
  unreachable peers are given up.
* uploads: nothing freed is used, no package is overwritten while it is sent,
  no link is cut off by another one's end.
* receive path: what is parsed is what was sent, whatever the fragmentation.
* commands: a target is posted as the connection it came from sent it (the attitude
  posted with it is the last any radar sent), and no
  connection keeps the others of its kind out for ever.
* PTZ link and camera: a report reaches its handler and no other, nothing is
  freed under the receiving thread, pictures do not pile up, the release ends.
* guidance: commands only in the modes that allow them, at the rate they allow.

## 2. Plan

1. *(done)* `TargetPipeline`, its abstract specification `TargetChannel`, the
   proofs `TargetPipelineProofs`; `RadarServers`; `C2Links`; `AlinkRecv` (the
   receive state machine under fragmentation, with the reassembly of
   `radar_network.c`).
2. *(done)* `AlinkOrder` (order tables, handlers, the shared package);
   `PtzLink` (handlers, UDP thread, senders, camera stream and its picture
   queue); `PtzGuidance` (`ai_alg_run7`, the choice of a target, the reports that
   arrive meanwhile); the detect thread and the shutdown of `RadarServers`.
3. *(done)* Theorems: every safety property of the runs of `TargetPipeline`,
   `RadarServers`, `C2Links`, `AlinkRecv`, `AlinkOrder`, `PtzLink` and
   `PtzGuidance`, and the refinement of `TargetChannel` (section 5).
4. `Lifecycle`: start and stop order of `main.c` over abstractions of the modules
   above.

Given up: the tracker and its assignment (only reached from algorithm variants
that nothing calls, and floating point throughout) and the fixed-record encodings
of the lookup and PTZ protocols (no state; their checks are in `AlinkRecv` and
`PtzLink`).

## 3. Modules

### TargetPipeline

Variables follow the code: `mq` and `waiters` are the POSIX queue and the threads
blocked in `mq_send`; `taskpc`, `cur` the task thread and its message; `head`,
`targets_num`, `user_target`, `release` the fields of `alg_t`; `algpc`,
`target_node` the algorithm thread; `mainpc` the main thread in `alg_init` and
`alg_uninit`; `live` counts heap blocks and `leaked` those no pointer leads to.
`devLog` is a history variable.

Every critical section of `alg_t.mutex` is one action. The queue's name outlives
the process: when the process dies (`Exit`, `Kill`, a fault), its heap goes and
the pointers it left in the queue become "stale" messages; the next start faults
when it receives one. Two faults of the code are kept: errors of
`pthread_create` are not noticed, so that a start may run without its task
thread or without its algorithm; and `alg_uninit` joins thread 0, because the
thread ids were copied before they were set: it faults or goes on at once, never
waits, and destroys a mutex that is still in use. The algorithm's loop tests
`release`, then captures a picture (`AlgCapture`), then takes a target, so that a take
may come after the release and on the destroyed mutex. A sender that comes after the
delete message was handled uses a closed descriptor: its block is freed and the
caller is told 0.

A target's content is abstracted to its kind and the order of posting.

### TargetChannel

What the pipeline promises while it is up: targets are numbered as they are
posted, those pending form one set per kind, and the algorithm is given the oldest
of a set. Only the oldest device target may be lost, and only while more than
`TARGET_NODE_MAX_NUMBER + 1` are pending; a user target may be lost only when a
later one is pending. (The code compares the counter with `>`, so a list meant
for 3 targets holds 4.) Where allocations may fail (`NoMemory`), any target may be
lost, but still none is overtaken. `TargetRefinement` gives the mapping: pending is
what lies in the list or the slot, in the task thread's hands, in the queue and in
the hands of blocked senders. Sets instead of queues keep the specification free of
filtered sequences, which the prover cannot reason about.

### RadarServers

A list entry is a slot; `list` is the sequence of slots met by following
`psNext`. `pc`, `port`, `sn`, `filled`, `count`, `closeReq` describe the entry
and its thread; `udppc`, `reg`, `cur_con` the UDP thread's registration;
`creating` is the entry whose thread already runs but which its creator has not
filled in: if that thread ends first it follows a null `psRoot`
(`cbk_delete_NullRoot`). `Unlinked` keeps what `eth_link_del_tcp_server_list`
really does: `psLast` stays on the head. `cur_con` is commented as the number of
connections and holds a port. The walk of `eth_link_server_uninit` over the list
is one step.

The start of the link may fail after the socket, the UDP thread or the detect
thread (`eth_link_server_init`). `detectpc` and `exit_relase` are the thread that
broadcasts the search for radars: it clears the flag that asks it to stop when it
starts to run (`DetectStart`), and main sets the flag and joins it before it closes
the servers (`StopDetect`, `CloseAll`). A thread that was never created is joined
all the same, which may fault (`JoinFaults`).

### C2Links

Slots again, with the list, the links' threads, the two adders (main for the
default link, the UDP thread for requests), the subscriber lists of the two
packages and the two uploading threads. The search for a peer, the creation, the
two subscriptions and the link into the list are separate steps, because nothing
locks them. A write through the pointer to an entry that has left the list is
lost; one to an entry somebody else was linked behind overwrites it; a freed slot
may be in the list again in another role.

The end of a link reads what its creator stores last: `psUserCbk` (`eth_link.c:315`)
and later `psRoot` (`:263`), and the creator may store both in between. A link that
finds no callback goes on without unsubscribing (`SkipCallback`); if it then finds
no root it crashes (`NullRoot`), otherwise it is freed while its nodes stay in the
subscriber lists. Such a slot is "lost": it is not used again, and an upload that
meets its node follows a handle into freed memory (`UploadFaults`). That the
allocator may give the freed block to a new link is not modelled. `Reachable` are the
peers an attempt to connect may succeed for.

### AlinkRecv

A byte is known by its place in the stream, and `Ends` says where in the stream
each package ends. `st`, `buf`, `wCount`, `wPkgSize` are the fields
of `alink_recv_t`, `imp` and `len` the import still to be parsed, `mem` the
memory `buf` points into. What matters is that the machine keeps a pointer and
copies nothing: `c2_network_cbk_data` reads every time to the start of a buffer
on its stack, where older bytes may still lie behind the new ones, and
`radar_network_cbk_data` allocates each package at a place that may have been
used before. `port` says which of the two feeds the machine. A broken C2
connection is made again with the same machine (`Reconnect`); a broken radar
connection ends its server (`RecvFails`). `delivered` is what reaches
`alink_order_task`, `call` remembers how the current call began.

Abstractions: the length field is one byte instead of two; header checksum and
CRC are exact, i.e. they hold only of bytes of one package that was sent; a
length field read from other bytes may say anything up to `MaxSize`.

### AlinkOrder

What `alink_order_task` does with a package: one thread per connection, one mutex
per order (all radars share one, all C2 links the other), one static radar package.
`pc` and `msg` are a thread and its package, `pack` the static package (the target
and the attitude last written to it, each known by the package that brought it),
`block` what `msg_send_to_alg` allocated and copied, for a radar's target the whole of
`pack`, `mq` the queue of the pipeline, `byDevId` the id uploads carry. Locking,
the handler, the copy, the post and the unlock are separate steps, because a
handler waits in `mq_send` with the mutex held. A package without handler, or one
too short for it, is ignored after the mutex was taken. Answers are left out: the
call that would send them is commented out. The table of commands is fixed, since
all are registered before a connection can be made.

### PtzLink

`list` holds the registered handlers as nodes with the two fields main fills in
after the node is linked; `udppc`, `lmsg`, `pos` are the UDP thread, the report it
handles and where its walk through `list` stands (`msg_id` and `cbk` of a node are
read in two steps, `VisitId` and `VisitCbk`, between which main may fill it);
`bFlagInit`, `bFlagClose`,
`mutex`, `owner` the socket, `uSendIp` the address commands go to; `userpc` a
thread in `udp_socket_send`; `campc`, `q`, `stop_capture`, `stop_stream` the stream
thread, the number of queued pictures and the flags that ask it to stop.
Datagrams have a right or wrong head and checksum and may lack a body. Commands
are broadcast to the port they are received on, so each comes back (`echo`). The
fields of reports and commands, and the pictures, are left out.

### PtzGuidance

`ai_alg_run7` in steps that each read the reported work mode once, because the UDP
thread may store another one between any two of them. `since` is
`img_cnt - prev_cnt`; `track_cnt` counts up to `Period` and starts again, which
keeps its remainder and whether it is zero. The choice of a target
(`radar_2ptz`, `tracer_2ptz`) is an operator on the package; equal threats are
resolved either way, as by `sort`. A package that brings no target sends nothing.
`cmds`, `during` and `quiet` are history variables.

## 4. Runs

| Run | Bounds | What it shows |
|---|---|---|
| `pipeline` | 2 senders, queue of 2, `TARGET_NODE_MAX_NUMBER` 2, 5 targets, 2 starts, failures on | `TypeOK`, `CountMatches`, `ListIsNewest`, `PostOrder`, `UserFirst`, `HeapBalance`, `StaleFirst` |
| `pipeline_live` | queue of 1, list bound 1, 4 targets, 1 start | `SenderReleased`, `ShutdownEnds`; the pipeline implements `TargetChannel` (`ImplementsChannel`) |
| `radar_servers` | 3 slots, 3 radars, max 3, timeout 1, failures on | `TypeOK`, `ListSound`, `PortsDistinct`, `SnDistinct`, `AnnouncedPort` |
| `radar_servers_live` | 3 slots, 3 radars, max 2, timeout 2 | `ListBound`, `IdleServerFreed`, `ShutdownCloses` |
| `radar_servers_cut` | 3 slots, 3 radars, max 3, timeout 1 | violated: `OneServerPerRadar` |
| `c2_links` | 3 slots, the default peer and 2 hosts, none reachable, max 3, 1 attempt, failures on | `TypeOK`, `RequestedDistinct`, `OnlyRequestedCutsOff` |
| `c2_upload` | 2 slots, the default peer and 1 host, all reachable, max 1, 2 attempts, 2 uploading threads | `NoFreedSubscriber`, `BufferOwned`, `LinkBound`, `UnreachableGivenUp` |
| `alink_recv` | packages of 4, 4, 4, 4, 5 bytes, lengths read from other bytes up to 8, a header of 3, reads of up to 7 bytes, one payload byte that looks like a magic | `TypeOK`, `CleanCallDelivers`, `IdleCallInOrder`, `ImportUsedUp` |
| `alink_whole` | the same | violated: `WholePackage` |
| `alink_order` | 2 radars with 2 packages each, a C2 with 1, queue of 2 | `TypeOK`, `PostedOwn`, `OrderReleased` |
| `ptz_link` | 3 handlers, 1 command, 1 user, pictures cut down to 1, failures on | `TypeOK`, `WalkSound`, `DispatchSound`, `ReleaseEnds` |
| `guidance` | packages of all four kinds with up to 2 targets, interval 3, period 3 | `TypeOK`, `IdleAlwaysGuided`, `OneGuidance`, `TrackingRarelyDisturbed` |

**Why the bounds are enough.** Five targets fill a queue of two, a task thread
and a list of three or block a sender; two starts are what it takes to leave a
pointer behind and meet it. Three entries are the fewest at which a delete in
the middle of a list differs from one at its end, and at which the last one cuts off
the one in the middle. A maximum smaller than the number of slots lets the
bound be hit. In `c2_links` three links may be listed, so that a link is cut off
and its peer asked for again; that the peers are unreachable keeps their threads
short and makes them all give up. Two packages and two uploading threads are all the program has.
Five packages, four of one size, let a package
lie where an equally long one was and still leave one to recover with; a read of
7 bytes, and a length of 8 read from other bytes, hold a package and the beginning
of the next.
Timeouts of 1 and 2 rounds (the code: 5) keep the case "counted, not over yet".
In `c2_upload` a maximum of 1 still lets two links exist, through the race of main
and the UDP thread; two attempts let one fail and the next succeed. Two packages
of a radar and a queue of two are what a reordering takes, the second radar what a
mixed-up package takes. Three handlers have a first, a middle and a last node; the
algorithm thread is the only user of the link in this build. A period of 3 (the
code: 30) is longer than the two frames one change of mode can touch.

**Deadlock** is checked for `guidance` only: a process that ended and was not restarted, a
closed server and a crashed model stop for good.

**Fairness.** `TargetPipeline`: the task thread and the shutdown are scheduled;
nothing is assumed of the camera, the senders, kills or restarts. `RadarServers`:
each server thread runs (its select returns after a second at most, with or
without data), and a thread that waits for the mutex gets it if it is free again and again: the UDP
thread blocks in a receive between two registrations. `C2Links`: adding threads
and ending links run and get the upload mutex under the same assumption; an
attempt to connect ends, as the code sets a send timeout. `AlinkRecv`: the loop of
`alink_recv_task` runs on; nothing is assumed of the peer. In `RadarServers` the
shutdown also rests on the UDP thread, which looks at `bFlagClose` on every round
and so leaves its loop if it may again and again (`SF` on `UdpExit`), and on the
detect thread being scheduled. `AlinkOrder`: the connections' threads run, and the
task thread of the pipeline takes what is queued (as `pipeline_live` shows it does). `PtzLink`: the UDP and the stream
thread run and main goes on once it has begun the release; the signal need not
come, and neither the algorithm nor the camera need do anything. Peers do as they
like.

### What the runs found

`radar_servers_cut`: `eth_link_server.c:308` says of the search that decides whether a
radar is given a server "find sn has been registered". Let servers A, B, C be listed.
C's radar falls silent, and deleting C also unlinks B, because `psLast` never moves
from A (lines 192-197). B goes on, waiting or connected, and the search no longer finds
it: when its radar answers the next broadcast it is given a second server on another
port. B is also not counted and not closed at shutdown. Its port counts as free, and a
server that is given it fails at `bind` and stays listed, dead; so no more than the
maximum ever listen.

`alink_whole`: `radar_network.c:43` says "fix receving whole package". If the first
`recv` brings only one or two bytes, the length is read from the zeroes of the
array, the loop reads 11 bytes and hands over a part of the package.

Met on the way, with no run of their own: removing the first subscriber of an
upload package empties the list (`alink_package.c:55`); `OnlyRequestedCutsOff`
shows this happens only behind a requested link that became the first
subscriber. The default link can be doubled when a request for its address
arrives while main adds it. A requested link that another one's delete has cut off from
the list goes on, and its peer may be given a second link: `RequestedDistinct` and
`LinkBound` are about listed links. A link freed without having unsubscribed leaves its
nodes to the uploads (`NoFreedSubscriber` allows it there and nowhere else). A radar's
target is posted with the attitude of whichever radar sent one last
(`alink_track.c:83`, `:103`); the algorithm only logs it (`alg_app.cpp:228`). A package cut by TCP may be lost, or an earlier one delivered
a second time, because the kept pointer leads into reused memory: on the C2 port into
the stack buffer; on the radar port, when a wrong length has let the machine begin a
package that the call does not bring to its end, into a block freed since. What
holds nevertheless: a call that finds the machine idle delivers nothing old and
nothing out of order (`IdleCallInOrder`), and one that also begins with a package
delivers everything whole in it (`CleanCallDelivers`).

The stream thread and the detect thread clear the flags that ask them to stop when
they start to run: a signal that comes earlier is forgotten and main joins a thread
that does not end. `ReleaseEnds` and `ShutdownCloses` begin after that moment. The
handlers of PTZ reports copy from a body that a short report does not have
(`CallFaults`), and while handlers are being registered a report with a wrong head,
which counts as command 0, can match a node whose `msg_id` is not set yet and be handed
to its handler, which main may have stored by the time `cbk` is read
(`DispatchSound` allows it in such a walk and nowhere else).

In the guidance, `prev_mode = 2 && ...` (`ai_main.cpp:1683`) assigns, and
`firstGuide` is never cleared, so the interval of 6 frames never applies; the
comment at the guidance says there is none, which `IdleAlwaysGuided` confirms. A
search that `SearchAndTracking` starts is stopped on the next frame that finds
the PTZ in search mode. `radarGuide` sends the angle 0 for every azimuth that
is not negative (`ai_main.cpp:622`). `tracer_2ptz` is documented to return
the most dangerous target ("给出威胁最大的目标", `guide.cpp:208`); its sort is
commented out (`guide.cpp:247`) and it returns the first.

## 5. Proofs

Every theorem holds for all values of the constants that satisfy the named
assumptions of its module, and so for any number of threads, radars, links and
messages. Each has the same layout: an inductive invariant as a conjunction of named
parts, a lemma that `Init` implies it, one lemma per action or group of actions that
they preserve it, and a theorem that combines them. TLC checked each invariant before
it was proved.

| Module | Theorem | States |
|---|---|---|
| `TargetPipelineProofs` | `TypeCorrect`, `CounterIsLength`, `NewestKept`, `NoStaleAfterTarget`, `HeapBalanced` | `TypeOK`, `CountMatches`, `ListIsNewest`, `StaleFirst`, `HeapBalance` |
| `TargetOrderProofs` | `UserComesFirst`, `TargetsInPostOrder`, `PipelineRefinesChannel` | `UserFirst`, `PostOrder`, `ImplementsChannel` |
| `RadarServersProofs` | `ServersTypes`, `ServersListSound`, `ServersListBound`, `ServersPortsDistinct`, `ServersSnDistinct`, `ServersAnnouncedPort` | `TypeOK`, `ListSound`, `ListBound`, `PortsDistinct`, `SnDistinct`, `AnnouncedPort` |
| `C2LinksProofs` | `LinksTypes`, `UploadsReachNoFreed`, `UploadBufferOwned`, `LinksDistinct`, `LinksBounded`, `LinksCutOff` | `TypeOK`, `NoFreedSubscriber`, `BufferOwned`, `RequestedDistinct`, `LinkBound`, `OnlyRequestedCutsOff` |
| `AlinkRecvProofs` | `RecvTypes`, `CleanCalls`, `IdleCallsOrdered` | `TypeOK`, `CleanCallDelivers`, `IdleCallInOrder` |
| `AlinkOrderProofs` | `OrderTypes`, `TargetsPostedOwn` | `TypeOK`, `PostedOwn` |
| `PtzLinkProofs` | `LinkTypes`, `LinkWalkSound`, `LinkDispatchSound` | `TypeOK`, `WalkSound`, `DispatchSound` |
| `PtzGuidanceProofs` | `GuidanceTypes`, `IdleGuided`, `GuidedOnce`, `TrackingUndisturbed` | `TypeOK`, `IdleAlwaysGuided`, `OneGuidance`, `TrackingRarelyDisturbed` |

### The target pipeline

From `PipelineAssumption` (the main thread is not a sender; capacity and list bound
are positive) and `NullAssumption` (a null pointer is no message).

* `CoreInv`: types, the counter equals the length of the list, and `HandlesTarget`
  (in state "handle" the task thread holds a target). The last is needed because the
  insertion puts `cur` into the list. The bound of the list follows only together
  with the counter, since the code tests the counter.
* `ListIsNewest` is inductive relative to `CoreInv`: appending and dropping at the
  front both keep a suffix (`SuffixAppend`). A counter that differed from the length
  could drop from a list that is not full, which is why `CoreInv` comes first.
* `StaleInv`: `StaleFirst` itself says nothing of where stale pointers are. They form
  a prefix of the queue and no blocked sender holds one; so when the first message
  that is not stale has been received, none is left behind it.
* `HeapInv`: the balance counts what pointers lead to, so each step must know that
  what it overwrites was empty: the task thread receives only when it holds nothing
  (`HasCur`), the algorithm takes only when it works on nothing (`Untaken`),
  `alg_init` empties what is already empty (`NotYet`), and what is thrown away with
  the queue at the end was posted by this process (`ClosedFresh`).
* `OrderInv` is one chain: received before being received before queued before held
  by a blocked sender, none numbered above the last post. `PostOrder` alone says
  nothing of a sender that finds room while others are blocked. It cannot: senders
  are blocked only at a full queue (`WaitWhenFull`), because a receive hands the
  first blocked message on.
* The refinement. Initial states map to initial states, and one lemma per action
  shows that its steps map to a step of `TargetChannel` or change nothing of it.
  Posts, takes and losses map to `Post`, `Deliver`, `Finish`, `DropOldest`,
  `Supersede` and `Lose`; a receive, a release and all of the restart are stutters.
  `OrderInv` shows that what the list drops and what the algorithm takes is the oldest
  pending of its kind, `CountMatches` that more than `Keep` are pending at a drop, and
  `UpInv` that nothing is thrown away with the queue while the algorithm is up.

### The radar servers

From `ServersAssumption`, of which two parts matter: the number of ports tried
exceeds the maximum of connections (in the code 100 against
a maximum of 10), and the serial number of the server made for anyone is no radar's.

`ServersInv` is the conjunction of the properties and of what they need inside a
registration: the entry being created is allocated, unfilled and so not in the list
(`Creating`); what the search found out (no entry with this serial number, no entry
with this port, room in the list) is still true when the entry is linked (`Filling`),
because the mutex is held in between; the server made for anyone is alone until it is
taken over (`InitAlone`), without which the port in `cur_con` would be another's. That
a free port is found is a pigeonhole argument (`OneUnused`) on the least unused number.

### The C2 links and the uploads

From `LinksAssumption` (the default peer is a peer; a maximum, retries and a sequence
counter that are positive).

The list has no lock, and `CreateFails` and `LinkEntry` overwrite whatever was linked
meanwhile behind the entry the thread found. `LinksInv` says what holds all the same:
an entry is linked at most once, by the thread that made it, and deleted only
afterwards (`Entries`, `Adding`); only the UDP thread adds requested links, so its
search stays true of them (`Reserved`) although the default link and deletions
change the list under it. `LinksDistinct` therefore says that no two requested links
in the list lead to one peer; of links cut off from it nothing is claimed. For the
uploads, a subscriber's network is freed only after both subscriptions are gone
(`NodesAllocated`), a link without network has no node, and only the holder of the mutex has
subscribers left to send to (`Uploading`); a link that is freed with its network still
there is "lost", the exception `NoFreedSubscriber` makes.

### The receive path

From `RecvAssumption` (a header shorter than the smallest package, and packages that
follow one another with sizes a length field can say), for any number of packages and
any way of cutting the stream.

The pointer `psRecv->pbyBuffer` survives the memory it leads to, so in general all that
is known of what it points to is that it was read before (`MemRead`). `RecvInv` adds
what a call knows that found the machine idle: the bytes of the package begun and of
the import are, one after the other, the bytes of the stream before `next` (`IdleReading`
while the radar port reads, `IdleParsing` while the machine parses), and all that
was delivered ended before the place the parse has come to (`Parsed`). A delivered
package therefore begins at `Parsed` and is newer than the rest. For a clean call
`Parsed` is moreover always the beginning of a package or the end of what was read,
and what the call has delivered is what it brought before `Parsed` (`CleanState`); at its
end the package begun is not whole (`CleanEnds`), so nothing is missing. One lemma per
action; the three states of the machine share `MachineStep`, `TakeAll`, `TakeSome` and
`DeliverStep`.

### Orders, PTZ link, guidance

* `OrderInv` of `AlinkOrderProofs`, from `OrderAssumption`, follows a target from the
  static package through the block to the queue: what a thread is about to copy or to
  post is its own (`CopiesOwn`, `HoldsOwn`), and nothing queued is newer than what its
  connection works on (`NotAhead`). The attitude beside it may be any radar's
  (`AttitudesOrdered`): in the package, the block and the queue none is ahead of its own
  radar, and none is newer than one of that radar posted or written later. Both need
  that the threads of an order exclude each other, a conjunct of `TypeOK`.
* `LinkInv`, from `PtzLinkAssumption` (the commands sent are none of those handled), relates
  three threads: what is in the list at each place of main (`NodesFilled`), that the
  list outlives the walk (`Lifetime`), and that a walk which began with every handler
  registered does not pass the one it looks for (`Reaching`). Between the two reads of
  a node main may fill it; the `msg_id` read still holds then, unless the report is
  empty and the walk began during the registration (`Chosen`).
* `GuidanceInv`, from `GuidanceAssumption` (packages of the four kinds, angles of a
  circle, a positive period): for each of the three modes, what a call that saw only
  this mode has sent at each place in `ai_alg_run7` (`SearchShape`, `IdleShape`,
  `TrackShape`); that the mode just read is one of those seen (`ModeSeen`);
  `firstGuide`, which nothing clears; and that tracked frames are counted no faster
  than frames (`CountBehind`), where the remainder at the period matters.

### What is only model-checked

* Liveness, which is out of the prover's reach: `SenderReleased`, `ShutdownEnds`,
  `IdleServerFreed`, `ShutdownCloses`, `UnreachableGivenUp`, `ImportUsedUp`,
  `OrderReleased`, `ReleaseEnds`.
* `OneServerPerRadar` and `WholePackage`, which the code violates.

## 6. Not modelled

* The contents of messages, angles and images; GPU inference; the geometry of
  `tf.cpp`, Kalman filter, tracker and assignment: floating point, and at this
  commit reached only from `ai_alg_run1`, `ai_alg_run2` and a test program.
* The other variants of the algorithm (`ai_alg_run0` to `ai_alg_run3_nj`), and other
  code that nothing calls: `remove_all_targets`, `eth_link_del_type`,
  `tcp_client_close`, `tcp_server_send`, `alink_order_send`, the older algorithm
  threads, the sends of `alink_track.c` that are compiled out.
* The encoding of the lookup protocol and of PTZ commands: fixed records without
  state. What a request or an answer does is in `RadarServers` and `C2Links`.
* Logging, storage and timers, which keep no state the rest depends on.
* Inside the modelled parts: the broadcast thread of `eth_link.c` (it sends and
  changes nothing), the unlock through a freed entry (`eth_link_server.c:242`), the
  walk of `eth_link_server_uninit` against concurrent deletes (one step here), a
  descriptor closed by one thread and reused before another sends to it.
* Met and left out: `malloc_free_cnt` is changed without a lock (`skyfend_tools.c:42`,
  only a log line reads it); queued pictures share their data with the next frame
  if the decoder reuses its buffer (`ptz_app.cpp:132`, inside OpenCV); while a report
  is handled, commands go to its sender's subnet (`eth_link_ptz.c:57`, in the model as
  `uSendIp`; a lost datagram to the PTZ is possible anyway).
* The vendored SDK demo and `spdlog` under `doc/` and the third-party directories.
  They are three quarters of the repository's lines; of the program's own lines,
  about eleven thousand, those of the algorithm variants, the tracker, inference
  and the record layouts have no behaviour of the kind modelled here.
