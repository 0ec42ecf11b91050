# Cpp-IPC-DDS in TLA+

Specifications of the concurrent core of Cpp-IPC-DDS (`libipc`, the shared-memory
transport, and `dzIPC`, topics and services on top of it), checked with TLC and,
where marked, proved with TLAPS. Paths below are relative to the repository root.

## 1. Inventory

| Part | State it keeps | Operations | Interacts with | What is hard |
|---|---|---|---|---|
| Broadcast ring (`prod_cons.h`, `circ/elem_def.h`, `queue.h`) | `cc_` bitmap of receivers, `wt_`, `epoch_`, 256 slots with `rc_` (reader bits and epoch) and data; per receiver `connected_`, `cursor_` | push, force_push, push_sniffer, pop, connect, disconnect | called by ipc.cpp in many processes, lock-free | overwriting while a receiver copies; laps; receivers that come and go |
| Unicast and multi-producer rings (`prod_cons.h`) | read/write/commit indices | push, force_push, pop | as above | multi-producer commit order |
| Chunk pool (`ipc.cpp`, `utility/id_pool.h`) | free list of 32 ids per size; per chunk the bitmap `conns` | acquire_storage, recycle_storage, discard_storage, release_storage, loan, publish_loan, discard_loan | ids travel through the ring; receivers' `buff_t` own them | exactly one of several parties must release; failure after acquisition |
| Fragments and reassembly (`ipc.cpp`) | cache of unfinished messages | send loop, recv | ring | a message that fails half-way; garbage collection |
| waiter (`waiter.h`, `platform/linux`, `a0/mtx.c`) | mutex word, condition word, `waiters`, `quit_` | wait_for, wait_if, notify, broadcast, quit_waiting | every blocking call | lost wakeups, timeouts racing wakeups, death inside the mutex |
| Sniffer (`sniffer.cpp`) | its own read index | attach, read | reads the ring without a bit | reads what may be overwritten |
| Shared memory, semaphores, rw_lock, allocators | reference counts, counters | acquire, release | everything | last release races acquire |
| Control plane (`control_plane.cc`) | generation, slots of peers, heartbeats | begin_rebuild, add_peer, remove_peer, collect_stale_peers | handshakes of topics and services | two processes take one slot; a stalled process taken for dead |
| Shared-memory topics (`shm_pub_sub_ipc.cc`) | handshake state, channel, receive thread | InitChannel, handshakes, publish, receive loop | control plane, ring | restarts in any order |
| Nodelet fast path (`local_pub_sub_registry.cc`, `nodelet_config.cc`) | process-local registry | register, lookup, deliver | topics | a subscriber leaves during delivery; double delivery on both paths |
| Services (`shm_ser_cli_ipc.cc`, `auto_ser_cli_ipc.cc`, `server_ipc.cc`) | pending requests, path | request, respond, switch path | two routes, sockets | answer after timeout; switch in flight |
| Sockets (`socket_*_ipc.cc`, `data_rev.cc`) | fragments, acknowledgements | send, receive, retransmit | UDP | loss, duplication, reordering |
| Info pool (`ipc_info_pool.cc`) | registry of topics and services | register, list | everything | crash of a registered process |
| Event log (`dzipc_log.cc`) | bounded queue, in-memory chunk, open file | record, start, stop, rotate | application threads and one writer | stop while events are queued; rotation with the mutex released |
| Formats (`ipc_msg_base.hpp`, `generic_message.hpp`, `dzflat.h`, the generators) | a buffer of pages with tails; a flat segment in a chunk | serialize, deserialize, loan, bind | chunk pool, UDP pages | boundaries: tails, padding, offsets; stale memory |
| Hashes, names, tools, Python | – | – | – | no protocol |

What makes each part correct, in one line each: the ring hands a receiver the
message at its cursor, whole, or nothing; a chunk is free or used, never both,
and never neither; a thread does not sleep past what it waits for, and the death
of another does not stop it; a peer slot has one owner; a topic's publisher and
subscribers agree on the generation of their channel; a request is answered at
most once; a fragmented message is delivered whole or not at all.

## 2. Modules

| Module | Models | Kind |
|---|---|---|
| `BroadcastRing` | the ring of `ipc::route`, its bitmap of receivers, and which push the send functions choose | component |
| `ReliableBroadcast` | what the ring promises while nothing is overwritten | abstract specification |
| `RouteChunks` | large messages: `BroadcastRing` extended with the chunk pool | composition |
| `ChannelRing`, `UnicastRing` | the ring of `ipc::channel` with many producers; the three unicast rings | components |
| `Sniffer` | the passive reader of a route, the writer it follows and the chunks both use | component |
| `Fragments` | send's loop over fragments and recv's cache of unfinished messages | component |
| `Waiter` | wait_for, condition variable and robust mutex | component |
| `RwLock` | the reader-writer spin lock | component |
| `TopicHandshake` | one shared-memory topic: control plane, rebuild, the handshakes of publisher and subscribers, the segments behind the name | composition |
| `TopicDelivery` | publish, the process-local fast path, discovery, the queues of subscribers | component |
| `ShmService` | a service over shared memory: handshakes, requests, answers, fast path | component |
| `AutoPath` | the choice between socket and shared memory of a service | component |
| `ReliableUdp`, `RateControl`, `UdpNode` | fragments over UDP and their repair; the rate of sending; the sockets | components |
| `CircularQueue` | the queue a subscriber reads from | component |
| `InfoPool` | the table of endpoints of a host | component |
| `EventLog` | the event logger | component |
| `PagedMessage`, `FlatSegment` | the two message formats, their writers and readers | components |
| `LockFree` | `ChannelRing` with `UnicastRing`, `CircularQueue` and `RwLock` as the named instances `U`, `Q` and `W`: what threads share without a mutex | composition |
| `Services` | `ShmService` with `AutoPath` as the named instance `A` | composition |
| `Readers` | `Fragments`, `EventLog` and `Sniffer` as the named instances `G`, `L` and `S`: readers that keep messages for themselves | composition |
| `Host` | `TopicDelivery` with `InfoPool` and `UdpNode` as the named instances `I` and `N`: what dzIPC keeps on a host beside its shared memory | composition |
| `...Proofs` | theorems about the module whose name they bear and its named instances | proofs |
| `MC...` | small instances: `MCBroadcastRing`, `MCRouteChunks`, `MCWaiter`, `MCTopic`, `MCPaged` of one component, `MCLockFree`, `MCHost`, `MCServices`, `MCWire` of several | TLC |

A composite MC module chooses one of its components in the initial state and runs
it; the others keep their initial values. So one run explores the union of the
components' behaviours, not their product: they share no state in the code. `LockFree`
and `Host` declare the variables and constants of several such components and
name their properties, so that the run and the theorem speak of one definition.

### BroadcastRing

`cc`, `wt`, `epoch`, `rc`, `data` are the shared words; a slot's `rc_` is a record
of reader bits and epoch. The producer's program counter `wpc` goes through
`load`, `cas` (push), `full` (inside wait_for), `fload`, `fcas` (force_push),
`sniff` (push_sniffer), `prep`, `write` (the callback and the placement new) and
`advance`. A receiver's `rpc` goes through `joining` (bit set, cursor not yet
read), `loop`, `copy`, `clear` (pop). A message is the write index it was
published at; a slot being written, and a copy made of it, is `Torn`.

Steps are accesses to shared words; the module header says which adjacent
accesses are one step and why nobody can tell. `lag` and `log` are history
variables and no guard reads them. The memory model is sequential consistency:
the code's acquire/release pairs are taken to order what they are meant to order.
The single producer is what `ipc::route` registers (`ready_sending`).

### RouteChunks

Adds the free list (`next`, `head`), `conns` of each chunk, the storage id of each
message (`chunkOf`), the id recv has popped (`pend`) and the buffers each receiver
keeps (`held`, with the `curr_conns` and `conn_id` its recycle_t recorded). The
actions of `BroadcastRing` are conjoined with what the code does to the pool in
the same step: clear_message with the start of the overwrite (`Overwrite`),
acquire_storage with the reading of `cc_` (`SendChunk`), discard_loan with the
failure of a loan (`FailedSend`). A torn copy may show any storage id the slot has
ever held, or none. One route and one chunk size are modelled; the code shares a
pool between all routes with the same prefix and size.

### Waiter

`owner`, `died`, `broken` are the mutex word (thread id, FUTEX_OWNER_DIED,
FTX_NOTRECOVERABLE), `cnd` the condition word, `waiters` the count in shared
memory. A predicate is a number of items available (`avail`): one entry per
receiver on a broadcast queue, one common entry on a unicast queue. A sleeper
goes through wait_for, the lock, the loop of wait_if and a0_cnd_timedwait_impl; a
waker posts an item (or sets `quit_`) and goes through wake and a0_cnd_wake. The
kernel is modelled from its use in mtx.c: FUTEX_WAIT_REQUEUE_PI refuses if the
word has changed, FUTEX_CMP_REQUEUE_PI moves sleepers to the mutex (all, or two:
one woken and one requeued), a dead owner leaves the mutex marked. `Crash` may
strike any thread between any two steps. Not in the model: the priority
inheritance itself, the hand-over of a mutex that becomes not recoverable while
the kernel still queues threads on it, and a condition word that comes round to
the same value after 2^32 wakes during one thread's two instructions.

### TopicHandshake

`state`, `generation`, `peers`, `slot` are the control plane; `name`, `refs`, `cc` the
segments: the name leads to at most one, each counts its users and holds the
receivers' bits. `ppc` walks through begin_rebuild, InitChannel, the loop of
pub_handshake and the destructor; each subscriber's `pc` through sub_handshake,
with the tests of add_peer and remove_peer apart from what follows them, since a
rebuild may come between. A slot's CAS and its filling are two steps; releasing a
slot, and clearing all of them, one. pid and generation of a slot are written and
never read, and are left out, and so is `subscribed_`. A heartbeat is the fact that a living
subscriber has the number of the slot (`Silent`). When a segment is opened its
user is counted in the same step. One publisher at a time; the
control plane is initialized; a subscriber that stopped comes back as another one.

### ChannelRing, UnicastRing

Every access to an index, flag or counter is a step, and writing an element takes
two. `UnicastRing` has the policies `ss`, `sm`, `mm` as a constant of the behaviour
(`policy`); `Pop*`/`Push*` actions carry the code's names of the steps (`PopHelp` is
the consumer that moves `wt_` for a producer that has stored its flag). `ChannelRing`
stops making claims once two producers have won one element (`clash`), which the
code allows with force_push or a receiver that joins between two accesses (see 5).

### Sniffer

A slot holds two halves, header and data, and a chunk two halves of a payload; the
producer writes and the sniffer copies each half in a step of its own, in any order. A
half names the push, or the message, its bytes come from, so that a mixture shows: a
payload is the sequence of these names. `owner` says for which message a chunk was
acquired last. `dropped` counts as the code does; what fails for want of a segment or of
memory is in the history `failed`, since the code counts none of it
(sniffer.cpp:367, 375, 409). `edged` says that a slot was accepted exactly a ring behind;
the properties of the run `lock_free` make no claim after that; `TornIsDropped` states what
the code promises there, and does not hold (section 5).

### Fragments

One receiver of a route or of a channel (`kind`). The ring is the sequence of the fragments
it has not read. A channel's writers mix their fragments; on a full ring a push fails and
the rest of the message is not sent. On a route's full ring the one writer may also drop
the oldest fragment (force_push). The cache is a function of message ids. `Restart` makes
the storage anew at any moment: ids begin at 0 again, and what the cache holds stays.
`cut` are the messages that lost a fragment on the ring or in the cache, `reused` those
whose id was cached when they began.

### RwLock, CircularQueue, InfoPool, EventLog

`RwLock`: one step per access to the word `lc_`. `CircularQueue`: one step per load,
store and compare-and-swap of `enqueue_pos_`, `dequeue_pos_` and the cells'
sequence numbers; a message is a producer and a number. `InfoPool`: one step per
store of the shared table, a robust mutex, processes that die anywhere; a pid is
not used twice. `EventLog`: what happens under `mutex_` is one step; a rotation is
two, with the mutex released between; opening a file may fail.

### TopicDelivery, ShmService, AutoPath

`TopicDelivery`: the two sides of a fan-out (local queues, then transport) are
separate steps, and subscribers join and leave between. `ShmService`: handshake
threads, the response thread and send_request, with the control plane's operations
atomic (its races are `TopicHandshake`'s); a ring keeps the flags of its one sender and
its one receiver when a client goes, until the server collects the receiver's. `AutoPath`:
one turn of a handshake loop, or one decision of a supervisor, is a step; a direction keeps
its newest frame; `speer` counts the clients of the server's leg, and a client that crashed
stays counted, since nothing but remove_peer and a rebuild lowers peer_count.

### ReliableUdp, RateControl, UdpNode

`ReliableUdp`: a datagram is a record in its listener's queue in `net`; loss, refusal and reordering are
bounded by `MaxLoss`, `MaxRefused`, `Reorder`. `Timely` says whether a window of
either side may close while a datagram that would arrive in it is under way.
`RateControl` has the code's integer arithmetic. `UdpNode` has the kernel's table of sockets as an
external part.

### PagedMessage, FlatSegment

A cell stands for a byte (paged) or a field's unit (flat); sizes of tails and
alignments keep their relations. The reader and the writer are the code's, run on
every message of `MaxFields` fields over `Names` and `Texts`.

## 3. Runs

| Run | Result | Shows |
|---|---|---|
| `ring` | pass | two receivers that join and leave at any step, push, force_push and push_sniffer past the end of the ring: no wrong or mixed message for a receiver less than a ring behind; nobody evicted |
| `ring_reliable` | pass | try_send only, fixed receivers: implements `ReliableBroadcast`, including eventual delivery |
| `chunks` | pass | no chunk is used and free, released twice, or leaked (except by a send that returns false), under the two conditions below |
| `waiter` | pass | no lost wakeup, exact count of waiters, sleepers wake, timed waits and wakes return, with a death anywhere |
| `waiter_notify` | pass | notify() reaches a thread that will look |
| `topic` | pass | publishers that die anywhere or stop, one after the other, and a second subscriber that stops or dies: a subscriber that stays ends up connected to the publisher's segment, is never content with another, and keeps its bit, under the two conditions below |
| `services` | pass | `ShmService` with two clients and two servers, one after the other: at most one run and one answer per request, the fast path answers the call that asked, a client that stays is served where no earlier one left a flag or a slot; `AutoPath`: one data plane at a time, no half-dead leg, a handshake is completed again, agreement on one path unless the leg counts a crashed client |
| `lock_free` | pass | `ChannelRing`, `UnicastRing`, `CircularQueue`: elements come whole, once, in order; `RwLock` excludes; `Fragments`: whole messages unless one was overwritten, collected or met one cached from before a restart; `EventLog` loses nothing; `Sniffer` gets messages, in order, or counts what it missed |
| `wire` | pass | `ReliableUdp` under loss with windows that close early (safety), `PagedMessage`, `FlatSegment`: messages whole or not at all, acknowledged once; both formats read back |
| `host` | pass | `TopicDelivery`: one delivery on two ways; `InfoPool`: the table under deaths; `UdpNode`: sockets; `ReliableUdp` with windows long enough (repair); `RateControl`; `CircularQueue` (liveness) |
| `paged_name` | violation | a generated deserialize lands in a page's tail when a field's name ends in front of it (finding) |
| `queue_of_one` | violation | a queue of one cell: the number that says "published" is the number that says "free", so the second push overwrites and the ends leave the capacity (finding) |

Stated in the modules beside these, and for the reader to put in a configuration
of his own: `PushedArrives`, `SubscribedFollows`, `AskedIsSent`, `ReliableUdp`'s `CallsReturn`,
`LossSlows`, `RateWithinLimit`, `NoWrap`, `ReceiveReturns`, `StopReturns`, `QueuedIsTaken`,
`CatchesUp`, `SameShape`, and a `TypeOK` of each component. `SuccessorServed`,
`SocketCallsRead` and `TornIsDropped` state what comments of the code promise and do not
hold (section 5).

**Bounds.** Two slots and two receivers are the smallest ring in which a receiver
can be less than, exactly and more than a ring behind while another differs; three
messages (four or five in the runs without churn) overwrite a slot, two epochs let
a forced message meet one forced before. The same holds of the unicast and channel
rings and of the reader's queue (two elements, two producers, three or four pushes).
Two chunks make the pool run empty and both kinds of message meet in a slot. Two
sleepers, one with a timeout and one without, let a timeout race a wake; notify
needs two wakers, so that a wake overtakes another, and three sleepers because it
moves two. Two publishers in a row and two subscribers are what a stale subscriber,
a fresh one and a rebuild between them need; one slot makes them meet in it, and
one of them goes without. Six segments are never exhausted (seven give the same
states). As many bits as subscribers: the branch of sub_handshake for exhausted
bits does not happen in `topic`. `services`: two calls let a late answer meet the next
call, two servers a restart, two faults a death met by a second one (three faults,
346 000 states, show the same), and a second client is one that follows; a third finds the
same flags. There the server changes its message only where both are in one process
(`ResetWithinBound`): the rings are used there too. `lock_free`: three
threads give two readers and a writer; three messages of one or three fragments on a ring
of two slots, a cache of one message and one restart let a message be overwritten, given up,
collected, and meet its id in the cache; three pushes lap a sniffer on a ring of two slots,
and one chunk is used twice. `host`: three pids are a restart of a process; two
messages let a subscriber join between them; two lost datagrams are a page and its repair.
`wire`: two messages let frames of the first meet the second. Pages of seven cells with tails of four put every field before,
at and across a tail. `MaxWt`, `MaxEpoch`, `MaxHold`, `MaxPost`, `MaxCrash`, `MaxGen`,
`MaxSeg`, `MaxPush`, `MaxForce`, `MaxMoves`, `MaxEvents`, `MaxStarts`, `MaxPids`,
`MaxFaults`, `MaxLoss`, `NMsgs`, `NCalls` and the like appear in guards only, and the theorems, where
there are any, hold for all their values.

**Conditions of the run `chunks`.** `NeverLapped` leaves out what follows once a
receiver has read from a full ring behind: then a torn copy shows
storage ids that were released. `QuietMembership` lets receivers join between two
sends and leave with nothing unread: otherwise a chunk can be released twice. Both are
where the promise of the code ends, and are conditions on an application that
wants the properties.

**Conditions of the run `topic`.** `QuickRestart = FALSE`: after a publisher has
stopped, the next one starts when every subscriber has noticed and let go (a
publisher that died may be followed at once). `StaleCrash = FALSE`: a subscriber
does not die with a slot it took between a rebuild and its own re-attach. `topic`
assumes that a living subscriber's heartbeat is not 2 s late; drains may always time out.
Section 5 says what happens when each is lifted.

**Other conditions.** `OrphanMet = FALSE` in `AutoPath`: a client does not meet the
control plane a crashed server left Ready. `MeetsReaped` and `MeetsNoSender` in
`ServiceClientServed`: when a client connects to rings, no earlier client's slot, receiver's flag or
sender's flag is there. `~Ghost` in `PathsAgree`: in the end the leg counts no client that
crashed. `Timed = TRUE` in `CircularQueue`: pop has a
deadline.

**Views and symmetry.** `NoLogView` drops the history of deliveries, which no guard
and no property of the runs concerned reads. Symmetry is used in safety runs only.

**Fairness.** In `ring_reliable` the producer's own steps inside a send go on (weak
fairness) and its wait_for, with a finite timeout, ends (strong fairness of
`WaitTimeout`, since retries of the predicate come between), and each receiver
keeps calling recv (weak fairness of pop). In `topic` the steps of a living
publisher and of each living subscriber go on (weak fairness: two ordinary
threads); nobody has to start, stop or die. In `waiter` live threads go on, the mutex serves its queue (strong fairness
of taking it: the kernel queues by priority and arrival), a timeout ends. Nothing
forces a thread to call wait_for or to post. In the composite runs the fairness of a
component is the hypothesis of its liveness property (`Fairness => P`): weak fairness
of each thread's steps inside a call. Strong fairness is assumed of three things:
the steps of the client in `AutoPath`, whose supervisor competes for `route_mtx_` with
calls that end; in `RateControl`, that messages long enough to be measured keep
being sent; in `InfoPool`, a
process that calls again and again gets the mutex.

## 4. Proofs

Every theorem holds for all values of the constants that satisfy the named
assumption of its module; bounds such as `MaxPush` are constants like any other.

`BroadcastRingProofs`, from `RingAssumption` (sizes are positive, resident and
visiting receivers are disjoint) and, for the chunks, `ChunkAssumption`:

* `TypeCorrect`: types, and no cursor passes the write index.
* `WithinLapIntact`: `IntactWithinLap`. It is not inductive: whether a copy is
  intact depends on what the producer does between the receiver's three steps.
  The inductive invariant `IInv` adds that the producer's snapshot excludes a
  receiver only if it has nothing to read (`SnapshotOK`), what a claimed slot
  looks like (`CasOK`), that epochs of slots do not exceed `epoch_` (`EpochOK`),
  that the last `RingSlots` messages lie where they should (`DataOK`), and that a
  receiver inside pop still has either its bit in the slot with the epoch it saw,
  hence its message, or will fail the epoch test (`ReadOK`).
* `ReceiversStayConnected`: `ConnectedStay`, from the same invariant.
* `TrySendIsReliable`: with `try_send` alone and receivers that stay (the setting of the
  run that checks `ImplementsReliableBroadcast`), `Spec => Reliable!Safety`. Advancing the
  write index is `Publish`, a pop that delivers is `Deliver`, every other step stutters. `IInv`
  does not say enough, since `Deliver` wants the next message and no other: `RInv` adds
  that no epoch begins (`TryOK`), that a receiver is at most a ring behind and that its
  bit is in the slots of the messages it was not given and in no others (`TurnOK`, which is what
  the producer's test of `rc_` relies on), and that the oldest slot too keeps its message
  until it is claimed (`OldestOK`).
* `NothingFreedTwice`, `UsedStaysUsed`, `NothingLeaks`: `FreeListSound`, `UsedNotFree` and
  `AllAccountedFor`, for any number of chunks, slots, receivers and messages, under
  `QuietSpec`: the steps of `RouteChunks` and the two conditions of the run `chunks`
  (section 3), which are hypotheses here as they are constraints there. The three come
  from one invariant, in three layers.
  The ring (`QuietInv`, on top of `IInv`): what a message is still owed (`Owed`) are the bits in its slot or,
  between the compare-exchange and clear_message, those in `rem_cc`. A bit that is owed is
  that of a connected receiver that will come to the message or reads it, and
  who will come to it finds its bit (`OwedOK`, `AwaitsOK`); the oldest message, too, lies in its slot until
  it is overwritten, and slots never written are empty (`SlotsOK`); a receiver's message is in
  the ring exactly as long as the slot keeps its epoch (`StandsOK`); the bitmap is as
  the producer read it (`SendOK`). The last two are what the conditions are for.
  The chunks (`UseInv`): a receiver has to give a message back (`Has`) if it is owed it,
  has popped it or holds its buff_t, never two of these (`HoldOK`), and the `conns` of a chunk
  are exactly the receivers that have to give its message back (`UsersOK`; before the claim, the
  bitmap that was read: `SendingOK`). So whoever empties `conns`, by sub_rc or by
  clear_message, is the last, and one of them does.
  The pool: the free list is a path (`Path`) whose links lead through the set F of free
  chunks to its end (`PoolOK`), and every chunk is in F, lost, or that of exactly one message
  (`AccountOK`). acquire takes the path's first chunk, release puts one before it.
  `PoolWalk` connects the path with `Walk`: the walk is a function over `0 .. NChunks`, and
  that it is the path's prefix of each length follows by taking the smallest length at which it is not (`UpTo`).

`WaiterProofs`, from `WaiterAssumption` (finitely many sleepers and wakers, kinds disjoint):

* `ExactCount`: the types and `WaitersExact`; the two are inductive together (the
  decrement stays in Nat because the thread that decrements is counted).
* `WakeupNotLost`: on a broadcast queue, `NoLostWakeup`. The inductive invariant
  adds that a thread between the lock and the sleep owns the mutex unless it is
  broken (`LockOK`), that words seen are not from the future (`SeenOK`), and
  `CoverOK`: a thread about to release the mutex with its predicate already false
  has a waker that has not yet taken the mutex. That waker then finds the thread
  counted, changes the word, and either the sleep is refused or the requeue finds
  it asleep.
* `NotifyIsEnough`: with `NotifyOnly` (wakes are notify(), nobody dies, at most one thread
  has a timeout), `NotifyReachesSomebody`. One wake may serve several items and
  several sleepers one wake, so the invariant counts: for every thread that waits, the
  items left are no more than the threads that will look plus the wakers on their way to
  it (`CountOK`), unless one of these wakes everybody (`QuitOK`). A thread with a timeout is not
  counted, since it may give up with the item in front of it, and a requeue moves two
  threads: so of these two at most one may have a timeout. With two that have
  one, TLC finds the item left behind.

`LockFreeProofs`, from `ThreadsAssumption` (finitely many threads) and `RwLock`'s next-state
relation: `LockWordIsTrue`, `W!WordIsTrue`, inductive with the types, and from it
`LockExclusion`, `Exclusion`. From `ChannelAssumption` (at least one element):
`TypeCorrect`, and `WholeAndOnce`, that is `ReadsWhole`. The property makes its claims
only until two producers have won one element; the inductive invariant
`Types /\ (Quiet => ~clash /\ RingOK /\ MessageOK)` says, where no message was forced and
no receiver moved, that this does not happen, and why: `ct_` and the epoch of the
first force are as the winner left them (`FirstEpoch`); a producer that has read an
index and a slot and may still win (`MayWin`) has read what is there now (`LookOK`);
an element is written by one producer, for every receiver (`WriteOK`); an element that a
receiver reads, or has yet to read, waits for that receiver and is not written
(`ReadOK`, `UnreadOK`). `MessageOK` then carries the contents: an element whose flag
says it holds a message holds a whole one (`WholeOK`), a message is in one place -
its producer's hands, an element, with receivers that are past the element
(`PlaceOK`) - and so is received once (`GotOK`).

The same module, for any threads and any size:

* `UnicastRings`: `UnicastInOrderOnce`, for the three policies. Who may touch what differs by
  policy (`SingleOK`: a producer of `ss` and `sm` writes at `wt_` and one element stays
  free; `ClaimOK`: a producer of `mm` owns what it claimed until its flag is stored), and the
  rest is common: a flag names a written element that `wt_` has not passed (`FlagOK`); whoever
  took the flag at `wt_`, a producer or a consumer that helps, is alone in moving it
  (`MoverOK`); and a consumer whose index is still `rd_` has copied that element, whole
  (`PopOK`). The property and the invariant make no claim for an `ss` ring once a send
  timed out there, since force_push then lets a second consumer in (`Alone`).
* `ReaderQueue`: with two cells or more (`Roomy`), `QueueTakenIsPushed`. Each position between the
  ends has its element in its cell or somebody who is storing it (`LiveOK`), each position
  that may be won next a free cell or somebody who is taking the element of the lap before
  (`FreeOK`); one user stores or takes at a position (`StoreOK`, `TakeOK`). A user that wins an end by
  compare-and-swap saw a sequence number that still holds (`SeenOK`), so the cell of the end is
  free, or published, and the ends keep their distance. With one cell the two numbers are
  the same, and the theorem fails: run `queue_of_one`. The modular arithmetic of both
  is three lemmas stated once (`DivMod`, `ModApart`, `ModLap`).

`ShmServiceProofs`, from `ServiceAssumption`: `TypeCorrect`,
`RunsAndAnswersOnce` (`AtMostOnce`) and `FastPathAnswersItsOwn` (`FastPathCorrelated`).
`AtMostOnce` looks at counts that two sides and two ways of transport contribute to, and
is made inductive by where a call's request and answer can be: a request that was
sent is in one place only - one generation's ring, the queue of the process, the
response thread's hands - and has not been run (`RequestOK`, `RanOK`); a response is in one
place, its request was run, and it has been returned to nobody (`ResponseOK`); a call's
reply queue holds its own response, which no other call gets (`ReplyOK`); what has been
returned was asked no later than by the call that returned it, and once (`AnswerOK`).

The same module, `OnePathAtATime`: `AutoOnePath`. A supervisor
that gives a leg up, a client that finds its peer gone and a crash change several things at
once; `SupOK` says that a side that lives has a supervisor, and that a supervisor which
is still attempting has not switched.

`HostProofs`, from `HostAssumption`:

* `TypeCorrect`, `DeliveredOnce` (`GotOnce`) and `AllCountedReached` (`CountedAreReached`). Both ways to
  a subscriber, the process-local and the transport, could give it one message: `Once`
  says that what a subscriber has, what lies in its queues and what the publisher is
  about to hand to it never name a message twice, and `Reach` follows each
  counted subscriber from the publisher's count to its queue.
* `TableIsTrue`: `PoolTellsTheTruth`. Every store to the shared table is a step and a process may
  die behind each of them. Between two holders of the mutex the table need not be
  as one expects, so the invariant is about the dead too: one process is in the mutex unless its
  owner died there (`LockOK`); the table is formatted by its creator alone, and nobody else gets
  in before (`InitOK`); a half-written slot is not yet marked used (`WorkOK`); an
  entry of a living process stays (`KeptOK`), because the reaper asks for the pid, which is
  used once (`PidOK`); and a snapshot has copied entries that were true when it held the mutex
  (`SeenOK`).
* `SocketsInOrder`: `NodeSocketsInOrder`. A connect that fails half way must close what it opened and
  nothing else: an open descriptor belongs to one node, or to the call that has yet to hand
  it over (`FdOK`, `SocketOK`, `CallOK`), and a node has heard its own port and group only (`GotOK`). The
  kernel's lowest free descriptor exists because there are more numbers than sockets
  (`FdsSuffice`), which is what the assumption on the constants says.

`ReadersProofs`, from `ReadersAssumption`:

* `OnlyWholeMessages`: `FragmentsWholeMessages`, without a condition on restarts, overwriting or
  failures. A fragment under way is on the ring or in a writer's hands (`Pending`), and `StreamOK`
  says of each: the fragments of its id before it are earlier ones of its message (`AheadOK`);
  what the cache holds under its id are such, in their order, unless the id was cached when
  the message began (`CachedOK`); and if the message was not cut either, the one right before it
  is on the ring, or the cache holds all that come before it (`NextOK`). The ids on the ring and
  at the writers have been given, and no two writers have the same (`IdsOK`).
* `BagsHoldAll`: `LogNothingLost`. While no rotation has lost its file, what was queued is what the writer
  has taken followed by what is queued still, and what fits a record of what was taken
  is, in order, the finished bags, the chunk in memory and the event in the writer's hands
  (`AccountOK`); a logger at rest has an empty chunk and an empty queue (`RestOK`). `Writable` and
  `FlattenSeq` are recursive: that they distribute over an appended element is proved by
  induction over a set of numbers (`Least`, `UpTo`), for which the least-number
  argument suffices.

`ReliableUdpProofs`, from `UdpAssumption`:

* `AckedWasHandedOver`: with `Integrity` (SocketIntegrityMode::CRC32C),
  `AckedMeansDelivered`. Nothing is assumed of the datagrams: the inductive invariant
  says that an ACK in the sender's queue carries the CRC of something its receiver has
  handed over (`AckOK`), that only the message under way has no result
  (`ReportOK`), and that what was handed over stays so. Without `Integrity` the sender
  compares a sequence and a page count, which come from a heartbeat and not from the pages,
  and the theorem makes no claim.
* `AckCountsMessages`: `CountedOnce`, for either setting: every step that adds to a
  count ends a message that had no result, so `Ended` grows by one.

`TopicHandshakeProofs`, from `TopicAssumption`:

* `TypeCorrect`: the types, and that no subscriber holds a generation to come, with no
  condition on restarts.
* `AttachedReadsItsPublisher`: without `QuickRestart`, `AttachedToPublisher`. The
  property speaks of a generation and of a segment, which the code connects only through
  the topic's name. The inductive invariant `Attaching` says where the name may lead:
  segments count at least those that have mapped them (`CountOK`); a segment whose
  publisher is gone counts one more, so that a subscriber that lets go of it does not
  unlink the name under its successor (`NameOK`: this is where a quick restart breaks it); and a
  subscriber that has read the new generation does not find the topic ready before the
  publisher has its segment (`AttachOK`: this needs `begin_rebuild` before the generation is raised).
* `BitsAreKept`: without `QuickRestart` and `StaleCrash`, `LivingKeepTheirBit`. To
  `Attaching` the invariant `Whole` adds that a bit has one owner (`BitOK`) and what the
  slots say of the segment's bits (`SlotOK`): a slot that names a bit belongs to a
  living subscriber, or names the bit of one that died, which `connect()` gives to
  nobody else because it is still set, and which no second slot without an owner names, so
  that it is taken back once.

The two conditions are those of the run `topic`; section 5 says what happens without them.

Only model-checked, and why:

* Everything about liveness (that a published message is delivered in
  `ImplementsReliableBroadcast`, `WakeupHappens`, `CallsReturn`, `SubscriberRecovers`,
  `ServiceClientServed`, `AutoRecovers`, `UnicastCommittedArePopped`, `QueueIsDrained`,
  `RateRecovers`): it needs fairness and ENABLED, which the prover does not handle.
* `UdpLossRecovered`, an invariant: what a receiver has repaired when its window closes depends on the
  order in which datagrams, windows and repairs follow each other, which the condition
  `Timely` states as a whole and no invariant of the datagrams under way does.
* `PagedReadsBack`, `FlatReadsBack`: what a reader computes from what a writer
  computed is an induction over the buffer; TLC runs both on every message of the bounded kind.
* That the sequences `ReliableUdp` sends are sequences of frames (`TypeOK` there), and
  `SnifferTellsTheTruth`, whose parts are such a sequence: `SetToSortSeq` is a choice among
  sequences whose existence is an induction over finite sets. The proofs above do not need it.

## 5. Findings and remarks

The runs `paged_name` and `queue_of_one` state what the repository says and show a trace that
contradicts it; `PROJECT.json` quotes each. The following were found by checking one more
property, or by lifting one condition, in a variation of a run; the definitions
named are in the modules.

* Ring, `NoTornDelivery`: force_push raises `epoch_` once; the following push in the new epoch
  may take the slot of a receiver a full ring behind, and pop, which loads `rc_`
  after the stamp and copies during the write, sees the same epoch before and after:
  a mixture (prod_cons.h:391, against docs/dzflat_known_issues.md:285). A lapped receiver can
  be given one message twice; one that joins between push's reading of `cc_` and the
  move of `wt_` skips that message; push_sniffer over an untaken chunk leaks it.
* Chunks, `FailedSendReturnsChunk`: send() and try_send() of a large message that
  fail to push keep the chunk (ipc.cpp:908); publish_loan gives it back (ipc.cpp:1450).
  `RemCcEntitles`: `rem_cc` (ipc.cpp:587) may hold only the bit of a receiver that joined or left
  meanwhile: the chunk is released a second time.
* Waiter, `MutexStaysUsable`: cond_.wait reports EOWNERDEAD, or loses it under ETIMEDOUT,
  while the thread owns the mutex; lock_guard unlocks without a0_mtx_consistent, and
  the mutex is FTX_NOTRECOVERABLE from then on (condition.h:31, against mtx.c:317).
* Topic, `StaleCrash = TRUE`: a subscriber passes add_peer, a publisher rebuilds, the
  subscriber takes its slot with the bit of the old segment and dies;
  collect_stale_peers does not look at the slot's generation and disconnects that
  bit in the new segment (control_plane.cc:282). `QuickRestart = TRUE`: shm::release
  unlinks by name even if the name leads to a newer segment (shm_posix.cpp:180).
  remove_peer tests the generation and then decrements (control_plane.cc:176), so the
  count drifts over a rebuild. With fewer bits than subscribers, one that slept
  through Clearing keeps `handshake_completed` and never tries again
  (shm_pub_sub_ipc.cc:557).
* ChannelRing: with force_push, or a receiver that joins between a claim and the store
  of `ct_`, two producers can win one element (prod_cons.h:503, 551); a receiver that force_push
  overtook never receives again.
* UnicastRing: force_push may take `cc_` below zero; after it a second receiver
  may connect to an ss ring; a producer that dies between its claim and its flag
  blocks the ring; shut_sending does not reset `sender_flag_`.
* Sniffer, `TornIsDropped`: a slot exactly a ring behind is accepted while the producer writes it,
  before `wt_` shows it (sniffer.cpp:341, against the comment at 339-340);
  after priming, a lap or a skip the end of a message may be
  returned as a message; a large message is read without a reference to its chunk and may be
  a mixture of two users (sniffer.cpp:302); what a segment or memory was missing for is passed
  over without being counted (sniffer.cpp:367, 375, 409).
* Fragments: a message whose first fragments were overwritten (force_push on a route) or
  collected is returned as if its end were all of it (ipc.cpp:1295, 1316); after the storage
  was made anew, a message may be joined to an unfinished one that has its id (ipc.cpp:1320);
  two channels read by one thread share its cache (ipc.cpp:194-198).
* CircularQueue: capacity 1 (the run `queue_of_one`) lets the ends come apart, after which
  try_dequeue spins (circularqueue.h:124, 154); an infinite pop can miss
  its notification, which is sent without `wait_mtx_`.
* InfoPool: a creator that dies half way disables the table for all; a pid used
  again keeps a dead entry; unregister does not ask who owns the slot.
* EventLog: after a failed rotation start() is refused until stop(); a chunk's start
  and end times need not bound its messages.
* ShmService, `SuccessorServed`: a client that leaves or dies keeps the sender's flag set, so the
  requests of the next one on the same rings are refused (ipc.cpp:1522-1526, against
  shm_ser_cli_ipc.cc:667). A slot that is collected after
  the successor has connected, or that a client took late, over a rebuild, frees the
  receiver's flag of a client that lives (`MeetsReaped` excludes it). The shared-memory path has no correlation
  identifier, so a late answer can answer the next call.
* AutoPath, `SocketCallsRead`: collect_stale_peers never lowers peer_count, so a client that crashed
  stays counted, and one that replaces it within the silence timeout may be left alone on the
  socket (auto_ser_cli_ipc.cc:437, against the comment at 436-438). The plane of a crashed
  server misleads a client (`OrphanMet`,
  auto_ser_cli_ipc.cc:501); a peer that dies before its first frame after the
  handshake is not missed; peer_post_hs_seen survives run_status = false (454-456).
* TopicDelivery, `AllLocalMeansAll`: the fast path may skip a counted reader that is
  about to register; fast-path messages never reach a reader of get(Sample).
* ReliableUdp, `NoMixedDelivery`: pages carry no sequence number, so pages of two equal-shaped
  messages can meet in one (data_rev.cc:342); a lost acknowledgement or
  a lost single-page message is not recovered; the final heartbeat after the loop
  (2733-2736) is never sent for Reliable.
* RateControl: a limit lowered while a message is under way is respected by the next
  only (data_rev.cc:676).
* PagedMessage: the tail of an empty message is not initialized; page_cnt wraps
  above 65535 pages; a field with an empty name silently ends GenericMessage's reading.
* FlatSegment: alloc_array with a count that overflows returns empty without marking the
  writer (dzflat.h:230-235); LoanedMessage leaks a chunk smaller than its fixed part;
  an array loaned and not filled publishes what lay there.

## 6. Not modelled, and the plan

Left out: the race of two first users of a control plane (control_plane.cc:298), several
publishers of one topic, a subscriber that stands still for 2 s and is taken for dead
(control_plane.cc:256: its bit is given away while it lives), a handle that
disconnects and connects again and finds `quit_` set (waiter.h:108), loans of 2 GiB
and more (ipc.cpp:1418), the composition of ring and waiter (that a producer which
times out gets out: ipc.cpp:953 is one bounded step after `TimedWaitReturns`).
For good: allocators, hashes, names, tools, the visualiser, the Python binding and
the Windows ports: no protocol, or tested directly.

Next: the two formats, over a buffer that is a function of positions instead of a fold, and
`SnifferTellsTheTruth`.
