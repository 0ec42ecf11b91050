---------------------------- MODULE ShmService -----------------------------
(***************************************************************************)
(* One service over shared memory (dzIPC/shm_ser_cli_ipc.cc): a server     *)
(* with its handshake thread and its response thread, a client with its    *)
(* handshake thread and the thread that calls send_request, the control    *)
(* plane between them, the request and the response ring (single producer, *)
(* single consumer), and, when both are in one process, the fast path over *)
(* the server's local queue.                                               *)
(*                                                                         *)
(* A generation of the server has rings of its own.  A response carries    *)
(* nothing that says which request it answers; here it is the number of    *)
(* that request.  A loaned DZFlat segment and a serialized copy are the    *)
(* same to the protocol.  The races within the control plane are           *)
(* TopicHandshake's subject: its operations are atomic here.  Timeouts may *)
(* come at any moment.                                                     *)
(***************************************************************************)
EXTENDS Integers, Sequences, FiniteSets

CONSTANTS
  NCalls,      \* bound: calls of send_request
  NServers,    \* bound: servers, one after the other
  NClients,    \* bound: clients, one after the other
  NResets,     \* bound: calls of the server's reset_message
  RingSlots,   \* slots of a ring (255)
  QueueSlots,  \* capacity of fp_queue_ (16)
  Confirm,     \* kFastPathConfirm
  Places,      \* values of local that occur
  Nodelet      \* values IsNodeletEnabled may have

\* Rings and the queue hold at least one message.
ASSUME ServiceAssumption ==
  /\ NCalls \in Nat /\ NServers \in Nat /\ NClients \in Nat /\ NResets \in Nat
  /\ RingSlots \in Nat \ {0} /\ QueueSlots \in Nat \ {0} /\ Confirm \in Nat
  /\ Places \subseteq BOOLEAN /\ Nodelet \subseteq BOOLEAN

Gens  == 1..NServers
Calls == 1..NCalls
Fresh == [req |-> <<>>, resp |-> <<>>, reader |-> FALSE, sender |-> 0, receiver |-> 0]

VARIABLES
  ctl,      \* control plane: state, generation, peer_count, slots (the connections)
  ring,     \* the rings of each generation: contents and who is connected to them
  name,     \* generation whose rings the names lead to, 0: none
  srv,      \* the server: pc, fpKey (msg_id registered, 0: none), msgId, done
  work,     \* what the response thread is at
  queue,    \* fp_queue_: envelopes
  cli,      \* the client's handshake thread
  call,     \* send_request
  reply,    \* the reply queue of each call, of capacity 1
  ran,      \* history: times the callback ran for each call
  answer,   \* history: request whose response each call returned, 0: none
  resets,
  local     \* server and client are in one process

vars == <<ctl, ring, name, srv, work, queue, cli, call, reply, ran, answer, resets, local>>

NoWork == [via |-> "", n |-> 0, run |-> FALSE]
NoCall == [pc |-> "idle", to |-> 0]
Off    == [pc |-> "off", fpKey |-> 0, msgId |-> 1, done |-> FALSE]

Init ==
  /\ ctl = [state |-> "Empty", gen |-> 0, peers |-> 0, slots |-> {}]
  /\ ring = [g \in Gens |-> Fresh]
  /\ name = 0
  /\ srv = Off
  /\ work = NoWork
  /\ queue = <<>>
  /\ cli = [pc |-> "off", inc |-> 0, gen |-> 0, attached |-> 0, peer |-> FALSE,
            completed |-> FALSE, chan |-> 0, seen |-> 0, streak |-> 0, n |-> 0]
  /\ call = NoCall
  /\ reply = [n \in Calls |-> 0]
  /\ ran = [n \in Calls |-> 0]
  /\ answer = [n \in Calls |-> 0]
  /\ resets = 0
  /\ local \in Places

history == <<ran, answer>>
Running == srv.pc \in {"up", "register"}
-----------------------------------------------------------------------------
(***************************************************************************)
(* The server: InitChannel.                                                *)
(***************************************************************************)
(* begin_rebuild: Clearing, peers are drained or the deadline passes. *)
SrvStart ==
  /\ srv.pc = "off" /\ ctl.gen < NServers
  /\ srv' = [Off EXCEPT !.pc = "clearing"]
  /\ ctl' = [ctl EXCEPT !.state = "Clearing"]
  /\ queue' = <<>>
  /\ UNCHANGED <<ring, name, work, cli, call, reply, history, resets, local>>

SrvDrained ==
  /\ srv.pc = "clearing"
  /\ srv' = [srv EXCEPT !.pc = "open"]
  /\ ctl' = [ctl EXCEPT !.peers = 0, !.slots = {}, !.gen = @ + 1]
  /\ UNCHANGED <<ring, name, work, queue, cli, call, reply, history, resets, local>>

(* clear_storage of both rings, then both ends. *)
SrvOpen ==
  /\ srv.pc = "open"
  /\ name' = ctl.gen
  /\ ring' = [ring EXCEPT ![ctl.gen] = [Fresh EXCEPT !.reader = TRUE]]
  /\ srv' = [srv EXCEPT !.pc = "ready"]
  /\ UNCHANGED <<ctl, work, queue, cli, call, reply, history, resets, local>>

(* set_ready; the handshake thread starts. *)
SrvReady ==
  /\ srv.pc = "ready"
  /\ ctl' = [ctl EXCEPT !.state = "Ready"]
  /\ srv' = [srv EXCEPT !.pc = "register"]
  /\ UNCHANGED <<ring, name, work, queue, cli, call, reply, history, resets, local>>

(* The queue is registered, the response thread starts. *)
SrvRegister ==
  /\ srv.pc = "register"
  /\ srv' = [srv EXCEPT !.pc = "up", !.fpKey = srv.msgId]
  /\ UNCHANGED <<ctl, ring, name, work, queue, cli, call, reply, history, resets, local>>

(* reset_message: registered again if the msg_id changed. *)
ResetMessage ==
  /\ srv.pc = "up" /\ resets < NResets
  /\ resets' = resets + 1
  /\ srv' = [srv EXCEPT !.msgId = 3 - @, !.fpKey = 3 - srv.msgId]
  /\ UNCHANGED <<ctl, ring, name, work, queue, cli, call, reply, history, local>>
-----------------------------------------------------------------------------
(***************************************************************************)
(* The server: ser_handshake.                                              *)
(***************************************************************************)
(* Slots nobody refreshes.  A client that lives refreshes its own. *)
Alive == cli.pc \notin {"off", "gone"}
Silent == {b \in ctl.slots : ~Alive \/ b # cli.inc}

(* collect_stale_peers and disconnect_receivers: the ring's one receiver   *)
(* may connect again. *)
Reap ==
  /\ Running
  /\ Silent # {}
  /\ ctl' = [ctl EXCEPT !.slots = @ \ Silent]
  /\ ring' = [ring EXCEPT ![ctl.gen].receiver = 0]
  /\ UNCHANGED <<name, srv, work, queue, cli, call, reply, history, resets, local>>

SrvSeePeers ==
  /\ Running /\ srv.done # (ctl.peers > 0)
  /\ srv' = [srv EXCEPT !.done = ctl.peers > 0]
  /\ UNCHANGED <<ctl, ring, name, work, queue, cli, call, reply, history, resets, local>>
-----------------------------------------------------------------------------
(***************************************************************************)
(* The server: response_thread_func.                                       *)
(***************************************************************************)
PopQueue ==
  /\ srv.pc = "up" /\ work = NoWork /\ queue # <<>>
  /\ work' = [via |-> "queue", n |-> Head(queue), run |-> FALSE]
  /\ queue' = Tail(queue)
  /\ UNCHANGED <<ctl, ring, name, srv, cli, call, reply, history, resets, local>>

(* classify_received and accept_wire: the request has the msg_id of the    *)
(* message the server expects. *)
accept_wire == srv.msgId = 1

(* recv(50); a request of another type is thrown away. *)
RecvRequest ==
  LET g == ctl.gen IN
  /\ srv.pc = "up" /\ work = NoWork /\ ring[g].req # <<>>
  /\ ring' = [ring EXCEPT ![g].req = Tail(@)]
  /\ work' = IF accept_wire THEN [via |-> "ring", n |-> Head(ring[g].req), run |-> FALSE]
                              ELSE NoWork
  /\ UNCHANGED <<ctl, name, srv, queue, cli, call, reply, history, resets, local>>

Callback ==
  /\ work # NoWork /\ ~work.run
  /\ ran' = [ran EXCEPT ![work.n] = @ + 1]
  /\ work' = [work EXCEPT !.run = TRUE]
  /\ UNCHANGED <<ctl, ring, name, srv, queue, cli, call, reply, answer, resets, local>>

(* try_send_dzflat and try_send: a receiver is connected, a slot is free. *)
CanRespond ==
  LET g == ctl.gen IN ring[g].receiver # 0 /\ Len(ring[g].resp) < RingSlots

(* The response goes to whichever call waits now. *)
RespondToNewest ==
  LET g == ctl.gen IN
  /\ work # NoWork /\ work.run
  /\ \/ /\ work.via = "queue"
        /\ reply' = [reply EXCEPT ![cli.n] = work.n]
        /\ UNCHANGED ring
     \/ /\ work.via = "ring"
        /\ ring' = [ring EXCEPT ![g].resp = Append(@, work.n)]
        /\ UNCHANGED reply
  /\ work' = NoWork
  /\ UNCHANGED <<ctl, name, srv, queue, cli, call, history, resets, local>>

(* Into the envelope's own reply queue, or onto the ring; there it is      *)
(* given up after ten tries when nobody is connected or the ring is full. *)
Respond ==
  LET g == ctl.gen IN
  /\ work # NoWork /\ work.run
  /\ \/ /\ work.via = "queue"
        /\ reply' = [reply EXCEPT ![work.n] = work.n]
        /\ UNCHANGED ring
     \/ /\ work.via = "ring"
        /\ ring' = IF CanRespond
                     THEN [ring EXCEPT ![g].resp = Append(@, work.n)] ELSE ring
        /\ UNCHANGED reply
  /\ work' = NoWork
  /\ UNCHANGED <<ctl, name, srv, queue, cli, call, history, resets, local>>
-----------------------------------------------------------------------------
(***************************************************************************)
(* The server: its end.                                                    *)
(***************************************************************************)
(* ~shm_ser_ipc: the queue leaves the registry first. *)
SrvStop ==
  /\ srv.pc = "up"
  /\ srv' = [srv EXCEPT !.pc = "stop", !.fpKey = 0]
  /\ UNCHANGED <<ctl, ring, name, work, queue, cli, call, reply, history, resets, local>>

(* The response thread is joined, then the handshake thread. *)
SrvJoin ==
  /\ srv.pc = "stop" /\ work = NoWork
  /\ srv' = [srv EXCEPT !.pc = "clear", !.done = FALSE]
  /\ ctl' = [ctl EXCEPT !.state = "Stopping"]
  /\ UNCHANGED <<ring, name, work, queue, cli, call, reply, history, resets, local>>

SrvClear ==
  /\ srv.pc = "clear"
  /\ srv' = Off
  /\ name' = 0
  /\ ring' = [ring EXCEPT ![ctl.gen].reader = FALSE]
  /\ UNCHANGED <<ctl, work, queue, cli, call, reply, history, resets, local>>

(* Its process dies.  In one process with the client it takes it along,    *)
(* which is no case of its own. *)
SrvCrash ==
  /\ ~local /\ srv.pc # "off"
  /\ srv' = Off /\ work' = NoWork
  /\ UNCHANGED <<ctl, ring, name, queue, cli, call, reply, history, resets, local>>
-----------------------------------------------------------------------------
(***************************************************************************)
(* The client: cli_handshake.  Locked: send_request has channel_mtx_.      *)
(***************************************************************************)
Locked == call.pc \in {"send", "recv"}

CliStart ==
  /\ ~Alive /\ cli.inc < NClients
  /\ cli' = [pc |-> "look", inc |-> cli.inc + 1, gen |-> 0, attached |-> 0, peer |-> FALSE,
             completed |-> FALSE, chan |-> 0, seen |-> 0, streak |-> 0, n |-> cli.n]
  /\ UNCHANGED <<ctl, ring, name, srv, work, queue, call, reply, history, resets, local>>

(* remove_peer, if the generation is still the same, and release_peer_slot. *)
Unregistered ==
  IF ~cli.peer THEN ctl
  ELSE [ctl EXCEPT !.peers = IF cli.attached = ctl.gen /\ @ > 0 THEN @ - 1 ELSE @,
                   !.slots = @ \ {cli.inc}]

Ready == ctl.state = "Ready" /\ ctl.gen # 0

(* A new server is not looked for once the handshake is complete. *)
NeedsAttachOnce == ~cli.completed

NeedsAttach == ~cli.completed \/ cli.attached # ctl.gen

CliLook ==
  /\ cli.pc = "look"
  /\ \/ /\ Ready /\ NeedsAttach
        /\ ctl' = Unregistered
        /\ cli' = [cli EXCEPT !.pc = "swap", !.gen = ctl.gen, !.peer = FALSE]
     \/ /\ ~Ready /\ cli.completed
        /\ ctl' = Unregistered
        /\ cli' = [cli EXCEPT !.pc = "drop", !.completed = FALSE, !.peer = FALSE]
  /\ UNCHANGED <<ring, name, srv, work, queue, call, reply, history, resets, local>>

(* release() of the old ends leaves the flags of their rings as they are.  *)
(* The new ends are connected only if the rings have no receiver and no    *)
(* sender; the sender tries again whenever it sends. *)
CliSwap ==
  /\ cli.pc = "swap" /\ ~Locked
  /\ cli' = [cli EXCEPT !.pc = "add", !.chan = name, !.attached = cli.gen]
  /\ ring' = [g \in Gens |-> IF g # name THEN ring[g]
                ELSE [ring[g] EXCEPT !.receiver = IF @ = 0 THEN cli.inc ELSE @,
                                     !.sender = IF @ = 0 THEN cli.inc ELSE @]]
  /\ UNCHANGED <<ctl, name, srv, work, queue, call, reply, history, resets, local>>

(* add_peer, or back to the start. *)
CliAdd ==
  /\ cli.pc = "add"
  /\ \/ /\ Ready /\ cli.attached = ctl.gen
        /\ ctl' = [ctl EXCEPT !.peers = @ + 1]
        /\ cli' = [cli EXCEPT !.pc = "slot", !.peer = TRUE]
     \/ /\ ~(Ready /\ cli.attached = ctl.gen) /\ ~Locked
        /\ cli' = [cli EXCEPT !.pc = "look", !.chan = 0]
        /\ UNCHANGED ctl
  /\ UNCHANGED <<ring, name, srv, work, queue, call, reply, history, resets, local>>

Connected == cli.chan # 0 /\ ring[cli.chan].receiver = cli.inc

(* acquire_peer_slot takes no slot for a receiver that is not connected. *)
CliSlot ==
  /\ cli.pc = "slot" /\ ~Locked
  /\ ctl' = [ctl EXCEPT !.slots = IF Connected THEN @ \cup {cli.inc} ELSE @]
  /\ cli' = [cli EXCEPT !.pc = "look", !.completed = TRUE]
  /\ UNCHANGED <<ring, name, srv, work, queue, call, reply, history, resets, local>>

CliDrop ==
  /\ cli.pc = "drop" /\ ~Locked
  /\ cli' = [cli EXCEPT !.pc = "look", !.chan = 0]
  /\ UNCHANGED <<ctl, ring, name, srv, work, queue, call, reply, history, resets, local>>

Gone == [cli EXCEPT !.pc = "gone", !.gen = 0, !.attached = 0, !.peer = FALSE,
                    !.completed = FALSE, !.chan = 0, !.seen = 0, !.streak = 0]

(* ~shm_cli_ipc, between two calls. *)
CliStop ==
  /\ cli.pc = "look" /\ call = NoCall
  /\ ctl' = Unregistered
  /\ cli' = Gone
  /\ UNCHANGED <<ring, name, srv, work, queue, call, reply, history, resets, local>>

CliCrash ==
  /\ ~local /\ Alive
  /\ cli' = Gone /\ call' = NoCall
  /\ UNCHANGED <<ctl, ring, name, srv, work, queue, reply, history, resets, local>>
-----------------------------------------------------------------------------
(***************************************************************************)
(* The client: send_request.                                               *)
(***************************************************************************)
(* subscriber_snapshot: the number of queues under the request's msg_id. *)
Snapshot == IF local /\ srv.fpKey = 1 THEN 1 ELSE 0

(* Consecutive calls that saw exactly one server. *)
Streak ==
  IF Snapshot # 1 THEN 0
  ELSE IF Snapshot # cli.seen THEN 1
  ELSE IF cli.streak < Confirm THEN cli.streak + 1 ELSE cli.streak

(* nodelet: IsNodeletEnabled, asked anew by each call. *)
CallBegin(nodelet) ==
  /\ Alive /\ call = NoCall /\ cli.n < NCalls /\ cli.completed
  /\ LET fast == nodelet /\ Streak >= Confirm
         counted == [cli EXCEPT !.n = @ + 1, !.seen = IF nodelet THEN Snapshot ELSE @,
                                !.streak = IF nodelet THEN Streak ELSE @]
     IN /\ cli' = counted
        /\ call' = IF fast THEN [pc |-> "push", to |-> ctl.gen] ELSE [pc |-> "lock", to |-> 0]
  /\ UNCHANGED <<ctl, ring, name, srv, work, queue, reply, history, resets, local>>

(* push drops the oldest envelope of a full queue.  The queue of a server  *)
(* that is gone lives on in the snapshot, and nobody reads it. *)
CallPush ==
  LET rest == IF Len(queue) = QueueSlots THEN Tail(queue) ELSE queue IN
  /\ call.pc = "push"
  /\ queue' = IF call.to = ctl.gen /\ srv.pc \in {"up", "stop"} THEN Append(rest, cli.n)
                                                                ELSE queue
  /\ call' = [call EXCEPT !.pc = "reply"]
  /\ UNCHANGED <<ctl, ring, name, srv, work, cli, reply, history, resets, local>>

Returned(n, r) ==
  /\ answer' = [answer EXCEPT ![n] = r]
  /\ call' = NoCall

CallReply ==
  /\ call.pc = "reply" /\ reply[cli.n] # 0
  /\ Returned(cli.n, reply[cli.n])
  /\ UNCHANGED <<ctl, ring, name, srv, work, queue, cli, reply, ran, resets, local>>

(* The request is not sent again: it may still be executed. *)
CallReplyTimeout ==
  /\ call.pc = "reply" /\ reply[cli.n] = 0
  /\ call' = NoCall
  /\ UNCHANGED <<ctl, ring, name, srv, work, queue, cli, reply, history, resets, local>>

(* channel_mtx_; the handshake thread may have dropped the rings. *)
CallLock ==
  /\ call.pc = "lock"
  /\ call' = IF cli.completed /\ cli.chan # 0 THEN [call EXCEPT !.pc = "send"] ELSE NoCall
  /\ UNCHANGED <<ctl, ring, name, srv, work, queue, cli, reply, history, resets, local>>

(* The request ring has one sender. *)
CanSend ==
  LET r == ring[cli.chan] IN
  /\ r.reader /\ r.sender \in {0, cli.inc} /\ Len(r.req) < RingSlots

\* The ring with request n of client c on it.
Sent(r, n, c) == [r EXCEPT !.req = Append(r.req, n), !.sender = c]

CallSend ==
  /\ call.pc = "send"
  /\ IF CanSend
       THEN /\ ring' = [ring EXCEPT ![cli.chan] = Sent(ring[cli.chan], cli.n, cli.inc)]
            /\ call' = [call EXCEPT !.pc = "recv"]
       ELSE /\ call' = NoCall
            /\ ring' = [ring EXCEPT ![cli.chan].sender = IF @ = 0 THEN cli.inc ELSE @]
  /\ UNCHANGED <<ctl, name, srv, work, queue, cli, reply, history, resets, local>>

(* The response is looked at and left on the ring. *)
CallRecvPeek ==
  /\ call.pc = "recv" /\ Connected /\ ring[cli.chan].resp # <<>>
  /\ Returned(cli.n, Head(ring[cli.chan].resp))
  /\ UNCHANGED <<ctl, ring, name, srv, work, queue, cli, reply, ran, resets, local>>

(* The first response of the right type is the answer. *)
CallRecv ==
  /\ call.pc = "recv" /\ Connected /\ ring[cli.chan].resp # <<>>
  /\ ring' = [ring EXCEPT ![cli.chan].resp = Tail(@)]
  /\ Returned(cli.n, Head(ring[cli.chan].resp))
  /\ UNCHANGED <<ctl, name, srv, work, queue, cli, reply, ran, resets, local>>

CallRecvTimeout ==
  /\ call.pc = "recv" /\ (~Connected \/ ring[cli.chan].resp = <<>>)
  /\ call' = NoCall
  /\ UNCHANGED <<ctl, ring, name, srv, work, queue, cli, reply, history, resets, local>>
-----------------------------------------------------------------------------
SrvStep == \/ SrvDrained \/ SrvOpen \/ SrvReady \/ SrvRegister \/ SrvSeePeers \/ Reap
           \/ SrvJoin \/ SrvClear
RespStep == PopQueue \/ RecvRequest \/ Callback \/ Respond
CliStep  == CliLook \/ CliSwap \/ CliAdd \/ CliSlot \/ CliDrop
CallStep == \/ CallPush \/ CallReply \/ CallReplyTimeout \/ CallLock \/ CallSend
            \/ CallRecv \/ CallRecvTimeout

Next ==
  \/ SrvStart \/ ResetMessage \/ SrvStop \/ SrvCrash \/ SrvStep \/ RespStep
  \/ CliStart \/ CliStop \/ CliCrash \/ CliStep
  \/ CallStep \/ \E b \in Nodelet : CallBegin(b)

(* Threads that live are scheduled, every wait has a timeout. *)
Fairness ==
  WF_vars(SrvStep) /\ WF_vars(RespStep) /\ WF_vars(CliStep) /\ WF_vars(CallStep)

Spec == Init /\ [][Next]_vars /\ Fairness
-----------------------------------------------------------------------------
(***************************************************************************)
(* Properties.                                                             *)
(***************************************************************************)
TypeOKService ==
  /\ ctl.state \in {"Empty", "Clearing", "Ready", "Stopping"}
  /\ ctl.gen \in 0..NServers /\ ctl.peers \in 0..NClients /\ ctl.slots \subseteq 1..NClients
  /\ name \in 0..NServers /\ cli.chan \in 0..NServers /\ cli.n \in 0..NCalls
  /\ \A g \in Gens : /\ Len(ring[g].req) <= RingSlots /\ Len(ring[g].resp) <= RingSlots
                     /\ ring[g].sender \in 0..NClients /\ ring[g].receiver \in 0..NClients
  /\ Len(queue) <= QueueSlots
  /\ answer \in [Calls -> 0..NCalls]

(* "re-sending via SHM would double-execute the callback": the callback    *)
(* runs at most once for a call, whichever way the request took and        *)
(* whatever timed out. *)
RanAtMostOnce == \A n \in Calls : ran[n] <= 1

(* A response is returned by one call only, and by none before its own     *)
(* request: it may come late and be taken for the answer of a later call,  *)
(* but never twice, whichever ways the requests took. *)
AnsweredOnce ==
  \A m, n \in Calls :
    answer[n] <= n /\ (m # n /\ answer[m] # 0 => answer[m] # answer[n])

(* However requests and responses are delayed, timed out or sent the other *)
(* way: a request runs at most once and its response is returned at most   *)
(* once.                                                                   *)
AtMostOnce == RanAtMostOnce /\ AnsweredOnce

(* On the fast path a call gets the response to its own request: "call-    *)
(* level correlation - no broadcast, no pollution". *)
FastPathCorrelated == [][\A n \in Calls :
  (call.pc = "reply" /\ cli.n = n /\ answer'[n] # answer[n]) => answer'[n] = n]_vars

Served ==
  /\ cli.completed /\ cli.chan = ctl.gen /\ Connected
  /\ ring[cli.chan].sender \in {0, cli.inc}

(* The client connects to the rings of generation g after every earlier    *)
(* client was collected there: no slot and no receiver flag is theirs.     *)
MeetsReaped(g) ==
  (cli.pc = "swap" /\ name = g) =>
    ring[g].receiver \in {0, cli.inc} /\ ctl.slots \subseteq {cli.inc}

(* Nor does it find the flag of a sender before it. *)
MeetsNoSender(g) == (cli.pc = "swap" /\ name = g) => ring[g].sender \in {0, cli.inc}

(* A client that stays ends up connected to the rings of a server that     *)
(* stays and able to send on them, after any number of restarts, crashes   *)
(* and calls, whoever used the rings of the servers before: needed is only *)
(* that no earlier client left its traces on these rings.                  *)
ClientServed ==
  \A g \in Gens :
    /\ <>[](srv.pc = "up" /\ Alive /\ ctl.gen = g)
    /\ [](MeetsReaped(g) /\ MeetsNoSender(g))
    => <>[]Served

(* The server "can safely reclaim the connections" of a client that        *)
(* crashed (shm_ser_cli_ipc.cc:666-667), for otherwise "this direction     *)
(* silently cannot send" (:329-338): a client that follows one that was    *)
(* collected is served like the first.                                     *)
SuccessorServed ==
  \A g \in Gens :
    <>[](srv.pc = "up" /\ Alive /\ ctl.gen = g) /\ []MeetsReaped(g) => <>[]Served
============================================================================
