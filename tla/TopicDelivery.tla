--------------------------- MODULE TopicDelivery ---------------------------
(***************************************************************************)
(* What a published message does on its way to the subscribers of one      *)
(* topic: publish_best_effort's choice between the transport and the       *)
(* queues of the subscribers of its own process (the nodelet fast path),   *)
(* the registry of those queues, the receive loop that sorts what comes    *)
(* over the transport into the two queues of a subscriber, and the calls   *)
(* that take from them.  One model for both transports: shm_pub_sub_ipc.cc *)
(* counts the receivers of the ring, socket_pub_sub_ipc.cc the SocketSub   *)
(* entries of the info pool.                                               *)
(*                                                                         *)
(* A subscriber is Counted from its attachment (ring) or registration      *)
(* (pool) on and Registered while its queue is in the local registry.  A   *)
(* queue that is full drops its oldest element (CircularQueue); the ring   *)
(* and the network are given room (their losses are modelled elsewhere).   *)
(***************************************************************************)
EXTENDS Naturals, Sequences, FiniteSets, SequencesExt

CONSTANTS
    Locals,     \* subscribers in the publisher's process
    Remotes,    \* subscribers in other processes
    Ids,        \* msg_ids
    Confirm,    \* kFastPathConfirm
    QueueSize,  \* capacity of either queue
    MaxMsgs,    \* messages published in a behaviour
    MaxMoves,   \* joins, leaves and resets in a behaviour
    Transports, \* the transports to look at, of "shm" and "socket"
    Schemas     \* the types of remote subscribers to look at, of SchemaKinds

Subs == Locals \cup Remotes

(* A subscriber's type: generated with the publisher's schema, generated   *)
(* with another one, GenericMessage, or written by hand                    *)
SchemaKinds == {"same", "other", "generic", "hand"}

(* The message of number n: its msg_id, and whether it is a DZFlat segment *)
Message == [n : 1 .. MaxMsgs, id : Ids, flat : BOOLEAN]

ASSUME DeliveryAssumption ==
    /\ IsFiniteSet(Locals) /\ IsFiniteSet(Remotes)
    /\ Confirm \in Nat \ {0} /\ QueueSize \in Nat \ {0}
    /\ MaxMsgs \in Nat /\ MaxMoves \in Nat
    /\ Ids # {} /\ Schemas \subseteq SchemaKinds

VARIABLES
    transport,  \* the topic's transport
    schema,     \* type of each subscriber
    counted,    \* subscribers recv_count or the pool counts
    registered, \* local subscribers in LocalPubSubRegistry
    id,         \* msg_id_ of each subscriber
    wire,       \* what the transport holds for each subscriber
    mq, vq,     \* msg_queue_ and view_queue_
    pc,         \* where the publishing call is
    m,          \* its message
    snap,       \* its registry snapshot
    fp,         \* fp_consecutive_ and the topology it was counted for
    handed,     \* the subscribers the message was handed to
    owed,       \* those counted throughout the call that take its type
    met,        \* per subscriber, the messages that reached a queue of it
    twice,      \* did a message reach a subscriber twice
    exact,      \* was every member of the snapshot counted by PublishCount
    subscribed, \* subscribed_ of the discovery loop
    n, moves

pubVars == <<pc, m, snap, fp, n>>
history == <<handed, owed, met, twice, exact>>
fixed == <<transport, schema>>
vars == <<fixed, counted, registered, id, wire, mq, vq, pubVars, history, subscribed, moves>>

NoMsg == [n |-> 0, id |-> CHOOSE i \in Ids : TRUE, flat |-> FALSE]

NoTopology == [k |-> 0, id |-> 0, local |-> 0, total |-> 0]

Init ==
    /\ transport \in Transports
    /\ \E k \in Schemas : schema = [s \in Subs |-> IF s \in Locals THEN "same" ELSE k]
    /\ counted = {} /\ registered = {}
    /\ id \in [Subs -> {CHOOSE i \in Ids : TRUE}]
    /\ wire = [s \in Subs |-> <<>>]
    /\ mq = [s \in Subs |-> <<>>] /\ vq = [s \in Subs |-> <<>>]
    /\ pc = "idle" /\ m = NoMsg /\ snap = {} /\ fp = NoTopology
    /\ handed = {} /\ owed = {}
    /\ met = [s \in Subs |-> {}] /\ twice = FALSE /\ exact = TRUE
    /\ subscribed = FALSE
    /\ n = 0 /\ moves = 0

-----------------------------------------------------------------------------
(* Subscribers come, go and change their type *)

Move == moves < MaxMoves /\ moves' = moves + 1

(* socket_sub_ipc enters the pool before its queue joins the registry;     *)
(* shm_sub_ipc is attached by its handshake thread, whenever that is       *)
CountedFirst == transport = "socket"

(* The ring attachment of sub_handshake, or the pool entry of InitChannel *)
Count(s) ==
    /\ Move
    /\ s \notin counted
    /\ counted' = counted \cup {s}
    /\ UNCHANGED <<registered, id, wire, mq, vq, pubVars, history, subscribed>>

(* InitChannel's last step: the queue joins the local registry *)
Register(s) ==
    /\ Move
    /\ s \in Locals \ registered
    /\ CountedFirst => s \in counted
    /\ registered' = registered \cup {s}
    /\ UNCHANGED <<counted, id, wire, mq, vq, pubVars, history, subscribed>>

(* The destructor's first step *)
Unregister(s) ==
    /\ Move
    /\ s \in registered
    /\ registered' = registered \ {s}
    /\ UNCHANGED <<counted, id, wire, mq, vq, pubVars, history, subscribed>>

(* The destructor's last step, or a publisher that rebuilds *)
Uncount(s) ==
    /\ Move
    /\ s \in counted
    /\ CountedFirst => s \notin registered
    /\ counted' = counted \ {s}
    /\ owed' = owed \ {s}
    /\ wire' = [wire EXCEPT ![s] = <<>>]
    /\ UNCHANGED <<registered, id, mq, vq, pubVars, handed, met, twice, exact, subscribed>>

(* reset_message: the registry entry moves to the new key *)
ResetMessage(s, i) ==
    /\ Move
    /\ id[s] # i
    /\ id' = [id EXCEPT ![s] = i]
    /\ owed' = owed \ {s}
    /\ UNCHANGED <<counted, registered, wire, mq, vq, pubVars, handed, met, twice, exact, subscribed>>

-----------------------------------------------------------------------------
(* The publisher *)

(* subscriber_snapshot for the key of the message *)
PublishBegin(i) ==
    /\ pc = "idle" /\ n < MaxMsgs
    /\ n' = n + 1
    /\ m' = [n |-> n + 1, id |-> i, flat |-> FALSE]
    /\ snap' = {s \in registered : id[s] = i}
    /\ owed' = {s \in counted : id[s] = i}
    /\ handed' = {} /\ exact' = TRUE
    /\ pc' = "count"
    /\ UNCHANGED <<counted, registered, id, wire, mq, vq, fp, met, twice, subscribed, moves>>

(* Mutant: the number of receivers is not looked at *)
AllLocalAny(local, total) == local > 0

(* Does the number of receivers say that all are local *)
AllLocal(local, total) == local > 0 /\ total = local

(* The stability gate, under fast_path_mtx_ *)
Gate(f, i, local, total) ==
    LET same == f.id = i /\ f.local = local /\ f.total = total
        k == IF same THEN f.k ELSE 0
    IN  [k |-> IF AllLocal(local, total) THEN k + 1 ELSE 0,
         id |-> i, local |-> local, total |-> total]

(* recv_count or the pool's count, then the gate *)
PublishCount ==
    LET g == Gate(fp, m.id, Cardinality(snap), Cardinality(counted))
    IN  /\ pc = "count"
        /\ fp' = [g EXCEPT !.k = IF @ > Confirm THEN Confirm ELSE @]
        /\ pc' = IF g.k >= Confirm THEN "fanout" ELSE "send"
        /\ exact' = (snap \subseteq counted)
        /\ UNCHANGED <<counted, registered, id, wire, mq, vq, m, snap, n, handed, owed, met, twice,
                       subscribed, moves>>

PushTo(q, x) == IF Len(q) < QueueSize THEN Append(q, x) ELSE Append(Tail(q), x)

(* History: a message reaches a queue of s *)
Meet(s, x) ==
    /\ met' = [met EXCEPT ![s] = @ \cup {x.n}]
    /\ twice' = (twice \/ x.n \in met[s])

(* One push of the fan-out; a subscriber that left keeps its queue alive *)
Fanout(s) ==
    /\ pc = "fanout" /\ s \in snap
    /\ mq' = [mq EXCEPT ![s] = PushTo(@, m)]
    /\ Meet(s, m)
    /\ handed' = handed \cup {s}
    /\ snap' = snap \ {s}
    /\ UNCHANGED <<counted, registered, id, wire, vq, pc, m, fp, n, owed, exact, subscribed, moves>>

(* Mutant: the fast path falls through to the transport *)
FanoutDoneFallsThrough ==
    /\ pc = "fanout" /\ snap = {}
    /\ pc' = "send"
    /\ UNCHANGED <<counted, registered, id, wire, mq, vq, m, snap, fp, n, history, subscribed, moves>>

FanoutDone ==
    /\ pc = "fanout" /\ snap = {}
    /\ pc' = "idle"
    /\ UNCHANGED <<counted, registered, id, wire, mq, vq, m, snap, fp, n, history, subscribed, moves>>

(* Everyone counted gets the message, whatever its type *)
Transmit(x) ==
    /\ wire' = [s \in Subs |-> IF s \in counted THEN Append(wire[s], x) ELSE wire[s]]
    /\ handed' = handed \cup counted
    /\ pc' = "idle"
    /\ UNCHANGED <<counted, registered, id, mq, vq, m, snap, fp, n, owed, met, twice, exact,
                   subscribed, moves>>

(* publish_for_sniffer and publish_blocking over the ring: a DZFlat        *)
(* segment in a loaned chunk, or, without a receiver or a chunk, TLV       *)
ShmSend ==
    /\ pc = "send" /\ transport = "shm"
    /\ \E flat \in BOOLEAN : /\ flat => counted # {}
                            /\ Transmit([m EXCEPT !.flat = flat])

(* The UDP path: always TLV *)
SocketSend ==
    /\ pc = "send" /\ transport = "socket"
    /\ Transmit(m)

(* discovery_loop: a snapshot that fails keeps the last answer *)
Discover ==
    /\ subscribed' = (counted # {})
    /\ UNCHANGED <<counted, registered, id, wire, mq, vq, pubVars, history, moves>>

-----------------------------------------------------------------------------
(* A subscriber *)

(* The classification of the receive loop: a DZFlat segment of the         *)
(* subscriber's own schema is lent, TLV and what GenericMessage adopts is  *)
(* materialised, the rest is skipped                                       *)
Classify(s, x) ==
    CASE x.id # id[s] -> "skip"
      [] x.id = id[s] /\ ~x.flat -> "clone"
      [] OTHER -> CASE schema[s] = "same" -> "view"
                    [] schema[s] = "generic" -> "clone"
                    [] OTHER -> "skip"

(* One turn of the receive loop *)
Receive(s) ==
    LET x == Head(wire[s])
        to == Classify(s, x)
    IN  /\ wire[s] # <<>>
        /\ wire' = [wire EXCEPT ![s] = Tail(@)]
        /\ \/ to = "skip" /\ UNCHANGED <<mq, vq, met, twice>>
           \/ /\ to = "view"
              /\ vq' = [vq EXCEPT ![s] = PushTo(@, x)]
              /\ Meet(s, x)
              /\ UNCHANGED mq
           \/ /\ to = "clone"
              /\ mq' = [mq EXCEPT ![s] = PushTo(@, x)]
              /\ Meet(s, x)
              /\ UNCHANGED vq
        /\ UNCHANGED <<counted, registered, id, pubVars, handed, owed, exact, subscribed, moves>>

(* get and try_get *)
Get(s) ==
    /\ vq[s] # <<>>
    /\ vq' = [vq EXCEPT ![s] = Tail(@)]
    /\ UNCHANGED <<counted, registered, id, wire, mq, pubVars, history, subscribed, moves>>

(* get_clone and try_get_clone *)
GetClone(s) ==
    /\ mq[s] # <<>>
    /\ mq' = [mq EXCEPT ![s] = Tail(@)]
    /\ UNCHANGED <<counted, registered, id, wire, vq, pubVars, history, subscribed, moves>>

-----------------------------------------------------------------------------
Step ==
    \/ \E s \in Subs : \/ Count(s) \/ Uncount(s) \/ Register(s) \/ Unregister(s)
                       \/ Fanout(s) \/ Receive(s) \/ Get(s) \/ GetClone(s)
                       \/ \E i \in Ids : ResetMessage(s, i)
    \/ \E i \in Ids : PublishBegin(i)
    \/ PublishCount \/ FanoutDone \/ ShmSend \/ SocketSend \/ Discover

Next == Step /\ UNCHANGED fixed

Spec == Init /\ [][Next]_vars

(* The discovery thread polls every 100 ms; a call and the receive loops   *)
(* run to their end                                                        *)
Progress ==
    /\ WF_vars(Discover /\ UNCHANGED fixed)
    /\ WF_vars((PublishCount \/ FanoutDone \/ ShmSend \/ SocketSend) /\ UNCHANGED fixed)
    /\ \A s \in Subs : WF_vars((Fanout(s) \/ Receive(s)) /\ UNCHANGED fixed)

FairSpec == Spec /\ Progress

-----------------------------------------------------------------------------
TypeOK ==
    /\ counted \subseteq Subs /\ registered \subseteq Locals
    /\ id \in [Subs -> Ids]
    /\ \A s \in Subs : /\ Len(mq[s]) <= QueueSize /\ Range(mq[s]) \subseteq Message
                       /\ Len(vq[s]) <= QueueSize /\ Range(vq[s]) \subseteq Message
                       /\ \A x \in Range(vq[s]) : x.flat
                       /\ Range(wire[s]) \subseteq Message
    /\ pc \in {"idle", "count", "fanout", "send"}
    /\ snap \subseteq Locals
    /\ fp.k \in 0 .. Confirm
    /\ transport \in Transports /\ schema \in [Subs -> SchemaKinds]
    /\ transport = "socket" => \A s \in Subs : vq[s] = <<>>
    /\ subscribed \in BOOLEAN
    /\ n \in 0 .. MaxMsgs /\ moves \in 0 .. MaxMoves

(* No subscriber gets one message both through its queue and over the      *)
(* transport, or twice over either, however the topology moves between the *)
(* snapshot, the count and the push (publish_best_effort returns after the *)
(* fan-out).                                                               *)
GotOnce == ~twice

(* A message is handed to every subscriber that was counted throughout the *)
(* call and takes its type, whatever the topology does meanwhile, as long  *)
(* as the snapshot holds only subscribers that are counted too: then equal *)
(* numbers mean that all receivers are local (publish_best_effort).        *)
CountedAreReached == pc = "idle" /\ exact => owed \subseteq handed

(* The same without the condition, as docs/shm_nodelet.md 3.1 puts it: the *)
(* fast path is taken only when all receivers of the ring are local.       *)
AllLocalMeansAll == pc = "idle" => owed \subseteq handed

(* has_subscribed follows the topology once it rests (discovery_loop) *)
SubscribedFollows ==
    \A b \in BOOLEAN : <>[]((counted # {}) = b) => <>[](subscribed = b)
=============================================================================
