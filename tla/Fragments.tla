----------------------------- MODULE Fragments -----------------------------
(***************************************************************************)
(* Messages without a chunk (libipc/ipc.cpp): send cuts them into pieces   *)
(* of data_length bytes, recv puts them together again in recv_cache(), by *)
(* message id.                                                             *)
(*                                                                         *)
(* One receiver of one route or channel; a channel has several writers,    *)
(* whose fragments mix.  Its ring is the sequence of the fragments it has  *)
(* not read.  On a full ring try_send fails; send and no_member_try_send   *)
(* overwrite the oldest fragment of a route (force_push), and the receiver *)
(* goes on behind it.  A receiver of a channel that is overwritten reads   *)
(* nothing any more (ChannelRing), so there only the failure is modelled.  *)
(***************************************************************************)
EXTENDS Integers, Sequences, FiniteSets

CONSTANTS
  Writers,     \* writers of a channel
  Sizes,       \* sizes of messages, in fragments
  NMsgs,       \* bound: messages sent
  RingSlots,   \* bound: slots of the ring (256)
  MaxCache,    \* 1024: more unfinished messages than that are looked through
  MaxAge,      \* 8192: and those whose id is further away than that are dropped
  MaxRestarts  \* bound: times the storage is cleared and made again

VARIABLES
  kind,       \* route: one writer; channel: several
  ring,       \* fragments not yet read
  acc,        \* AC_CONN__: the next message id
  sending,    \* the send under way at each writer
  nsent,      \* messages begun
  cache,      \* recv_cache(): message id -> [size, parts]
  delivered,  \* history: what recv returned, and the fragment that ended it
  cut,        \* history: messages with an overwritten or collected fragment
  reused,     \* history: messages whose id was still in the cache
  restarts

vars == <<kind, ring, acc, sending, nsent, cache, delivered, cut, reused, restarts>>

Idle == [msg |-> 0, part |-> 0, size |-> 0, id |-> 0]
Part(m, i) == <<m, i>>
WholeOf(m, n) == [i \in 1..n |-> Part(m, i)]

Init ==
  /\ kind \in {"route", "channel"}
  /\ ring = <<>>
  /\ acc = 0
  /\ sending = [w \in Writers |-> Idle]
  /\ nsent = 0
  /\ cache = [i \in {} |-> {}]
  /\ delivered = {}
  /\ cut = {}
  /\ reused = {}
  /\ restarts = 0
-----------------------------------------------------------------------------
MayBegin(w) ==
  /\ nsent < NMsgs /\ sending[w] = Idle
  /\ kind = "route" => \A v \in Writers : sending[v] = Idle

(* send: the next message gets the next id. *)
Begun(w, size) ==
  /\ nsent' = nsent + 1
  /\ sending' = [sending EXCEPT ![w] = [msg |-> nsent + 1, part |-> 1, size |-> size,
                                        id |-> acc]]
  /\ reused' = reused \cup (IF acc \in DOMAIN cache THEN {nsent + 1} ELSE {})

(* Mutant: the id is not counted up. *)
SendBeginSameId(w, size) ==
  /\ MayBegin(w)
  /\ Begun(w, size)
  /\ UNCHANGED <<kind, ring, acc, cache, delivered, cut, restarts>>

SendBegin(w, size) ==
  /\ MayBegin(w)
  /\ Begun(w, size)
  /\ acc' = acc + 1
  /\ UNCHANGED <<kind, ring, cache, delivered, cut, restarts>>

(* What is left of the message, this fragment included. *)
FragmentOf(s) == [id |-> s.id, left |-> s.size - s.part + 1, part |-> Part(s.msg, s.part)]

Full == Len(ring) = RingSlots

(* A failed push ends the message; its first fragments are on the ring. *)
PushFails(w) ==
  /\ sending[w] # Idle /\ Full
  /\ sending' = [sending EXCEPT ![w] = Idle]
  /\ UNCHANGED <<kind, ring, acc, nsent, cache, delivered, cut, reused, restarts>>

PushFragment(w) ==
  LET s == sending[w]
      room == IF Full THEN Tail(ring) ELSE ring
  IN /\ s # Idle
     /\ Full => kind = "route"
     /\ ring' = Append(room, FragmentOf(s))
     /\ cut' = cut \cup (IF Full THEN {Head(ring).part[1]} ELSE {})
     /\ sending' = [sending EXCEPT ![w] = IF s.part = s.size THEN Idle
                                                             ELSE [s EXCEPT !.part = @ + 1]]
     /\ UNCHANGED <<kind, acc, nsent, cache, delivered, reused, restarts>>
-----------------------------------------------------------------------------
Distance(i, j) == IF i > j THEN i - j ELSE j - i

(* gc: only when there are many, and only those far away. *)
Collected(id) ==
  IF Cardinality(DOMAIN cache) > MaxCache
    THEN {i \in DOMAIN cache : Distance(id, i) > MaxAge} ELSE {}

With(f, id, v) == [i \in DOMAIN f \cup {id} |-> IF i = id THEN v ELSE f[i]]
Without(f, ids) == [i \in DOMAIN f \ ids |-> f[i]]

(* cache_t::append: never beyond the size of the buffer. *)
Appended(e, part) ==
  [e EXCEPT !.parts = IF Len(@) >= e.size THEN @ ELSE Append(@, part)]

Returned(f, parts) == delivered' = delivered \cup {[last |-> f.part, parts |-> parts]}

(* A fragment nothing is cached for is the only one of its message if no   *)
(* more than one is left, and the first one otherwise. *)
RecvFirst(f) ==
  LET gone == Collected(f.id) IN
  /\ f.id \notin DOMAIN cache
  /\ \/ /\ f.left = 1
        /\ Returned(f, <<f.part>>)
        /\ UNCHANGED <<cache, cut>>
     \/ /\ f.left # 1
        /\ cache' = With(Without(cache, gone), f.id, [size |-> f.left, parts |-> <<f.part>>])
        /\ cut' = cut \cup {cache[i].parts[1][1] : i \in gone}
        /\ UNCHANGED delivered

RecvNext(f) ==
  /\ f.id \in DOMAIN cache
  /\ LET e == Appended(cache[f.id], f.part) IN
     \/ f.left = 1 /\ Returned(f, e.parts) /\ cache' = Without(cache, {f.id})
     \/ f.left # 1 /\ cache' = With(cache, f.id, e) /\ UNCHANGED delivered
  /\ UNCHANGED cut

Recv ==
  /\ ring # <<>>
  /\ ring' = Tail(ring)
  /\ RecvFirst(Head(ring)) \/ RecvNext(Head(ring))
  /\ UNCHANGED <<kind, acc, sending, nsent, reused, restarts>>

(* A new owner clears the storage: an empty ring, ids from 0, the writers  *)
(* of before are gone.  release() of the reader's handle clears the cache  *)
(* of the thread that calls it, which is not the thread that receives. *)
Restart ==
  /\ restarts < MaxRestarts
  /\ restarts' = restarts + 1
  /\ ring' = <<>>
  /\ acc' = 0
  /\ sending' = [w \in Writers |-> Idle]
  /\ UNCHANGED <<kind, nsent, cache, delivered, cut, reused>>

Next ==
  \/ \E w \in Writers, n \in Sizes : SendBegin(w, n)
  \/ \E w \in Writers : PushFragment(w) \/ PushFails(w)
  \/ Recv \/ Restart

Spec == Init /\ [][Next]_vars
-----------------------------------------------------------------------------
(***************************************************************************)
(* Properties.                                                             *)
(***************************************************************************)
OfOne(parts, m) == \A i \in DOMAIN parts : parts[i][1] = m
Ascending(parts) == \A i, j \in DOMAIN parts : i < j => parts[i][2] < parts[j][2]

(* What recv returns are fragments of one message in their order, unless   *)
(* an unfinished message from before a restart was cached under its id;    *)
(* and they are all of them, unless one was overwritten on the ring or     *)
(* collected from the cache while the rest was on its way. *)
WholeMessages ==
  \A d \in delivered :
    LET m == d.last[1] IN
    m \notin reused =>
      /\ OfOne(d.parts, m) /\ Ascending(d.parts)
      /\ m \notin cut => d.parts = WholeOf(m, d.last[2])
============================================================================
