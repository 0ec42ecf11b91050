--------------------------- MODULE BroadcastRing ---------------------------
(***************************************************************************)
(* The shared-memory ring behind ipc::route: one producer, many consumers, *)
(* every consumer receives every message.                                  *)
(*                                                                         *)
(*   prod_cons.h  prod_cons_impl<wr<single, multi, broadcast>>             *)
(*   elem_def.h   conn_head<P, true>  (the connection bitmap cc_)          *)
(*   queue.h      queue_conn / queue_base  (connect, cursor_)              *)
(*   ipc.cpp      send, try_send, no_member_try_send, publish_loan         *)
(*                (which of push, force_push and push_sniffer is called)   *)
(*                                                                         *)
(* A step is one access to a shared atomic, or one copy of a slot.  Two    *)
(* adjacent accesses are one step only where no other thread can tell:     *)
(* push reads cc_ and then rc_, and a receiver that joins or leaves        *)
(* between the two might as well do so after both, for a joining one finds *)
(* nothing to read until wt_ moves; pop tests the write index and then     *)
(* reads rc_, and the write index only moves away from the cursor; the     *)
(* clearing loop of pop reads rc_, compares epochs and compare-exchanges   *)
(* the same value, so it succeeds exactly when the epoch is unchanged at   *)
(* the exchange (its two epoch tests are one for the same reason).         *)
(* compare_exchange_weak failing spuriously only repeats the load.         *)
(*                                                                         *)
(* A message is identified by the write index it was published at.  The    *)
(* 32-bit counters are unbounded here: 2^32 is a multiple of the ring's    *)
(* length and every use is index_of or a difference, so wrapping is not    *)
(* observable to a reader fewer than 2^32 messages behind.                 *)
(***************************************************************************)
EXTENDS Integers, Sequences, FiniteSets

CONSTANTS
  RingSlots,   \* kRingSlots: length of the ring (256 in the code)
  NBits,       \* width of cc_t: most receivers connected at once (32)
  Static,      \* receivers connected before the first send, for good
  Dynamic,     \* receivers that connect and disconnect as they like
  Ops,         \* the entry points the producer uses: send(), try_send(),
               \* no_member_try_send(), and loan() with publish_loan()
  MaxWt,       \* bound: messages published
  MaxEpoch     \* bound: epoch increments

Readers == Static \cup Dynamic
Bits    == 0 .. NBits - 1
Slots   == 0 .. RingSlots - 1
NoBit   == NBits               \* connected_ == 0
Torn    == -1                  \* a slot or a copy that mixes two messages
NoMsg   == -2                  \* a slot never written

ASSUME RingAssumption ==
  /\ RingSlots \in Nat \ {0}
  /\ NBits \in Nat \ {0}
  /\ MaxWt \in Nat
  /\ MaxEpoch \in Nat
  /\ Ops \subseteq {"send", "try_send", "no_member", "loan"}
  /\ Static \cap Dynamic = {}

VARIABLES
  cc,       \* conn_head_base::cc_, as the set of bits that are 1
  wt,       \* wt_
  epoch,    \* epoch_ (touched by the producer only)
  rc,       \* elem_t::rc_ of each slot: reader bits and epoch
  data,     \* elem_t::data_ of each slot: the message it holds
  wpc,      \* where the producer is
  wop,      \* the send entry point it is in
  wcc,      \* local cc
  wrc,      \* local cur_rc; its bits are rem_cc
  rpc,      \* where each receiver is
  conn,     \* queue_conn::connected_
  cursor,   \* queue_base::cursor_
  ep0,      \* local rc0, its epoch
  got,      \* the message f() copied out of the slot
  lag,      \* history: how far behind the producer pop was at rc0
  log       \* history: messages delivered since connect()

writerVars == <<wpc, wop, wcc, wrc>>
readerVars == <<rpc, conn, cursor, ep0, got, lag, log>>
vars == <<cc, wt, epoch, rc, data, writerVars, readerVars>>

index_of(c) == c % RingSlots

Rc == [bits : SUBSET Bits, ep : Nat]

WriterPC == {"idle", "begun", "load", "cas", "full", "fload", "fcas", "sniff", "prep", "write", "advance"}
ReaderPC == {"off", "joining", "idle", "loop", "copy", "clear"}
-----------------------------------------------------------------------------
Init ==
  /\ wt = 0
  /\ epoch = 0
  /\ rc = [i \in Slots |-> [bits |-> {}, ep |-> 0]]
  /\ data = [i \in Slots |-> NoMsg]
  /\ wpc = "idle"
  /\ wop \in Ops
  /\ wcc = {}
  /\ wrc = [bits |-> {}, ep |-> 0]
  /\ rpc = [r \in Readers |-> IF r \in Static THEN "idle" ELSE "off"]
  /\ conn \in [Readers -> Bits \cup {NoBit}]
  /\ \A r \in Readers : conn[r] \in Bits <=> r \in Static
  /\ \A r, s \in Static : conn[r] = conn[s] => r = s
  /\ cc = {conn[r] : r \in Static}
  /\ cursor = [r \in Readers |-> 0]
  /\ ep0 = [r \in Readers |-> 0]
  /\ got = [r \in Readers |-> NoMsg]
  /\ lag = [r \in Readers |-> 0]
  /\ log = [r \in Readers |-> << >>]
-----------------------------------------------------------------------------
(***************************************************************************)
(* Producer.                                                               *)
(***************************************************************************)

\* send(), try_send() and loan() fail when there is no receiver;
\* no_member_try_send() goes on.
SendStart(op) ==
  /\ wpc = "idle"
  /\ wt < MaxWt
  /\ op = "try_send" \/ epoch < MaxEpoch
  /\ cc # {} \/ op = "no_member"
  /\ wop' = op
  /\ wpc' = IF op \in {"no_member", "loan"} THEN "begun" ELSE "load"
  /\ UNCHANGED <<cc, wt, epoch, rc, data, wcc, wrc, readerVars>>

\* gen_push of no_member_try_send() reads cc_ once more to choose between
\* push() and push_sniffer().
GenPush ==
  /\ wpc = "begun" /\ wop = "no_member"
  /\ wpc' = IF cc = {} THEN "sniff" ELSE "load"
  /\ UNCHANGED <<cc, wt, epoch, rc, data, wop, wcc, wrc, readerVars>>

\* The owner of a loan publishes it or gives it back.
PublishLoan ==
  /\ wpc = "begun" /\ wop = "loan"
  /\ wpc' = "load"
  /\ UNCHANGED <<cc, wt, epoch, rc, data, wop, wcc, wrc, readerVars>>

DiscardLoan ==
  /\ wpc = "begun" /\ wop = "loan"
  /\ wpc' = "idle"
  /\ UNCHANGED <<cc, wt, epoch, rc, data, wop, wcc, wrc, readerVars>>

\* push() finds no receiver, or one that has not finished with the slot.
Full == \/ cc = {}
        \/ /\ cc \cap rc[index_of(wt)].bits # {}
           /\ rc[index_of(wt)].ep = epoch

PushLoad ==
  /\ wpc = "load"
  /\ \/ /\ Full
        /\ wpc' = "full"
        /\ UNCHANGED <<wcc, wrc>>
     \/ /\ ~Full
        /\ wpc' = "cas"
        /\ wcc' = cc
        /\ wrc' = rc[index_of(wt)]
  /\ UNCHANGED <<cc, wt, epoch, rc, data, wop, readerVars>>

\* rc_.compare_exchange(cur_rc, epoch_ | cc); otherwise start over.
ClaimSlot(retry) ==
  LET i == index_of(wt) IN
  /\ \/ /\ rc[i] = wrc
        /\ rc' = [rc EXCEPT ![i] = [bits |-> wcc, ep |-> epoch]]
        /\ wpc' = "prep"
     \/ /\ rc[i] # wrc
        /\ wpc' = retry
        /\ UNCHANGED rc
  /\ UNCHANGED <<cc, wt, epoch, data, wop, wcc, wrc, readerVars>>

PushCas == wpc = "cas" /\ ClaimSlot("load")

\* wait_for() evaluates its predicate, i.e. push(), again.
WaitRetry ==
  /\ wpc = "full"
  /\ wpc' = "load"
  /\ UNCHANGED <<cc, wt, epoch, rc, data, wop, wcc, wrc, readerVars>>

\* Mutant: force_push() does not raise the epoch.
WaitTimeout_SameEpoch ==
  /\ wpc = "full"
  /\ wpc' = IF wop = "try_send" THEN "idle" ELSE "fload"
  /\ UNCHANGED <<cc, wt, epoch, rc, data, wop, wcc, wrc, readerVars>>

\* wait_for() times out: try_send() gives up, the others force_push().
WaitTimeout ==
  /\ wpc = "full"
  /\ \/ /\ wop = "try_send"
        /\ wpc' = "idle"
        /\ UNCHANGED epoch
     \/ /\ wop # "try_send"
        /\ epoch' = epoch + 1
        /\ wpc' = "fload"
  /\ UNCHANGED <<cc, wt, rc, data, wop, wcc, wrc, readerVars>>

ForceLoad ==
  /\ wpc = "fload"
  /\ \/ /\ cc = {}
        /\ wpc' = "idle"
        /\ UNCHANGED <<wcc, wrc>>
     \/ /\ cc # {}
        /\ wpc' = "fcas"
        /\ wcc' = cc
        /\ wrc' = rc[index_of(wt)]
  /\ UNCHANGED <<cc, wt, epoch, rc, data, wop, readerVars>>

\* Mutant: force_push() evicts the receivers whose slot it takes.
ForceCas_Evicts ==
  /\ wpc = "fcas"
  /\ rc[index_of(wt)] = wrc
  /\ rc' = [rc EXCEPT ![index_of(wt)] = [bits |-> wcc, ep |-> epoch]]
  /\ cc' = cc \ wrc.bits
  /\ wpc' = "prep"
  /\ UNCHANGED <<wt, epoch, data, wop, wcc, wrc, readerVars>>

ForceCas == wpc = "fcas" /\ ClaimSlot("fload")

PushSniffer ==
  /\ wpc = "sniff"
  /\ epoch' = epoch + 1
  /\ rc' = [rc EXCEPT ![index_of(wt)] = [bits |-> {}, ep |-> epoch + 1]]
  /\ wrc' = [bits |-> {}, ep |-> epoch]
  /\ wpc' = "prep"
  /\ UNCHANGED <<cc, wt, data, wop, wcc, readerVars>>

\* f(&(el->data_), rem_cc): clear_message() looks at the old message, then
\* the new one is constructed in place, word by word.
WriteBegin ==
  /\ wpc = "prep"
  /\ data' = [data EXCEPT ![index_of(wt)] = Torn]
  /\ wpc' = "write"
  /\ UNCHANGED <<cc, wt, epoch, rc, wop, wcc, wrc, readerVars>>

WriteEnd ==
  /\ wpc = "write"
  /\ data' = [data EXCEPT ![index_of(wt)] = wt]
  /\ wpc' = "advance"
  /\ UNCHANGED <<cc, wt, epoch, rc, wop, wcc, wrc, readerVars>>

Advance ==
  /\ wpc = "advance"
  /\ wt' = wt + 1
  /\ wpc' = "idle"
  /\ UNCHANGED <<cc, epoch, rc, data, wop, wcc, wrc, readerVars>>

Writer ==
  \/ \E op \in Ops : SendStart(op)
  \/ GenPush \/ PublishLoan \/ DiscardLoan
  \/ PushLoad \/ PushCas \/ WaitRetry \/ WaitTimeout
  \/ ForceLoad \/ ForceCas \/ PushSniffer
  \/ WriteBegin \/ WriteEnd \/ Advance
-----------------------------------------------------------------------------
(***************************************************************************)
(* Receivers.                                                              *)
(***************************************************************************)

\* conn_head::connect() takes the lowest free bit; queue_conn::connect()
\* reads the write index only afterwards (ConnectCursor).
ConnectReceiver(r) ==
  /\ rpc[r] = "off"
  /\ \E b \in Bits \ cc :
       /\ \A x \in Bits \ cc : b <= x
       /\ cc' = cc \cup {b}
       /\ conn' = [conn EXCEPT ![r] = b]
  /\ rpc' = [rpc EXCEPT ![r] = "joining"]
  /\ UNCHANGED <<wt, epoch, rc, data, writerVars, cursor, ep0, got, lag, log>>

ConnectCursor(r) ==
  /\ rpc[r] = "joining"
  /\ cursor' = [cursor EXCEPT ![r] = wt]
  /\ log' = [log EXCEPT ![r] = << >>]
  /\ rpc' = [rpc EXCEPT ![r] = "idle"]
  /\ UNCHANGED <<cc, wt, epoch, rc, data, writerVars, conn, ep0, got, lag>>

Disconnect(r) ==
  /\ rpc[r] = "idle"
  /\ cc' = cc \ {conn[r]}
  /\ conn' = [conn EXCEPT ![r] = NoBit]
  /\ rpc' = [rpc EXCEPT ![r] = "off"]
  /\ UNCHANGED <<wt, epoch, rc, data, writerVars, cursor, ep0, got, lag, log>>

\* Mutant: a receiver exactly one ring behind already skips a message.
PopEnter_OffByOne(r) ==
  /\ rpc[r] = "idle"
  /\ cursor' = [cursor EXCEPT ![r] =
       IF wt - cursor[r] >= RingSlots THEN wt - RingSlots + 1 ELSE cursor[r]]
  /\ rpc' = [rpc EXCEPT ![r] = "loop"]
  /\ UNCHANGED <<cc, wt, epoch, rc, data, writerVars, conn, ep0, got, lag, log>>

\* pop() entry: a receiver more than one ring behind moves to the oldest
\* slot still in the ring.
PopEnter(r) ==
  /\ rpc[r] = "idle"
  /\ cursor' = [cursor EXCEPT
       ![r] = IF wt - cursor[r] > RingSlots THEN wt - RingSlots ELSE cursor[r]]
  /\ rpc' = [rpc EXCEPT ![r] = "loop"]
  /\ UNCHANGED <<cc, wt, epoch, rc, data, writerVars, conn, ep0, got, lag, log>>

PopEmpty(r) ==
  /\ rpc[r] = "loop"
  /\ cursor[r] = wt
  /\ rpc' = [rpc EXCEPT ![r] = "idle"]
  /\ UNCHANGED <<cc, wt, epoch, rc, data, writerVars, conn, cursor, ep0, got,
                 lag, log>>

\* Mutant: pop() does not compare its cursor with the write index.
PopLoad_NoEmptyTest(r) ==
  /\ rpc[r] = "loop"
  /\ cursor' = [cursor EXCEPT ![r] = @ + 1]
  /\ UNCHANGED <<cc, wt, epoch, rc, data, writerVars, rpc, conn, ep0, got, lag,
                 log>>

\* rc0 = el->rc_; a slot whose bit this receiver has already cleared is
\* skipped (check 1 of the code).
PopLoad(r) ==
  LET i == index_of(cursor[r]) IN
  /\ rpc[r] = "loop"
  /\ cursor[r] # wt
  /\ cursor' = [cursor EXCEPT ![r] = @ + 1]
  /\ \/ /\ conn[r] \notin rc[i].bits
        /\ UNCHANGED <<rpc, ep0, lag>>
     \/ /\ conn[r] \in rc[i].bits
        /\ rpc' = [rpc EXCEPT ![r] = "copy"]
        /\ ep0' = [ep0 EXCEPT ![r] = rc[i].ep]
        /\ lag' = [lag EXCEPT ![r] = wt - cursor[r]]
  /\ UNCHANGED <<cc, wt, epoch, rc, data, writerVars, conn, got, log>>

\* The slot pop() is working on.
PopSlot(r) == index_of(cursor[r] - 1)

PopCopy(r) ==
  /\ rpc[r] = "copy"
  /\ got' = [got EXCEPT ![r] = data[PopSlot(r)]]
  /\ rpc' = [rpc EXCEPT ![r] = "clear"]
  /\ UNCHANGED <<cc, wt, epoch, rc, data, writerVars, conn, cursor, ep0, lag,
                 log>>

\* The clearing loop would hand out the copy: the slot's epoch is the one
\* seen before the copy (checks 2 and 3 of the code).
Delivers(r) == rpc[r] = "clear" /\ rc[PopSlot(r)].ep = ep0[r]

PopDeliver(r) ==
  /\ Delivers(r)
  /\ rc' = [rc EXCEPT ![PopSlot(r)] =
                         [bits |-> @.bits \ {conn[r]}, ep |-> @.ep]]
  /\ log' = [log EXCEPT ![r] = Append(@, got[r])]
  /\ rpc' = [rpc EXCEPT ![r] = "idle"]
  /\ UNCHANGED <<cc, wt, epoch, data, writerVars, conn, cursor, ep0, got, lag>>

PopDiscard(r) ==
  /\ rpc[r] = "clear"
  /\ ~Delivers(r)
  /\ rpc' = [rpc EXCEPT ![r] = "loop"]
  /\ UNCHANGED <<cc, wt, epoch, rc, data, writerVars, conn, cursor, ep0, got,
                 lag, log>>

Pop(r) == \/ PopEnter(r) \/ PopEmpty(r) \/ PopLoad(r)
          \/ PopCopy(r) \/ PopDeliver(r) \/ PopDiscard(r)

Membership(r) == ConnectReceiver(r) \/ ConnectCursor(r) \/ Disconnect(r)
-----------------------------------------------------------------------------
Next == \/ Writer
        \/ \E r \in Readers : Pop(r)
        \/ \E r \in Dynamic : Membership(r)

Spec == Init /\ [][Next]_vars

\* Inside a send the producer never blocks for ever: a step that is enabled
\* is taken, and the wait_for() of a finite timeout ends.  SF because the
\* predicate is evaluated again and again before the timeout.
WriterFairness ==
  /\ WF_vars(Writer /\ wpc # "idle")
  /\ SF_vars(WaitTimeout)

\* Receivers whose loop keeps calling recv().
ReaderFairness == \A r \in Readers : WF_vars(Pop(r))

FairSpec == Spec /\ WriterFairness /\ ReaderFairness
-----------------------------------------------------------------------------
(***************************************************************************)
(* Properties.                                                             *)
(***************************************************************************)

\* Every variable keeps its type; a receiver is never ahead of the producer.
TypeOK ==
  /\ cc \subseteq Bits
  /\ wt \in Nat
  /\ epoch \in Nat
  /\ rc \in [Slots -> Rc]
  /\ data \in [Slots -> Int]
  /\ wpc \in WriterPC
  /\ wop \in Ops
  /\ wcc \subseteq Bits
  /\ wrc \in Rc
  /\ rpc \in [Readers -> ReaderPC]
  /\ conn \in [Readers -> Bits \cup {NoBit}]
  /\ cursor \in [Readers -> Nat]
  /\ ep0 \in [Readers -> Nat]
  /\ got \in [Readers -> Int]
  /\ lag \in [Readers -> Int]
  /\ log \in [Readers -> Seq(Int)]
  /\ \A r \in Readers : cursor[r] <= wt

\* A receiver that was less than a full ring behind when pop() read rc_ hands
\* out exactly the message at its cursor, complete, whatever the producer
\* overwrites meanwhile with push, force_push or push_sniffer, and whoever
\* joins or leaves.
IntactWithinLap ==
  \A r \in Readers :
    Delivers(r) /\ lag[r] < RingSlots => got[r] = cursor[r] - 1

\* A receiver stays in the connection bitmap, on a bit of its own, until it
\* disconnects itself: overwriting its slot only costs it messages
\* (force_push used to evict it).
ConnectedStay ==
  \A r \in Readers : rpc[r] # "off" =>
    /\ conn[r] \in cc
    /\ \A s \in Readers : rpc[s] # "off" /\ conn[s] = conn[r] => s = r

\* pop() copies a slot only between two readings of the same epoch, which is
\* meant to exclude a copy that mixes two messages.
NoTornDelivery == \A r \in Readers : Delivers(r) => got[r] # Torn
=============================================================================
