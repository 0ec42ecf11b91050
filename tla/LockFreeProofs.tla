--------------------------- MODULE LockFreeProofs ---------------------------
(***************************************************************************)
(* The rings, for every number of threads and every size of the ring, and  *)
(* the reader-writer lock.                                                 *)
(*                                                                         *)
(* ChannelRing: while no send runs out of time and nobody joins, two       *)
(* producers never write one element, and no receiver reads an element     *)
(* that is being written or one message twice.                             *)
(*                                                                         *)
(* UnicastRing: consumers get the elements once each, whole and in order,  *)
(* unless a send of ss ran out of time.                                    *)
(*                                                                         *)
(* CircularQueue: an element taken is the one pushed for its position, and *)
(* the ends stay in order within the capacity, of two cells or more.       *)
(*                                                                         *)
(* RwLock: a writer is alone.                                              *)
(***************************************************************************)
EXTENDS LockFree, FiniteSetTheorems, SequenceTheorems, TLAPS
-----------------------------------------------------------------------------
(***************************************************************************)
(* The ring with many producers.                                           *)
(***************************************************************************)

Flag == [k : {"zero", "holds", "free"}, i : Nat]
Element == [data : Nat, rem : SUBSET Receivers, ep : Nat, ic : Nat, flag : Flag]
Look == [ct : Nat, cc : SUBSET Receivers, el : Element, ep : Nat, m : Nat, forced : BOOLEAN]

\* The types; a receiver inside pop is connected and has moved its cursor on.
Types ==
    /\ ct \in Nat /\ epoch \in Nat /\ next \in Nat \ {0}
    /\ forces \in Nat
    /\ el \in [Slots -> Element]
    /\ cc \subseteq Receivers
    /\ pc \in [Producers -> {"idle", "push", "force", "try", "tryForce", "won", "write"}]
    /\ at \in [Producers -> Look]
    /\ cursor \in [Receivers -> Nat]
    /\ rpc \in [Receivers -> {"idle", "count", "exchange"}]
    /\ buff \in [Receivers -> Nat]
    /\ got \in [Receivers -> Seq(Nat)]
    /\ \A r \in Receivers : rpc[r] # "idle" => r \in cc /\ cursor[r] # 0

\* The producers and receivers at work on an element
Writes(p, s) == pc[p] \in {"won", "write"} /\ Slot(at[p].ct) = s
Reads(r, s) == rpc[r] # "idle" /\ Slot(cursor[r] - 1) = s

\* No epoch has begun but the first.
FirstEpoch ==
    /\ epoch = 0
    /\ \A s \in Slots : el[s].ep = 0
    /\ \A p \in Producers : /\ pc[p] \notin {"force", "tryForce"}
                            /\ at[p].ep = 0 /\ at[p].el.ep = 0 /\ ~at[p].forced

\* A producer that may still win the element it looked at: rc_ is as it was, and
\* nobody it counts is missing.
MayWin(p) ==
    /\ pc[p] = "try"
    /\ at[p].el.ic = el[Slot(at[p].ct)].ic
    /\ at[p].cc \cap at[p].el.rem = {}

\* What a producer saw: every receiver of now; an element whose number is the same
\* is the same; and if it may win, the element is the one at ct_ and free.
LookOK ==
    \A p \in Producers :
        LET s == Slot(at[p].ct) IN
        /\ pc[p] \in {"try", "won", "write"} => cc \subseteq at[p].cc
        /\ pc[p] = "try" => /\ at[p].el.ic <= el[s].ic
                            /\ at[p].el.ic = el[s].ic => at[p].el.rem = el[s].rem
        /\ MayWin(p) => at[p].ct = ct /\ \A q \in Producers : ~Writes(q, s)

\* An element is written by one producer, for every receiver, at ct_ when it was won.
WriteOK ==
    \A p \in Producers : \A s \in Slots :
        Writes(p, s) => /\ cc \subseteq el[s].rem
                        /\ pc[p] = "won" => at[p].ct = ct
                        /\ \A q \in Producers : q # p => ~Writes(q, s)

\* An element that is read is waited for, not written, and holds the message of the
\* reader or is free for the message a ring later.
ReadOK ==
    \A r \in Receivers : \A s \in Slots :
        Reads(r, s) => /\ r \in el[s].rem
                       /\ \A p \in Producers : ~Writes(p, s)
                       /\ el[s].flag \in {Holds(cursor[r] - 1), FreeFor(cursor[r] - 1 + N)}

\* So is one that is still to be read.
UnreadOK ==
    \A r \in cc : \A s \in Slots :
        el[s].flag.k = "holds" /\ cursor[r] <= el[s].flag.i =>
            r \in el[s].rem /\ \A p \in Producers : ~Writes(p, s)

\* An element whose flag says so holds a message, unless it is being written again.
WholeOK ==
    \A s \in Slots :
        el[s].flag.k = "holds" /\ el[s].data = Torn =>
            \E p \in Producers : pc[p] = "write" /\ Slot(at[p].ct) = s

\* A message is in one place: with its producer, in an element, and with those that
\* got it, which are behind the element.
PlaceOK ==
    /\ \A p \in Producers : pc[p] # "idle" =>
          /\ at[p].m \in 1 .. (next - 1)
          /\ \A q \in Producers : q # p /\ pc[q] # "idle" => at[q].m # at[p].m
          /\ \A s \in Slots : el[s].data # at[p].m
          /\ \A r \in Receivers : at[p].m \notin Messages(r)
    /\ \A s \in Slots :
          /\ el[s].data < next
          /\ \A u \in Slots : u # s /\ el[u].data = el[s].data => el[s].data = Torn
          /\ \A r \in Receivers :
                el[s].data \in Messages(r) /\ el[s].flag.k = "holds" => el[s].flag.i < cursor[r]
    /\ \A r \in Receivers : Messages(r) \subseteq 1 .. (next - 1)

\* And was got once.
GotOK ==
    \A r \in Receivers : /\ IsFiniteSet(Messages(r))
                         /\ Cardinality(Messages(r)) = Len(got[r])

Quiet == forces = 0 /\ ~joined

RingOK == FirstEpoch /\ LookOK /\ WriteOK /\ ReadOK /\ UnreadOK
MessageOK == WholeOK /\ PlaceOK /\ GotOK

Inv == Types /\ (Quiet => ~clash /\ RingOK /\ MessageOK)

-----------------------------------------------------------------------------
(* The elements *)

\* Every index has a slot.
LEMMA SlotType == \A i \in Int : Slot(i) \in Slots
BY ChannelAssumption DEF Slot, Slots

\* The compare-and-exchange that succeeds: rc_ is as it was read, and then names
\* the claim; its number moves on.
LEMMA ExchangeEffect ==
    ASSUME Types, NEW p \in Producers, Exchange(p), NEW s, s = Slot(at[p].ct)
    PROVE  /\ s \in Slots /\ el' \in [Slots -> Element]
           /\ at[p].el.rem = el[s].rem /\ at[p].el.ic = el[s].ic
           /\ \A u \in Slots : u # s => el'[u] = el[u]
           /\ el'[s].data = el[s].data /\ el'[s].flag = el[s].flag
           /\ el'[s].rem = at[p].cc /\ el'[s].ep = at[p].ep /\ el'[s].ic = el[s].ic + 1
<1>1. at[p] \in Look /\ s \in Slots
  BY SlotType DEF Types, Look
<1>2. el[s] \in Element /\ el \in [Slots -> Element]
  BY <1>1 DEF Types
<1> DEFINE v == Claimed(el[s], at[p])
<1>3. /\ v \in Element
      /\ v.data = el[s].data /\ v.flag = el[s].flag
      /\ v.rem = at[p].cc /\ v.ep = at[p].ep /\ v.ic = el[s].ic + 1
  <2>1. el[s].ic + 1 \in Nat /\ at[p].cc \in SUBSET Receivers /\ at[p].ep \in Nat
    BY <1>1, <1>2 DEF Element, Look
  <2> QED
    BY <1>2, <2>1 DEF Claimed, Element
<1>4. /\ at[p].el.rem = el[s].rem /\ at[p].el.ic = el[s].ic
      /\ el' = [el EXCEPT ![s] = v]
  BY DEF Exchange
<1> HIDE DEF v
<1>5. /\ el' \in [Slots -> Element] /\ el'[s] = v
      /\ \A u \in Slots : u # s => el'[u] = el[u]
  BY <1>1, <1>2, <1>3, <1>4
<1> QED
  BY <1>1, <1>3, <1>4, <1>5

\* ct_ moves on, the element is torn.
LEMMA AdvanceEffect ==
    ASSUME Types, NEW p \in Producers, Advance(p), NEW s, s = Slot(at[p].ct)
    PROVE  /\ s \in Slots /\ el' \in [Slots -> Element]
           /\ \A u \in Slots : u # s => el'[u] = el[u]
           /\ el'[s].data = Torn /\ el'[s].flag = el[s].flag
           /\ el'[s].rem = el[s].rem /\ el'[s].ep = el[s].ep /\ el'[s].ic = el[s].ic
<1>1. at[p] \in Look /\ s \in Slots
  BY SlotType DEF Types, Look
<1>2. el[s] \in Element /\ el \in [Slots -> Element]
  BY <1>1 DEF Types
<1> DEFINE v == [el[s] EXCEPT !.data = Torn]
<1>3. /\ v \in Element
      /\ v.data = Torn /\ v.flag = el[s].flag
      /\ v.rem = el[s].rem /\ v.ep = el[s].ep /\ v.ic = el[s].ic
  BY <1>2 DEF Element, Torn
<1>4. el' = [el EXCEPT ![s] = v]
  BY DEF Advance
<1> HIDE DEF v
<1>5. /\ el' \in [Slots -> Element] /\ el'[s] = v
      /\ \A u \in Slots : u # s => el'[u] = el[u]
  BY <1>1, <1>2, <1>3, <1>4
<1> QED
  BY <1>1, <1>3, <1>5

\* The element holds the message.
LEMMA CommitEffect ==
    ASSUME Types, NEW p \in Producers, Commit(p), NEW s, s = Slot(at[p].ct)
    PROVE  /\ s \in Slots /\ el' \in [Slots -> Element]
           /\ \A u \in Slots : u # s => el'[u] = el[u]
           /\ el'[s].data = at[p].m /\ el'[s].flag = Holds(at[p].ct)
           /\ el'[s].rem = el[s].rem /\ el'[s].ep = el[s].ep /\ el'[s].ic = el[s].ic
<1>1. at[p] \in Look /\ s \in Slots
  BY SlotType DEF Types, Look
<1>2. el[s] \in Element /\ el \in [Slots -> Element]
  BY <1>1 DEF Types
<1>3. Holds(at[p].ct) \in Flag
  BY <1>1 DEF Holds, Flag, Look
<1> DEFINE v == Written(el[s], at[p])
<1>4. /\ v \in Element
      /\ v.data = at[p].m /\ v.flag = Holds(at[p].ct)
      /\ v.rem = el[s].rem /\ v.ep = el[s].ep /\ v.ic = el[s].ic
  BY <1>1, <1>2, <1>3 DEF Written, Element, Look
<1>5. el' = [el EXCEPT ![s] = v]
  BY DEF Commit
<1> HIDE DEF v
<1>6. /\ el' \in [Slots -> Element] /\ el'[s] = v
      /\ \A u \in Slots : u # s => el'[u] = el[u]
  BY <1>1, <1>2, <1>4, <1>5
<1> QED
  BY <1>1, <1>4, <1>6

\* The last reader frees the element.
LEMMA CountEffect ==
    ASSUME Types, NEW r \in Receivers, PopCount(r), NEW s, s = Slot(cursor[r] - 1)
    PROVE  /\ s \in Slots /\ el' \in [Slots -> Element]
           /\ \A u \in Slots : u # s => el'[u] = el[u]
           /\ el'[s].data = el[s].data /\ el'[s].rem = el[s].rem
           /\ el'[s].ep = el[s].ep /\ el'[s].ic = el[s].ic
           /\ \/ el'[s].flag = el[s].flag
              \/ el[s].rem \subseteq {r} /\ el'[s].flag = FreeFor(cursor[r] - 1 + N)
<1>1. cursor[r] \in Nat \ {0} /\ s \in Slots
  BY SlotType DEF Types, PopCount
<1>2. el[s] \in Element /\ el \in [Slots -> Element]
  BY <1>1 DEF Types
<1>3. FreeFor(cursor[r] - 1 + N) \in Flag
  BY <1>1, ChannelAssumption DEF FreeFor, Flag
<1> DEFINE v == [el[s] EXCEPT !.flag = FreeFor(cursor[r] - 1 + N)]
<1>4. /\ v \in Element
      /\ v.flag = FreeFor(cursor[r] - 1 + N) /\ v.data = el[s].data
      /\ v.rem = el[s].rem /\ v.ep = el[s].ep /\ v.ic = el[s].ic
  BY <1>2, <1>3 DEF Element
<1>5. el' = el \/ (el[s].rem \subseteq {r} /\ el' = [el EXCEPT ![s] = v])
  BY DEF PopCount
<1> HIDE DEF v
<1>6. CASE el' = el
  BY <1>1, <1>2, <1>6
<1>7. CASE el[s].rem \subseteq {r} /\ el' = [el EXCEPT ![s] = v]
  <2>1. /\ el' \in [Slots -> Element] /\ el'[s] = v
        /\ \A u \in Slots : u # s => el'[u] = el[u]
    BY <1>1, <1>2, <1>4, <1>7
  <2> QED
    BY <1>1, <1>4, <1>7, <2>1
<1> QED
  BY <1>5, <1>6, <1>7

\* A reader takes its bit out.
LEMMA TakeOutEffect ==
    ASSUME Types, NEW r \in Receivers, PopTakeOut(r), NEW s, s = Slot(cursor[r] - 1)
    PROVE  /\ s \in Slots /\ el' \in [Slots -> Element]
           /\ \A u \in Slots : u # s => el'[u] = el[u]
           /\ el'[s].data = el[s].data /\ el'[s].flag = el[s].flag /\ el'[s].ep = el[s].ep
           /\ \/ el' = el /\ rpc' = [rpc EXCEPT ![r] = "count"]
              \/ /\ el'[s].rem = el[s].rem \ {r} /\ el'[s].ic = el[s].ic + 1
                 /\ rpc' = [rpc EXCEPT ![r] = "idle"]
<1>1. cursor[r] \in Nat \ {0} /\ s \in Slots
  BY SlotType DEF Types, PopTakeOut
<1>2. el[s] \in Element /\ el \in [Slots -> Element]
  BY <1>1 DEF Types
<1> DEFINE v == TakenOut(el[s], r)
<1>3. /\ v \in Element
      /\ v.data = el[s].data /\ v.flag = el[s].flag /\ v.ep = el[s].ep
      /\ v.rem = el[s].rem \ {r} /\ v.ic = el[s].ic + 1
  <2>1. el[s].ic + 1 \in Nat /\ el[s].rem \ {r} \in SUBSET Receivers
    BY <1>2 DEF Element
  <2> QED
    BY <1>2, <2>1 DEF TakenOut, Element
<1>4. \/ el' = el /\ rpc' = [rpc EXCEPT ![r] = "count"]
      \/ el' = [el EXCEPT ![s] = v] /\ rpc' = [rpc EXCEPT ![r] = "idle"]
  BY DEF PopTakeOut
<1> HIDE DEF v
<1>5. CASE el' = el /\ rpc' = [rpc EXCEPT ![r] = "count"]
  BY <1>1, <1>2, <1>5
<1>6. CASE el' = [el EXCEPT ![s] = v] /\ rpc' = [rpc EXCEPT ![r] = "idle"]
  <2>1. /\ el' \in [Slots -> Element] /\ el'[s] = v
        /\ \A u \in Slots : u # s => el'[u] = el[u]
    BY <1>1, <1>2, <1>3, <1>6
  <2> QED
    BY <1>1, <1>3, <1>6, <2>1
<1> QED
  BY <1>4, <1>5, <1>6

-----------------------------------------------------------------------------
(* Types *)

LEMMA InitTypes == Init => Types
<1> SUFFICES ASSUME Init PROVE Types
  OBVIOUS
<1>1. Fresh \in Element
  BY DEF Fresh, Element, Torn, NoFlag, Flag
<1>2. NoLook \in Look
  BY <1>1 DEF NoLook, Look
<1>3. <<>> \in Seq(Nat)
  OBVIOUS
<1> QED
  BY <1>1, <1>2, <1>3 DEF Init, Types, Torn

\* A producer's steps.
LEMMA ProducerTypes ==
    ASSUME Types, NEW p \in Producers, PushBegin(p) \/ ForceBegin(p) \/ Produce(p)
    PROVE  Types'
<1> USE DEF Types
<1>1. at[p] \in Look /\ Slot(at[p].ct) \in Slots /\ Slot(ct) \in Slots
  BY SlotType DEF Look
<1>2. NoLook \in Look /\ NoLook.el \in Element
  BY DEF NoLook, Fresh, Look, Element, Torn, NoFlag, Flag
<1>3. CASE PushBegin(p)
  <2>1. [NoLook EXCEPT !.ep = epoch, !.m = next] \in Look
    BY <1>2 DEF Look, NoLook
  <2>2. at' \in [Producers -> Look]
        /\ pc' \in [Producers -> {"idle", "push", "force", "try", "tryForce", "won", "write"}]
    BY <1>3, <2>1 DEF PushBegin
  <2> QED
    BY <1>3, <2>2 DEF PushBegin, ringVars, readVars, history
<1>4. CASE ForceBegin(p)
  <2>1. [NoLook EXCEPT !.ep = epoch', !.m = next, !.forced = TRUE] \in Look
    <3>1. epoch' \in Nat
      BY <1>4 DEF ForceBegin
    <3> QED
      BY <1>2, <3>1 DEF Look, NoLook
  <2>2. at' \in [Producers -> Look]
        /\ pc' \in [Producers -> {"idle", "push", "force", "try", "tryForce", "won", "write"}]
    BY <1>4, <2>1 DEF ForceBegin
  <2> QED
    BY <1>4, <2>2 DEF ForceBegin, readVars, history
<1>5. CASE Load(p)
  <2>1. [at[p] EXCEPT !.ct = ct, !.cc = cc, !.el = el[Slot(ct)]] \in Look
    BY <1>1 DEF Look
  <2>2. at' \in [Producers -> Look]
    BY <1>2, <1>5, <2>1 DEF Load, Done
  <2>3. pc' \in [Producers -> {"idle", "push", "force", "try", "tryForce", "won", "write"}]
    BY <1>5 DEF Load, Done
  <2> QED
    BY <1>5, <2>2, <2>3 DEF Load, ringVars, readVars, history
<1>6. CASE PushFull(p)
  <2>1. epoch' \in Nat
    BY <1>6 DEF PushFull
  <2>2. [at[p] EXCEPT !.ep = epoch'] \in Look
    BY <1>1, <2>1 DEF Look
  <2>3. at' \in [Producers -> Look]
        /\ pc' \in [Producers -> {"idle", "push", "force", "try", "tryForce", "won", "write"}]
    BY <1>2, <1>6, <2>2 DEF PushFull, Done
  <2> QED
    BY <1>6, <2>1, <2>3 DEF PushFull, readVars, history
<1>7. CASE PushClaim(p) \/ ForceClaim(p)
  <2>1. Exchange(p)
    BY <1>7 DEF PushClaim, ForceClaim
  <2>2. el' \in [Slots -> Element]
    BY <2>1, ExchangeEffect
  <2>3. [at[p] EXCEPT !.ep = epoch] \in Look
    BY <1>1 DEF Look
  <2>4. at' \in [Producers -> Look]
        /\ pc' \in [Producers -> {"idle", "push", "force", "try", "tryForce", "won", "write"}]
    BY <1>7, <2>3 DEF PushClaim, ForceClaim
  <2> QED
    BY <1>7, <2>2, <2>4 DEF PushClaim, ForceClaim, readVars, history
<1>8. CASE Retry(p)
  BY <1>8 DEF Retry, ringVars, readVars, history
<1>9. CASE Advance(p)
  <2>1. el' \in [Slots -> Element]
    BY <1>9, AdvanceEffect
  <2>2. ct' \in Nat
    BY <1>1, <1>9 DEF Advance, Look
  <2> QED
    BY <1>9, <2>1, <2>2 DEF Advance, readVars
<1>10. CASE Commit(p)
  <2>1. el' \in [Slots -> Element]
    BY <1>10, CommitEffect
  <2> QED
    BY <1>2, <1>10, <2>1 DEF Commit, Done, readVars
<1> QED
  BY <1>3, <1>4, <1>5, <1>6, <1>7, <1>8, <1>9, <1>10 DEF Produce

\* A receiver's.
LEMMA ReceiverTypes ==
    ASSUME Types, NEW r \in Receivers, Pop(r) \/ Connect(r) \/ Disconnect(r)
    PROVE  Types'
<1> USE DEF Types
<1>1. CASE PopRead(r)
  <2>1. el[Slot(cursor[r])].data \in Nat
    BY SlotType DEF Element
  <2>2. Append(got[r], el[Slot(cursor[r])].data) \in Seq(Nat)
    BY <2>1
  <2> QED
    BY <1>1, <2>2 DEF PopRead, ringVars, history
<1>2. CASE PopCount(r)
  <2>1. el' \in [Slots -> Element]
    BY <1>2, CountEffect
  <2>2. buff' \in [Receivers -> Nat]
    BY <1>2, CountEffect, SlotType DEF PopCount, Element
  <2> QED
    BY <1>2, <2>1, <2>2 DEF PopCount, history
<1>3. CASE PopTakeOut(r)
  <2>1. el' \in [Slots -> Element]
    BY <1>3, TakeOutEffect
  <2> QED
    BY <1>3, <2>1 DEF PopTakeOut, history
<1>4. CASE Connect(r)
  <2>1. <<>> \in Seq(Nat)
    OBVIOUS
  <2> QED
    BY <1>4, <2>1 DEF Connect, ringVars
<1>5. CASE Disconnect(r)
  BY <1>5 DEF Disconnect, ringVars, readVars, history
<1> QED
  BY <1>1, <1>2, <1>3, <1>4, <1>5 DEF Pop

LEMMA NextTypes == Types /\ [Next]_vars => Types'
<1> SUFFICES ASSUME Types, [Next]_vars PROVE Types'
  OBVIOUS
<1>1. CASE UNCHANGED vars
  BY <1>1 DEF Types, vars, ringVars, readVars, history
<1> QED
  BY <1>1, ProducerTypes, ReceiverTypes DEF Next
-----------------------------------------------------------------------------
(* The ring *)

LEMMA InitRing == Init => RingOK
<1> SUFFICES ASSUME Init PROVE RingOK
  OBVIOUS
<1>1. \A p \in Producers : pc[p] = "idle" /\ at[p] = NoLook
  BY DEF Init
<1>2. \A r \in Receivers : rpc[r] = "idle"
  BY DEF Init
<1>3. \A s \in Slots : el[s] = Fresh
  BY DEF Init
<1>4. Fresh.ep = 0 /\ Fresh.flag.k = "zero"
  BY DEF Fresh, NoFlag
<1>5. NoLook.ep = 0 /\ NoLook.el.ep = 0 /\ ~NoLook.forced
  BY DEF NoLook, Fresh
<1>6. FirstEpoch
  BY <1>1, <1>3, <1>4, <1>5 DEF FirstEpoch, Init
<1>7. LookOK /\ WriteOK
  BY <1>1 DEF LookOK, WriteOK, MayWin, Writes
<1>8. ReadOK
  BY <1>2 DEF ReadOK, Reads
<1>9. UnreadOK
  BY <1>3, <1>4 DEF UnreadOK
<1> QED
  BY <1>6, <1>7, <1>8, <1>9 DEF RingOK

\* A producer that is not, or no longer, before its exchange or behind it.
LEMMA BackRing ==
    ASSUME Types, RingOK, NEW p \in Producers,
           UNCHANGED <<ct, epoch, el, cc, cursor, rpc>>,
           pc[p] \notin {"won", "write"}, pc'[p] \in {"idle", "push"},
           at'[p].ep = 0, at'[p].el.ep = 0, ~at'[p].forced,
           \A q \in Producers \ {p} : pc'[q] = pc[q] /\ at'[q] = at[q]
    PROVE  RingOK'
<1>1. FirstEpoch'
  BY DEF RingOK, FirstEpoch
<1>2. \A q \in Producers : \A s \in Slots : Writes(q, s)' <=> Writes(q, s)
  BY DEF Writes
<1>3. \A q \in Producers : MayWin(q)' => MayWin(q) /\ q # p
  BY DEF MayWin
<1>4. LookOK'
  <2> SUFFICES ASSUME NEW q \in Producers, NEW s, s = Slot(at'[q].ct)
               PROVE  /\ pc'[q] \in {"try", "won", "write"} => cc' \subseteq at'[q].cc
                      /\ pc'[q] = "try" => /\ at'[q].el.ic <= el'[s].ic
                                           /\ at'[q].el.ic = el'[s].ic => at'[q].el.rem = el'[s].rem
                      /\ MayWin(q)' => at'[q].ct = ct' /\ \A r \in Producers : ~Writes(r, s)'
    BY DEF LookOK
  <2>1. CASE q = p
    BY <1>3, <2>1
  <2>2. CASE q # p
    <3>1. pc'[q] = pc[q] /\ at'[q] = at[q] /\ at[q] \in Look
      BY <2>2 DEF Types
    <3>2. s \in Slots
      BY <3>1, SlotType DEF Look
    <3> QED
      BY <1>2, <1>3, <3>1, <3>2 DEF RingOK, LookOK
  <2> QED
    BY <2>1, <2>2
<1>5. WriteOK'
  <2> SUFFICES ASSUME NEW q \in Producers, NEW s \in Slots, Writes(q, s)'
               PROVE  /\ cc' \subseteq el'[s].rem
                      /\ pc'[q] = "won" => at'[q].ct = ct'
                      /\ \A r \in Producers : r # q => ~Writes(r, s)'
    BY DEF WriteOK
  <2>1. Writes(q, s) /\ q # p
    BY <1>2 DEF Writes
  <2> QED
    BY <1>2, <2>1 DEF RingOK, WriteOK
<1>6. ReadOK'
  BY <1>2 DEF RingOK, ReadOK, Reads
<1>7. UnreadOK'
  BY <1>2 DEF RingOK, UnreadOK
<1> QED
  BY <1>1, <1>4, <1>5, <1>6, <1>7 DEF RingOK

\* The loads: whoever is waited for at ct_ keeps the producer from winning.
LEMMA LoadRing ==
    ASSUME Types, RingOK, NEW p \in Producers, cc # {},
           UNCHANGED <<ct, epoch, el, cc, cursor, rpc>>,
           pc[p] = "push", pc'[p] = "try",
           at'[p].ct = ct, at'[p].cc = cc, at'[p].el = el[Slot(ct)],
           at'[p].ep = 0, ~at'[p].forced,
           \A q \in Producers \ {p} : pc'[q] = pc[q] /\ at'[q] = at[q]
    PROVE  RingOK'
<1>1. Slot(ct) \in Slots /\ el[Slot(ct)] \in Element
  BY SlotType DEF Types
<1>2. FirstEpoch'
  BY <1>1 DEF RingOK, FirstEpoch
<1>3. \A q \in Producers : \A s \in Slots : Writes(q, s)' <=> Writes(q, s)
  BY DEF Writes
<1>4. LookOK'
  <2> SUFFICES ASSUME NEW q \in Producers, NEW s, s = Slot(at'[q].ct)
               PROVE  /\ pc'[q] \in {"try", "won", "write"} => cc' \subseteq at'[q].cc
                      /\ pc'[q] = "try" => /\ at'[q].el.ic <= el'[s].ic
                                           /\ at'[q].el.ic = el'[s].ic => at'[q].el.rem = el'[s].rem
                      /\ MayWin(q)' => at'[q].ct = ct' /\ \A r \in Producers : ~Writes(r, s)'
    BY DEF LookOK
  <2>1. CASE q = p
    <3>1. s = Slot(ct) /\ at'[p].el.ic = el[s].ic /\ at'[p].el.rem = el[s].rem
      BY <2>1
    <3>2. ASSUME MayWin(p)', NEW r \in Producers, Writes(r, s) PROVE FALSE
      <4>1. cc \cap el[s].rem = {}
        BY <3>1, <3>2 DEF MayWin
      <4>2. cc \subseteq el[s].rem
        BY <1>1, <3>1, <3>2 DEF RingOK, WriteOK
      <4> QED
        BY <4>1, <4>2
    <3>3. el[s].ic \in Nat
      BY <1>1, <3>1 DEF Element
    <3> QED
      BY <1>1, <1>3, <2>1, <3>1, <3>2, <3>3
  <2>2. CASE q # p
    <3>1. pc'[q] = pc[q] /\ at'[q] = at[q] /\ at[q] \in Look
      BY <2>2 DEF Types
    <3>2. s \in Slots
      BY <3>1, SlotType DEF Look
    <3>3. MayWin(q)' <=> MayWin(q)
      BY <3>1 DEF MayWin
    <3> QED
      BY <1>3, <3>1, <3>2, <3>3 DEF RingOK, LookOK
  <2> QED
    BY <2>1, <2>2
<1>5. WriteOK'
  <2> SUFFICES ASSUME NEW q \in Producers, NEW s \in Slots, Writes(q, s)'
               PROVE  /\ cc' \subseteq el'[s].rem
                      /\ pc'[q] = "won" => at'[q].ct = ct'
                      /\ \A r \in Producers : r # q => ~Writes(r, s)'
    BY DEF WriteOK
  <2>1. Writes(q, s) /\ q # p
    BY <1>3 DEF Writes
  <2> QED
    BY <1>3, <2>1 DEF RingOK, WriteOK
<1>6. ReadOK'
  BY <1>3 DEF RingOK, ReadOK, Reads
<1>7. UnreadOK'
  BY <1>3 DEF RingOK, UnreadOK
<1> QED
  BY <1>2, <1>4, <1>5, <1>6, <1>7 DEF RingOK

\* The exchange of push: nobody is at the element, and whoever looked at it
\* earlier finds another number.
LEMMA ClaimRing ==
    ASSUME Types, RingOK, NEW p \in Producers, PushClaim(p)
    PROVE  RingOK' /\ pc' = [pc EXCEPT ![p] = "won"] /\ UNCHANGED at
<1> DEFINE s == Slot(at[p].ct)
<1>1. Exchange(p) /\ pc[p] = "try" /\ ~Full(p)
      /\ UNCHANGED <<ct, epoch, cc, cursor, rpc>>
  BY DEF PushClaim, readVars
<1>2. /\ s \in Slots /\ el' \in [Slots -> Element]
      /\ at[p].el.rem = el[s].rem /\ at[p].el.ic = el[s].ic
      /\ \A u \in Slots : u # s => el'[u] = el[u]
      /\ el'[s].data = el[s].data /\ el'[s].flag = el[s].flag
      /\ el'[s].rem = at[p].cc /\ el'[s].ep = at[p].ep /\ el'[s].ic = el[s].ic + 1
  BY <1>1, ExchangeEffect
<1> HIDE DEF s
<1>3. epoch = 0 /\ at[p].ep = 0 /\ at[p].el.ep = 0 /\ ~at[p].forced
  BY DEF RingOK, FirstEpoch
<1>4. pc' = [pc EXCEPT ![p] = "won"] /\ at' = at
  BY <1>3 DEF PushClaim
<1>5. pc'[p] = "won" /\ \A q \in Producers \ {p} : pc'[q] = pc[q]
  BY <1>4 DEF Types
<1>6. at[p].cc \cap at[p].el.rem = {}
  BY <1>1, <1>3 DEF Full
<1>7. /\ cc \subseteq at[p].cc /\ at[p].ct = ct /\ s = Slot(ct)
      /\ \A q \in Producers : ~Writes(q, s)
  BY <1>1, <1>2, <1>6 DEF s, RingOK, LookOK, MayWin
<1>8. \A u \in Slots : el[u] \in Element /\ el'[u] \in Element
  BY <1>2 DEF Types
<1>9. \A q \in Producers : \A u \in Slots : Writes(q, u)' <=> Writes(q, u) \/ (q = p /\ u = s)
  BY <1>1, <1>4, <1>5 DEF Writes, s
<1>10. FirstEpoch'
  BY <1>1, <1>2, <1>3, <1>4, <1>5 DEF RingOK, FirstEpoch
<1>11. LookOK'
  <2> SUFFICES ASSUME NEW q \in Producers, NEW u, u = Slot(at[q].ct)
               PROVE  /\ pc'[q] \in {"try", "won", "write"} => cc' \subseteq at[q].cc
                      /\ pc'[q] = "try" => /\ at[q].el.ic <= el'[u].ic
                                           /\ at[q].el.ic = el'[u].ic => at[q].el.rem = el'[u].rem
                      /\ MayWin(q)' => at[q].ct = ct' /\ \A r \in Producers : ~Writes(r, u)'
    BY <1>4 DEF LookOK
  <2>1. at[q] \in Look /\ at[q].el \in Element /\ u \in Slots
    BY SlotType DEF Types, Look
  <2>2. CASE q = p
    BY <1>1, <1>5, <1>7, <2>2 DEF MayWin
  <2>3. CASE q # p /\ u = s
    <3>1. pc'[q] = pc[q]
      BY <1>5, <2>3
    <3>2. pc[q] = "try" => at[q].el.ic <= el[s].ic
      BY <2>3 DEF RingOK, LookOK
    <3>3. el[s].ic \in Nat /\ at[q].el.ic \in Nat
      BY <1>2, <1>8, <2>1 DEF Element
    <3>4. pc[q] = "try" => at[q].el.ic < el'[u].ic
      BY <1>2, <2>3, <3>2, <3>3
    <3>5. ~MayWin(q)'
      BY <1>4, <2>3, <3>1, <3>3, <3>4, <1>2 DEF MayWin
    <3>6. pc[q] \in {"try", "won", "write"} => cc \subseteq at[q].cc
      BY DEF RingOK, LookOK
    <3> QED
      BY <1>1, <1>2, <2>3, <3>1, <3>2, <3>3, <3>4, <3>5, <3>6
  <2>4. CASE q # p /\ u # s
    <3>1. pc'[q] = pc[q] /\ el'[u] = el[u]
      BY <1>2, <1>5, <2>1, <2>4
    <3>2. MayWin(q)' <=> MayWin(q)
      BY <1>4, <3>1 DEF MayWin
    <3> QED
      BY <1>1, <1>9, <2>1, <2>4, <3>1, <3>2 DEF RingOK, LookOK
  <2> QED
    BY <2>2, <2>3, <2>4
<1>12. WriteOK'
  <2> SUFFICES ASSUME NEW q \in Producers, NEW u \in Slots, Writes(q, u)'
               PROVE  /\ cc \subseteq el'[u].rem
                      /\ pc'[q] = "won" => at[q].ct = ct
                      /\ \A r \in Producers : r # q => ~Writes(r, u)'
    BY <1>1, <1>4 DEF WriteOK
  <2>1. CASE u = s
    BY <1>2, <1>7, <1>9, <2>1
  <2>2. CASE u # s
    <3>1. Writes(q, u) /\ q # p /\ pc'[q] = pc[q]
      <4>1. Writes(q, u)
        BY <1>9, <2>2
      <4>2. q # p
        BY <1>1, <4>1 DEF Writes
      <4> QED
        BY <1>5, <4>1, <4>2
    <3> QED
      BY <1>2, <1>9, <2>2, <3>1 DEF RingOK, WriteOK
  <2> QED
    BY <2>1, <2>2
<1>13. ReadOK'
  <2> SUFFICES ASSUME NEW r \in Receivers, NEW u \in Slots, Reads(r, u)
               PROVE  /\ r \in el'[u].rem
                      /\ \A q \in Producers : ~Writes(q, u)'
                      /\ el'[u].flag \in {Holds(cursor[r] - 1), FreeFor(cursor[r] - 1 + N)}
    BY <1>1 DEF ReadOK, Reads
  <2>1. r \in cc /\ r \in el[u].rem
    BY DEF RingOK, ReadOK, Types, Reads
  <2>2. u # s
    BY <1>2, <1>6, <1>7, <2>1
  <2> QED
    BY <1>2, <1>9, <2>2 DEF RingOK, ReadOK
<1>14. UnreadOK'
  <2> SUFFICES ASSUME NEW r \in cc, NEW u \in Slots,
                      el'[u].flag.k = "holds", cursor[r] <= el'[u].flag.i
               PROVE  r \in el'[u].rem /\ \A q \in Producers : ~Writes(q, u)'
    BY <1>1 DEF UnreadOK
  <2>1. el'[u].flag = el[u].flag
    BY <1>2
  <2>2. r \in el[u].rem /\ \A q \in Producers : ~Writes(q, u)
    BY <2>1 DEF RingOK, UnreadOK
  <2>3. u # s
    BY <1>2, <1>6, <1>7, <2>2
  <2> QED
    BY <1>2, <1>9, <2>2, <2>3
<1> QED
  BY <1>4, <1>10, <1>11, <1>12, <1>13, <1>14 DEF RingOK

\* The winner moves ct_ on: it was the only one, so nobody else had won, and no
\* producer that looked at an element of this round may still win it.
LEMMA AdvanceRing ==
    ASSUME Types, RingOK, ~clash, NEW p \in Producers, Advance(p)
    PROVE  RingOK' /\ ~clash' /\ UNCHANGED at
           /\ pc[p] = "won" /\ pc' = [pc EXCEPT ![p] = "write"]
<1> DEFINE s == Slot(at[p].ct)
<1>1. /\ pc[p] = "won" /\ ct' = at[p].ct + 1 /\ pc' = [pc EXCEPT ![p] = "write"]
      /\ UNCHANGED <<epoch, cc, at, cursor, rpc>>
  BY DEF Advance, readVars
<1>2. /\ s \in Slots /\ el' \in [Slots -> Element]
      /\ \A u \in Slots : u # s => el'[u] = el[u]
      /\ el'[s].data = Torn /\ el'[s].flag = el[s].flag
      /\ el'[s].rem = el[s].rem /\ el'[s].ep = el[s].ep /\ el'[s].ic = el[s].ic
  BY AdvanceEffect
<1>3. Writes(p, s)
  BY <1>1 DEF Writes
<1>4. /\ at[p].ct = ct
      /\ \A q \in Producers : q # p => ~Writes(q, s)
  BY <1>1, <1>2, <1>3 DEF RingOK, WriteOK
<1>5. ~clash'
  <2>1. \A q \in Producers \ {p} : ~(pc[q] \in {"won", "write"} /\ Slot(at[q].ct) = s)
    BY <1>4 DEF Writes
  <2> QED
    BY <1>4, <2>1 DEF Advance
<1>6. pc'[p] = "write" /\ \A q \in Producers \ {p} : pc'[q] = pc[q]
  BY <1>1 DEF Types
<1>7. s = Slot(ct)
  BY <1>4
<1>8. \A u \in Slots : el'[u].rem = el[u].rem /\ el'[u].ep = el[u].ep
                       /\ el'[u].ic = el[u].ic /\ el'[u].flag = el[u].flag
  BY <1>2
<1> HIDE DEF s
<1>9. \A q \in Producers : \A u \in Slots : Writes(q, u)' <=> Writes(q, u)
  BY <1>1, <1>6 DEF Writes
<1>10. FirstEpoch'
  BY <1>1, <1>6, <1>8 DEF RingOK, FirstEpoch
<1>11. LookOK'
  <2> SUFFICES ASSUME NEW q \in Producers, NEW u, u = Slot(at[q].ct)
               PROVE  /\ pc'[q] \in {"try", "won", "write"} => cc' \subseteq at[q].cc
                      /\ pc'[q] = "try" => /\ at[q].el.ic <= el'[u].ic
                                           /\ at[q].el.ic = el'[u].ic => at[q].el.rem = el'[u].rem
                      /\ MayWin(q)' => at[q].ct = ct' /\ \A r \in Producers : ~Writes(r, u)'
    BY <1>1 DEF LookOK
  <2>1. u \in Slots
    BY SlotType DEF Types, Look
  <2>2. ~MayWin(q)'
    <3>1. SUFFICES ASSUME MayWin(q)' PROVE FALSE
      OBVIOUS
    <3>2. MayWin(q)
      <4>1. q # p /\ pc'[q] = "try"
        BY <1>6, <3>1 DEF MayWin
      <4> QED
        BY <1>1, <1>6, <1>8, <2>1, <3>1, <4>1 DEF MayWin
    <3>3. at[q].ct = ct /\ \A r \in Producers : ~Writes(r, Slot(at[q].ct))
      BY <3>2 DEF RingOK, LookOK
    <3> QED
      BY <1>3, <1>7, <3>3
  <2>3. pc'[q] \in {"try", "won", "write"} => pc[q] \in {"try", "won", "write"}
    BY <1>1, <1>6
  <2>4. pc'[q] = "try" => pc[q] = "try"
    BY <1>6
  <2>5. pc[q] \in {"try", "won", "write"} => cc \subseteq at[q].cc
    BY DEF RingOK, LookOK
  <2>6. pc[q] = "try" => /\ at[q].el.ic <= el[u].ic
                         /\ at[q].el.ic = el[u].ic => at[q].el.rem = el[u].rem
    BY DEF RingOK, LookOK
  <2> QED
    BY <1>1, <1>8, <2>1, <2>2, <2>3, <2>4, <2>5, <2>6
<1>12. WriteOK'
  <2> SUFFICES ASSUME NEW q \in Producers, NEW u \in Slots, Writes(q, u)'
               PROVE  /\ cc \subseteq el'[u].rem
                      /\ pc'[q] = "won" => at[q].ct = ct'
                      /\ \A r \in Producers : r # q => ~Writes(r, u)'
    BY <1>1 DEF WriteOK
  <2>1. Writes(q, u)
    BY <1>9
  <2>2. /\ cc \subseteq el[u].rem
        /\ pc[q] = "won" => at[q].ct = ct
        /\ \A r \in Producers : r # q => ~Writes(r, u)
    BY <2>1 DEF RingOK, WriteOK
  <2>3. pc'[q] # "won"
    <3>1. SUFFICES ASSUME pc'[q] = "won" PROVE FALSE
      OBVIOUS
    <3>2. q # p /\ pc[q] = "won"
      BY <1>6, <3>1
    <3>3. u = s
      BY <1>7, <2>1, <2>2, <3>2 DEF Writes
    <3> QED
      BY <1>4, <2>1, <3>2, <3>3
  <2> QED
    BY <1>8, <1>9, <2>2, <2>3
<1>13. ReadOK'
  BY <1>1, <1>8, <1>9 DEF RingOK, ReadOK, Reads
<1>14. UnreadOK'
  BY <1>1, <1>8, <1>9 DEF RingOK, UnreadOK
<1> QED
  BY <1>1, <1>5, <1>10, <1>11, <1>12, <1>13, <1>14 DEF RingOK

\* The message is in its element, for every receiver that has to read it.
LEMMA CommitRing ==
    ASSUME Types, RingOK, NEW p \in Producers, Commit(p)
    PROVE  RingOK'
<1> DEFINE s == Slot(at[p].ct)
<1>1. /\ pc[p] = "write" /\ pc' = [pc EXCEPT ![p] = "idle"] /\ at' = [at EXCEPT ![p] = NoLook]
      /\ UNCHANGED <<ct, epoch, cc, cursor, rpc>>
  BY DEF Commit, Done, readVars
<1>2. /\ s \in Slots /\ el' \in [Slots -> Element]
      /\ \A u \in Slots : u # s => el'[u] = el[u]
      /\ el'[s].data = at[p].m /\ el'[s].flag = Holds(at[p].ct)
      /\ el'[s].rem = el[s].rem /\ el'[s].ep = el[s].ep /\ el'[s].ic = el[s].ic
  BY CommitEffect
<1>3. Writes(p, s)
  BY <1>1 DEF Writes
<1>4. /\ pc'[p] = "idle" /\ at'[p] = NoLook
      /\ \A q \in Producers \ {p} : pc'[q] = pc[q] /\ at'[q] = at[q]
  BY <1>1 DEF Types
<1>5. NoLook.ep = 0 /\ NoLook.el.ep = 0 /\ ~NoLook.forced
  BY DEF NoLook, Fresh
<1>6. \A u \in Slots : el'[u].rem = el[u].rem /\ el'[u].ep = el[u].ep /\ el'[u].ic = el[u].ic
  BY <1>2
<1> HIDE DEF s
<1>7. \A q \in Producers : \A u \in Slots : Writes(q, u)' <=> Writes(q, u) /\ q # p
  BY <1>4 DEF Writes
<1>8. cc \subseteq el[s].rem /\ \A q \in Producers : q # p => ~Writes(q, s)
  BY <1>2, <1>3 DEF RingOK, WriteOK
<1>9. FirstEpoch'
  BY <1>1, <1>4, <1>5, <1>6 DEF RingOK, FirstEpoch
<1>10. LookOK'
  <2> SUFFICES ASSUME NEW q \in Producers, NEW u, u = Slot(at'[q].ct)
               PROVE  /\ pc'[q] \in {"try", "won", "write"} => cc' \subseteq at'[q].cc
                      /\ pc'[q] = "try" => /\ at'[q].el.ic <= el'[u].ic
                                           /\ at'[q].el.ic = el'[u].ic => at'[q].el.rem = el'[u].rem
                      /\ MayWin(q)' => at'[q].ct = ct' /\ \A r \in Producers : ~Writes(r, u)'
    BY DEF LookOK
  <2>1. CASE q = p
    BY <1>4, <2>1 DEF MayWin
  <2>2. CASE q # p
    <3>1. pc'[q] = pc[q] /\ at'[q] = at[q] /\ at[q] \in Look
      BY <1>4, <2>2 DEF Types
    <3>2. u \in Slots
      BY <3>1, SlotType DEF Look
    <3>3. MayWin(q)' <=> MayWin(q)
      BY <1>6, <3>1, <3>2 DEF MayWin
    <3> QED
      BY <1>1, <1>6, <1>7, <3>1, <3>2, <3>3 DEF RingOK, LookOK
  <2> QED
    BY <2>1, <2>2
<1>11. WriteOK'
  <2> SUFFICES ASSUME NEW q \in Producers, NEW u \in Slots, Writes(q, u)'
               PROVE  /\ cc \subseteq el'[u].rem
                      /\ pc'[q] = "won" => at'[q].ct = ct
                      /\ \A r \in Producers : r # q => ~Writes(r, u)'
    BY <1>1 DEF WriteOK
  <2>1. Writes(q, u) /\ q # p /\ pc'[q] = pc[q] /\ at'[q] = at[q]
    BY <1>4, <1>7
  <2> QED
    BY <1>6, <1>7, <2>1 DEF RingOK, WriteOK
<1>12. ReadOK'
  <2> SUFFICES ASSUME NEW r \in Receivers, NEW u \in Slots, Reads(r, u)
               PROVE  /\ r \in el'[u].rem
                      /\ \A q \in Producers : ~Writes(q, u)'
                      /\ el'[u].flag \in {Holds(cursor[r] - 1), FreeFor(cursor[r] - 1 + N)}
    BY <1>1 DEF ReadOK, Reads
  <2>1. u # s
    BY <1>3 DEF RingOK, ReadOK
  <2> QED
    BY <1>2, <1>7, <2>1 DEF RingOK, ReadOK
<1>13. UnreadOK'
  <2> SUFFICES ASSUME NEW r \in cc, NEW u \in Slots,
                      el'[u].flag.k = "holds", cursor[r] <= el'[u].flag.i
               PROVE  r \in el'[u].rem /\ \A q \in Producers : ~Writes(q, u)'
    BY <1>1 DEF UnreadOK
  <2>1. CASE u = s
    BY <1>2, <1>7, <1>8, <2>1
  <2>2. CASE u # s
    BY <1>2, <1>7, <2>2 DEF RingOK, UnreadOK
  <2> QED
    BY <2>1, <2>2
<1> QED
  BY <1>9, <1>10, <1>11, <1>12, <1>13 DEF RingOK

\* The producers stand still and the elements keep their numbers or pass them:
\* what is left of a receiver's step to say is about the readers.
LEMMA ReceiverRing ==
    ASSUME Types, RingOK, el' \in [Slots -> Element],
           UNCHANGED <<ct, epoch, pc, at>>, cc' \subseteq cc,
           \A s \in Slots : /\ el'[s].ep = el[s].ep
                            /\ \/ el'[s].rem = el[s].rem /\ el'[s].ic = el[s].ic
                               \/ /\ el'[s].ic = el[s].ic + 1
                                  /\ \A q \in Producers : ~Writes(q, s),
           ReadOK', UnreadOK'
    PROVE  RingOK'
<1>1. \A q \in Producers : \A s : Writes(q, s)' <=> Writes(q, s)
  BY DEF Writes
<1>2. FirstEpoch'
  BY DEF RingOK, FirstEpoch
<1>3. LookOK'
  <2> SUFFICES ASSUME NEW q \in Producers, NEW s, s = Slot(at[q].ct)
               PROVE  /\ pc[q] \in {"try", "won", "write"} => cc' \subseteq at[q].cc
                      /\ pc[q] = "try" => /\ at[q].el.ic <= el'[s].ic
                                          /\ at[q].el.ic = el'[s].ic => at[q].el.rem = el'[s].rem
                      /\ MayWin(q)' => at[q].ct = ct /\ \A r \in Producers : ~Writes(r, s)
    BY <1>1 DEF LookOK
  <2>1. at[q].el.ic \in Nat /\ s \in Slots /\ el[s].ic \in Nat
    <3>1. at[q] \in Look /\ el \in [Slots -> Element]
      BY DEF Types
    <3>2. at[q].ct \in Nat /\ at[q].el \in Element
      BY <3>1 DEF Look
    <3>3. s \in Slots
      BY <3>2, SlotType
    <3>4. el[s] \in Element
      BY <3>1, <3>3
    <3> QED
      BY <3>2, <3>3, <3>4 DEF Element
  <2>2. /\ pc[q] \in {"try", "won", "write"} => cc \subseteq at[q].cc
        /\ pc[q] = "try" => /\ at[q].el.ic <= el[s].ic
                            /\ at[q].el.ic = el[s].ic => at[q].el.rem = el[s].rem
        /\ MayWin(q) => at[q].ct = ct /\ \A r \in Producers : ~Writes(r, s)
    BY DEF RingOK, LookOK
  <2>3. CASE el'[s].rem = el[s].rem /\ el'[s].ic = el[s].ic
    <3>1. MayWin(q)' <=> MayWin(q)
      BY <2>1, <2>3 DEF MayWin
    <3> QED
      BY <2>2, <2>3, <3>1
  <2>4. CASE el'[s].ic = el[s].ic + 1
    <3>1. pc[q] = "try" => at[q].el.ic < el'[s].ic
      BY <2>1, <2>2, <2>4
    <3>2. ~MayWin(q)'
      BY <2>1, <2>4, <3>1 DEF MayWin
    <3> QED
      BY <2>1, <2>2, <2>4, <3>1, <3>2
  <2> QED
    BY <2>1, <2>3, <2>4
<1>4. WriteOK'
  <2> SUFFICES ASSUME NEW q \in Producers, NEW s \in Slots, Writes(q, s)
               PROVE  /\ cc' \subseteq el'[s].rem
                      /\ pc[q] = "won" => at[q].ct = ct
                      /\ \A r \in Producers : r # q => ~Writes(r, s)
    BY <1>1 DEF WriteOK
  <2>1. el'[s].rem = el[s].rem
    OBVIOUS
  <2> QED
    BY <2>1 DEF RingOK, WriteOK
<1> QED
  BY <1>2, <1>3, <1>4 DEF RingOK

\* The element of the cursor holds its message: the reader is waited for there.
LEMMA PopReadRing ==
    ASSUME Types, RingOK, NEW r \in Receivers, PopRead(r)
    PROVE  RingOK'
<1> DEFINE s == Slot(cursor[r])
<1>1. /\ r \in cc /\ el[s].flag = Holds(cursor[r])
      /\ cursor' = [cursor EXCEPT ![r] = @ + 1] /\ rpc' = [rpc EXCEPT ![r] = "count"]
      /\ UNCHANGED <<ct, epoch, el, cc, pc, at>>
  BY DEF PopRead, ringVars
<1>2. s \in Slots /\ cursor[r] \in Nat
  BY SlotType DEF Types
<1>3. /\ cursor'[r] = cursor[r] + 1 /\ rpc'[r] = "count"
      /\ \A i \in Receivers \ {r} : cursor'[i] = cursor[i] /\ rpc'[i] = rpc[i]
  BY <1>1 DEF Types
<1>4. \A q \in Producers : \A u : Writes(q, u)' <=> Writes(q, u)
  BY <1>1 DEF Writes
<1>5. r \in el[s].rem /\ \A q \in Producers : ~Writes(q, s)
  <2>1. el[s].flag.k = "holds" /\ cursor[r] <= el[s].flag.i
    BY <1>1, <1>2 DEF Holds
  <2> QED
    BY <1>1, <1>2, <2>1 DEF RingOK, UnreadOK
<1>6. ReadOK'
  <2> SUFFICES ASSUME NEW i \in Receivers, NEW u \in Slots, Reads(i, u)'
               PROVE  /\ i \in el[u].rem
                      /\ \A q \in Producers : ~Writes(q, u)
                      /\ el[u].flag \in {Holds(cursor'[i] - 1), FreeFor(cursor'[i] - 1 + N)}
    BY <1>1, <1>4 DEF ReadOK
  <2>1. CASE i = r
    <3>1. cursor'[r] - 1 = cursor[r]
      BY <1>2, <1>3
    <3>2. u = s
      BY <2>1, <3>1 DEF Reads
    <3> QED
      BY <1>1, <1>5, <2>1, <3>1, <3>2
  <2>2. CASE i # r
    <3>1. Reads(i, u)
      BY <1>3, <2>2 DEF Reads
    <3> QED
      BY <1>3, <2>2, <3>1 DEF RingOK, ReadOK
  <2> QED
    BY <2>1, <2>2
<1>7. UnreadOK'
  <2> SUFFICES ASSUME NEW i \in cc, NEW u \in Slots,
                      el[u].flag.k = "holds", cursor'[i] <= el[u].flag.i
               PROVE  i \in el[u].rem /\ \A q \in Producers : ~Writes(q, u)
    BY <1>1, <1>4 DEF UnreadOK
  <2>1. el[u].flag.i \in Nat /\ i \in Receivers /\ cursor[i] \in Nat
    BY DEF Types, Element, Flag
  <2>2. cursor[i] <= el[u].flag.i
    BY <1>2, <1>3, <2>1
  <2> QED
    BY <2>2 DEF RingOK, UnreadOK
<1> QED
  BY <1>1, <1>6, <1>7, ReceiverRing DEF Types

\* The last one frees the element: it is the only one waited for.
LEMMA PopCountRing ==
    ASSUME Types, RingOK, NEW r \in Receivers, PopCount(r)
    PROVE  RingOK'
<1> DEFINE s == Slot(cursor[r] - 1)
<1>1. /\ rpc[r] = "count" /\ UNCHANGED <<ct, epoch, cc, pc, at, cursor>>
      /\ rpc' = [rpc EXCEPT ![r] = IF el[s].rem = {} THEN "idle" ELSE "exchange"]
  BY DEF PopCount
<1>2. /\ s \in Slots /\ el' \in [Slots -> Element]
      /\ \A u \in Slots : u # s => el'[u] = el[u]
      /\ el'[s].data = el[s].data /\ el'[s].rem = el[s].rem
      /\ el'[s].ep = el[s].ep /\ el'[s].ic = el[s].ic
      /\ \/ el'[s].flag = el[s].flag
         \/ el[s].rem \subseteq {r} /\ el'[s].flag = FreeFor(cursor[r] - 1 + N)
  BY CountEffect
<1>3. \A i \in Receivers : rpc'[i] # "idle" => rpc[i] # "idle"
  BY <1>1 DEF Types
<1>4. \A q \in Producers : \A u : Writes(q, u)' <=> Writes(q, u)
  BY <1>1 DEF Writes
<1>5. \A u \in Slots : el'[u].rem = el[u].rem /\ el'[u].ep = el[u].ep /\ el'[u].ic = el[u].ic
  BY <1>2
<1>6. ReadOK'
  <2> SUFFICES ASSUME NEW i \in Receivers, NEW u \in Slots, Reads(i, u)'
               PROVE  /\ i \in el[u].rem
                      /\ \A q \in Producers : ~Writes(q, u)
                      /\ el'[u].flag \in {Holds(cursor[i] - 1), FreeFor(cursor[i] - 1 + N)}
    BY <1>1, <1>4, <1>5 DEF ReadOK
  <2>1. Reads(i, u)
    BY <1>1, <1>3 DEF Reads
  <2>2. /\ i \in el[u].rem
        /\ \A q \in Producers : ~Writes(q, u)
        /\ el[u].flag \in {Holds(cursor[i] - 1), FreeFor(cursor[i] - 1 + N)}
    BY <2>1 DEF RingOK, ReadOK
  <2> QED
    BY <1>2, <2>2
<1>7. UnreadOK'
  <2> SUFFICES ASSUME NEW i \in cc, NEW u \in Slots,
                      el'[u].flag.k = "holds", cursor[i] <= el'[u].flag.i
               PROVE  i \in el[u].rem /\ \A q \in Producers : ~Writes(q, u)
    BY <1>1, <1>4, <1>5 DEF UnreadOK
  <2>1. FreeFor(cursor[r] - 1 + N).k # "holds"
    BY DEF FreeFor
  <2>2. el'[u].flag = el[u].flag
    BY <1>2, <2>1
  <2> QED
    BY <2>2 DEF RingOK, UnreadOK
<1> QED
  BY <1>1, <1>2, <1>5, <1>6, <1>7, ReceiverRing

\* A reader that takes its bit out is behind the element.
LEMMA PopTakeOutRing ==
    ASSUME Types, RingOK, NEW r \in Receivers, PopTakeOut(r)
    PROVE  RingOK'
<1> DEFINE s == Slot(cursor[r] - 1)
<1>1. rpc[r] = "exchange" /\ UNCHANGED <<ct, epoch, cc, pc, at, cursor>>
  BY DEF PopTakeOut
<1>2. /\ s \in Slots /\ el' \in [Slots -> Element]
      /\ \A u \in Slots : u # s => el'[u] = el[u]
      /\ el'[s].data = el[s].data /\ el'[s].flag = el[s].flag /\ el'[s].ep = el[s].ep
      /\ \/ el' = el /\ rpc' = [rpc EXCEPT ![r] = "count"]
         \/ /\ el'[s].rem = el[s].rem \ {r} /\ el'[s].ic = el[s].ic + 1
            /\ rpc' = [rpc EXCEPT ![r] = "idle"]
  BY TakeOutEffect
<1>3. Reads(r, s)
  BY <1>1 DEF Reads
<1>4. /\ \A q \in Producers : ~Writes(q, s)
      /\ el[s].flag \in {Holds(cursor[r] - 1), FreeFor(cursor[r] - 1 + N)}
  BY <1>2, <1>3 DEF RingOK, ReadOK
<1>5. \A q \in Producers : \A u : Writes(q, u)' <=> Writes(q, u)
  BY <1>1 DEF Writes
<1>6. \A u \in Slots : el'[u].flag = el[u].flag
  BY <1>2
<1>7. \A i \in Receivers : \A u \in Slots : i \in el[u].rem =>
          i \in el'[u].rem \/ (i = r /\ u = s /\ rpc'[r] = "idle")
  BY <1>2 DEF Types
<1>8. \A i \in Receivers : rpc'[i] # "idle" => rpc[i] # "idle"
  BY <1>1, <1>2 DEF Types
<1>9. ReadOK'
  <2> SUFFICES ASSUME NEW i \in Receivers, NEW u \in Slots, Reads(i, u)'
               PROVE  /\ i \in el'[u].rem
                      /\ \A q \in Producers : ~Writes(q, u)
                      /\ el[u].flag \in {Holds(cursor[i] - 1), FreeFor(cursor[i] - 1 + N)}
    BY <1>1, <1>5, <1>6 DEF ReadOK
  <2>1. Reads(i, u) /\ rpc'[i] # "idle"
    BY <1>1, <1>8 DEF Reads
  <2> QED
    BY <1>7, <2>1 DEF RingOK, ReadOK
<1>10. UnreadOK'
  <2> SUFFICES ASSUME NEW i \in cc, NEW u \in Slots,
                      el[u].flag.k = "holds", cursor[i] <= el[u].flag.i
               PROVE  i \in el'[u].rem /\ \A q \in Producers : ~Writes(q, u)
    BY <1>1, <1>5, <1>6 DEF UnreadOK
  <2>1. i \in Receivers /\ i \in el[u].rem /\ \A q \in Producers : ~Writes(q, u)
    BY DEF RingOK, UnreadOK, Types
  <2>2. ~(i = r /\ u = s)
    <3>1. SUFFICES ASSUME i = r, u = s PROVE FALSE
      OBVIOUS
    <3>2. FreeFor(cursor[r] - 1 + N).k # "holds" /\ Holds(cursor[r] - 1).i = cursor[r] - 1
      BY DEF FreeFor, Holds
    <3>3. el[s].flag.i = cursor[r] - 1
      BY <1>4, <3>1, <3>2
    <3>4. cursor[r] \in Nat
      BY DEF Types
    <3> QED
      BY <3>1, <3>3, <3>4
  <2> QED
    BY <1>7, <2>1, <2>2
<1>11. \A u \in Slots : /\ el'[u].ep = el[u].ep
                        /\ \/ el'[u].rem = el[u].rem /\ el'[u].ic = el[u].ic
                           \/ /\ el'[u].ic = el[u].ic + 1
                              /\ \A q \in Producers : ~Writes(q, u)
  BY <1>2, <1>4
<1> QED
  BY <1>1, <1>2, <1>9, <1>10, <1>11, ReceiverRing

LEMMA DisconnectRing ==
    ASSUME Types, RingOK, NEW r \in Receivers, Disconnect(r)
    PROVE  RingOK'
<1>1. cc' = cc \ {r} /\ UNCHANGED <<ct, epoch, el, pc, at, cursor, rpc>>
  BY DEF Disconnect, ringVars, readVars
<1>2. \A q \in Producers : \A u : Writes(q, u)' <=> Writes(q, u)
  BY <1>1 DEF Writes
<1>3. ReadOK' /\ UnreadOK'
  BY <1>1, <1>2 DEF RingOK, ReadOK, UnreadOK, Reads
<1> QED
  BY <1>1, <1>3, ReceiverRing DEF Types

-----------------------------------------------------------------------------
(* The messages *)

LEMMA InitMessage == Init => MessageOK
<1> SUFFICES ASSUME Init PROVE MessageOK
  OBVIOUS
<1>1. \A s \in Slots : el[s].flag.k = "zero" /\ el[s].data = 0
  BY DEF Init, Fresh, NoFlag, Torn
<1>2. \A r \in Receivers : got[r] = <<>> /\ Messages(r) = {}
  BY DEF Init, Messages
<1>3. WholeOK
  BY <1>1 DEF WholeOK
<1>4. PlaceOK
  BY <1>1, <1>2 DEF Init, PlaceOK, Torn
<1>5. IsFiniteSet({}) /\ Cardinality({}) = 0
  BY FS_EmptySet
<1>6. GotOK
  <2> SUFFICES ASSUME NEW r \in Receivers
               PROVE  IsFiniteSet(Messages(r)) /\ Cardinality(Messages(r)) = Len(got[r])
    BY DEF GotOK
  <2>1. Messages(r) = {} /\ Len(got[r]) = 0
    BY <1>2
  <2> QED
    BY <1>5, <2>1
<1> QED
  BY <1>3, <1>4, <1>6 DEF MessageOK

\* Nothing is written or read; producer b may begin with the next message.
LEMMA StayMessage ==
    ASSUME Types, MessageOK, NEW b,
           UNCHANGED <<got, cursor>>, next' \in Nat, next <= next',
           \A s \in Slots : /\ el'[s].data = el[s].data
                            /\ el'[s].flag = el[s].flag \/ el'[s].flag.k # "holds",
           \A p \in Producers :
               /\ pc[p] = "write" => pc'[p] = "write" /\ at'[p].ct = at[p].ct
               /\ pc'[p] # "idle" => \/ pc[p] # "idle" /\ at'[p].m = at[p].m
                                     \/ p = b /\ at'[p].m = next /\ next' = next + 1
    PROVE  MessageOK'
<1>1. \A r \in Receivers : Messages(r)' = Messages(r)
  BY DEF Messages
<1>2. WholeOK'
  BY DEF MessageOK, WholeOK
<1>3. next \in Nat \ {0}
  BY DEF Types
<1>4. PlaceOK'
  <2>1. ASSUME NEW p \in Producers, pc'[p] # "idle"
        PROVE  /\ at'[p].m \in 1 .. (next' - 1)
               /\ \A q \in Producers : q # p /\ pc'[q] # "idle" => at'[q].m # at'[p].m
               /\ \A s \in Slots : el[s].data # at'[p].m
               /\ \A r \in Receivers : at'[p].m \notin Messages(r)
    <3>1. CASE pc[p] # "idle" /\ at'[p].m = at[p].m
      <4>1. /\ at[p].m \in 1 .. (next - 1)
            /\ \A q \in Producers : q # p /\ pc[q] # "idle" => at[q].m # at[p].m
            /\ \A s \in Slots : el[s].data # at[p].m
            /\ \A r \in Receivers : at[p].m \notin Messages(r)
        BY <3>1 DEF MessageOK, PlaceOK
      <4>2. at[p].m < next
        BY <1>3, <4>1
      <4>3. \A q \in Producers : q # p /\ pc'[q] # "idle" => at'[q].m # at'[p].m
        BY <1>3, <3>1, <4>1, <4>2
      <4> QED
        BY <1>3, <3>1, <4>1, <4>3
    <3>2. CASE p = b /\ at'[p].m = next /\ next' = next + 1
      <4>1. \A q \in Producers : q # p /\ pc'[q] # "idle" =>
                at'[q].m = at[q].m /\ at[q].m \in 1 .. (next - 1)
        BY <3>2 DEF MessageOK, PlaceOK
      <4>2. \A s \in Slots : el[s].data < next /\ el[s].data \in Nat
        BY DEF MessageOK, PlaceOK, Types, Element
      <4>3. \A r \in Receivers : Messages(r) \subseteq 1 .. (next - 1)
        BY DEF MessageOK, PlaceOK
      <4> QED
        BY <1>3, <3>2, <4>1, <4>2, <4>3
    <3> QED
      BY <2>1, <3>1, <3>2
  <2>2. ASSUME NEW s \in Slots
        PROVE  /\ el'[s].data < next'
               /\ \A u \in Slots : u # s /\ el'[u].data = el'[s].data => el'[s].data = Torn
               /\ \A r \in Receivers :
                     el'[s].data \in Messages(r) /\ el'[s].flag.k = "holds" =>
                         el'[s].flag.i < cursor[r]
    <3>1. el[s].data \in Nat /\ el[s].data < next
      BY DEF MessageOK, PlaceOK, Types, Element
    <3> QED
      BY <1>3, <3>1 DEF MessageOK, PlaceOK
  <2>3. \A r \in Receivers : Messages(r) \subseteq 1 .. (next' - 1)
    <3>1. \A r \in Receivers : Messages(r) \subseteq 1 .. (next - 1)
      BY DEF MessageOK, PlaceOK
    <3> QED
      BY <1>3, <3>1
  <2> QED
    BY <1>1, <2>1, <2>2, <2>3 DEF PlaceOK
<1>5. GotOK'
  BY <1>1 DEF MessageOK, GotOK
<1> QED
  BY <1>2, <1>4, <1>5 DEF MessageOK

\* The element is torn while its producer writes.
LEMMA AdvanceMessage ==
    ASSUME Types, MessageOK, NEW p \in Producers, Advance(p)
    PROVE  MessageOK'
<1> DEFINE s == Slot(at[p].ct)
<1>1. /\ pc[p] = "won" /\ pc' = [pc EXCEPT ![p] = "write"]
      /\ UNCHANGED <<at, cursor, got, next>>
  BY DEF Advance, readVars
<1>2. /\ s \in Slots /\ el' \in [Slots -> Element]
      /\ \A u \in Slots : u # s => el'[u] = el[u]
      /\ el'[s].data = Torn /\ el'[s].flag = el[s].flag
  BY AdvanceEffect
<1>3. pc'[p] = "write" /\ \A q \in Producers \ {p} : pc'[q] = pc[q]
  BY <1>1 DEF Types
<1>4. \A r \in Receivers : Messages(r)' = Messages(r) /\ Messages(r) \subseteq 1 .. (next - 1)
  BY <1>1 DEF Messages, MessageOK, PlaceOK
<1>5. next \in Nat \ {0} /\ Torn = 0
  BY DEF Types, Torn
<1>6. \A q \in Producers : pc'[q] # "idle" => pc[q] # "idle"
  BY <1>1, <1>3
<1>7. WholeOK'
  <2> SUFFICES ASSUME NEW u \in Slots, el'[u].flag.k = "holds", el'[u].data = Torn
               PROVE  \E q \in Producers : pc'[q] = "write" /\ Slot(at[q].ct) = u
    BY <1>1 DEF WholeOK
  <2>1. CASE u = s
    BY <1>3, <2>1
  <2>2. CASE u # s
    <3>1. PICK q \in Producers : pc[q] = "write" /\ Slot(at[q].ct) = u
      BY <1>2, <2>2 DEF MessageOK, WholeOK
    <3> QED
      BY <1>1, <1>3, <3>1
  <2> QED
    BY <2>1, <2>2
<1> HIDE DEF s
<1>8. \A q \in Producers : pc'[q] # "idle" =>
          /\ at[q].m \in 1 .. (next - 1)
          /\ \A i \in Producers : i # q /\ pc'[i] # "idle" => at[i].m # at[q].m
          /\ \A u \in Slots : el'[u].data # at[q].m
          /\ \A r \in Receivers : at[q].m \notin Messages(r)
  <2> TAKE q \in Producers
  <2> HAVE pc'[q] # "idle"
  <2>1. /\ at[q].m \in 1 .. (next - 1)
        /\ \A i \in Producers : i # q /\ pc[i] # "idle" => at[i].m # at[q].m
        /\ \A u \in Slots : el[u].data # at[q].m
        /\ \A r \in Receivers : at[q].m \notin Messages(r)
    BY <1>6 DEF MessageOK, PlaceOK
  <2>2. at[q].m # 0
    BY <1>5, <2>1
  <2>3. \A u \in Slots : el'[u].data # at[q].m
    BY <1>2, <1>5, <2>1, <2>2
  <2> QED
    BY <1>6, <2>1, <2>3
<1>9. \A u \in Slots :
          /\ el'[u].data < next
          /\ \A i \in Slots : i # u /\ el'[i].data = el'[u].data => el'[u].data = Torn
          /\ \A r \in Receivers :
                el'[u].data \in Messages(r) /\ el'[u].flag.k = "holds" => el'[u].flag.i < cursor[r]
  <2> TAKE u \in Slots
  <2>1. CASE u = s
    <3>1. \A r \in Receivers : 0 \notin Messages(r)
      BY <1>4, <1>5
    <3> QED
      BY <1>2, <1>5, <2>1, <3>1
  <2>2. CASE u # s
    BY <1>2, <2>2 DEF MessageOK, PlaceOK
  <2> QED
    BY <2>1, <2>2
<1>10. PlaceOK'
  BY <1>1, <1>4, <1>8, <1>9 DEF PlaceOK
<1>11. GotOK'
  BY <1>1, <1>4 DEF MessageOK, GotOK
<1> QED
  BY <1>7, <1>10, <1>11 DEF MessageOK

\* The message goes from its producer to its element.
LEMMA CommitMessage ==
    ASSUME Types, RingOK, MessageOK, NEW p \in Producers, Commit(p)
    PROVE  MessageOK'
<1> DEFINE s == Slot(at[p].ct)
<1>1. /\ pc[p] = "write" /\ pc' = [pc EXCEPT ![p] = "idle"] /\ at' = [at EXCEPT ![p] = NoLook]
      /\ UNCHANGED <<cursor, got, next>>
  BY DEF Commit, Done, readVars
<1>2. /\ s \in Slots /\ el' \in [Slots -> Element]
      /\ \A u \in Slots : u # s => el'[u] = el[u]
      /\ el'[s].data = at[p].m /\ el'[s].flag = Holds(at[p].ct)
  BY CommitEffect
<1>3. /\ pc'[p] = "idle" /\ \A q \in Producers \ {p} : pc'[q] = pc[q] /\ at'[q] = at[q]
  BY <1>1 DEF Types
<1>4. \A q \in Producers : q # p => ~Writes(q, s)
  BY <1>1, <1>2 DEF RingOK, WriteOK, Writes
<1>5. \A r \in Receivers : Messages(r)' = Messages(r) /\ Messages(r) \subseteq 1 .. (next - 1)
  BY <1>1 DEF Messages, MessageOK, PlaceOK
<1>6. next \in Nat \ {0} /\ Torn = 0
  BY DEF Types, Torn
<1>7. /\ at[p].m \in 1 .. (next - 1)
      /\ \A q \in Producers : q # p /\ pc[q] # "idle" => at[q].m # at[p].m
      /\ \A u \in Slots : el[u].data # at[p].m
      /\ \A r \in Receivers : at[p].m \notin Messages(r)
  BY <1>1 DEF MessageOK, PlaceOK
<1>8. at[p].m # Torn /\ at[p].m < next
  BY <1>6, <1>7
<1>9. WholeOK'
  <2> SUFFICES ASSUME NEW u \in Slots, el'[u].flag.k = "holds", el'[u].data = Torn
               PROVE  \E q \in Producers : pc'[q] = "write" /\ Slot(at'[q].ct) = u
    BY DEF WholeOK
  <2>1. u # s
    BY <1>2, <1>8
  <2>2. PICK q \in Producers : pc[q] = "write" /\ Slot(at[q].ct) = u
    BY <1>2, <2>1 DEF MessageOK, WholeOK
  <2>3. q # p
    BY <2>1, <2>2
  <2> QED
    BY <1>3, <2>2, <2>3
<1> HIDE DEF s
<1>10. \A q \in Producers : pc'[q] # "idle" =>
          /\ at'[q].m \in 1 .. (next - 1)
          /\ \A i \in Producers : i # q /\ pc'[i] # "idle" => at'[i].m # at'[q].m
          /\ \A u \in Slots : el'[u].data # at'[q].m
          /\ \A r \in Receivers : at'[q].m \notin Messages(r)
  <2> TAKE q \in Producers
  <2> HAVE pc'[q] # "idle"
  <2>1. q # p /\ pc'[q] = pc[q] /\ at'[q] = at[q]
    BY <1>3
  <2>2. /\ at[q].m \in 1 .. (next - 1)
        /\ \A i \in Producers : i # q /\ pc[i] # "idle" => at[i].m # at[q].m
        /\ \A u \in Slots : el[u].data # at[q].m
        /\ \A r \in Receivers : at[q].m \notin Messages(r)
    BY <2>1 DEF MessageOK, PlaceOK
  <2>3. \A u \in Slots : el'[u].data # at[q].m
    BY <1>2, <1>7, <2>1, <2>2
  <2>4. \A i \in Producers : i # q /\ pc'[i] # "idle" => at'[i].m # at[q].m
    BY <1>3, <2>2
  <2> QED
    BY <2>1, <2>2, <2>3, <2>4
<1>11. \A u \in Slots :
          /\ el'[u].data < next
          /\ \A i \in Slots : i # u /\ el'[i].data = el'[u].data => el'[u].data = Torn
          /\ \A r \in Receivers :
                el'[u].data \in Messages(r) /\ el'[u].flag.k = "holds" => el'[u].flag.i < cursor[r]
  <2> TAKE u \in Slots
  <2>1. CASE u = s
    BY <1>2, <1>7, <1>8, <2>1
  <2>2. CASE u # s
    <3>1. \A i \in Slots : i # u /\ el'[i].data = el'[u].data => i # s
      BY <1>2, <1>7, <2>2
    <3> QED
      BY <1>2, <2>2, <3>1 DEF MessageOK, PlaceOK
  <2> QED
    BY <2>1, <2>2
<1>12. PlaceOK'
  BY <1>1, <1>5, <1>10, <1>11 DEF PlaceOK
<1>13. GotOK'
  BY <1>1, <1>5 DEF MessageOK, GotOK
<1> QED
  BY <1>9, <1>12, <1>13 DEF MessageOK

\* What is read is whole and was not read before.
LEMMA PopReadMessage ==
    ASSUME Types, RingOK, MessageOK, NEW r \in Receivers, PopRead(r)
    PROVE  MessageOK'
<1> DEFINE s == Slot(cursor[r])
           d == el[s].data
<1>1. /\ r \in cc /\ el[s].flag = Holds(cursor[r])
      /\ cursor' = [cursor EXCEPT ![r] = @ + 1] /\ got' = [got EXCEPT ![r] = Append(@, d)]
      /\ UNCHANGED <<el, pc, at, next>>
  BY DEF PopRead, ringVars
<1>2. s \in Slots /\ cursor[r] \in Nat
  BY SlotType DEF Types
<1>3. el[s] \in Element /\ d \in Nat
  BY <1>2 DEF Types, Element
<1>4. el[s].flag.k = "holds" /\ el[s].flag.i = cursor[r]
  BY <1>1 DEF Holds
<1>5. d # Torn
  <2>1. \A q \in Producers : ~Writes(q, s)
    BY <1>1, <1>2, <1>4 DEF RingOK, UnreadOK
  <2> QED
    BY <1>2, <1>4, <2>1 DEF MessageOK, WholeOK, Writes
<1>6. d \notin Messages(r)
  <2>1. d \in Messages(r) => el[s].flag.i < cursor[r]
    BY <1>2, <1>4 DEF MessageOK, PlaceOK
  <2> QED
    BY <1>2, <1>4, <2>1
<1>7. d < next
  BY <1>2 DEF MessageOK, PlaceOK
<1>8. next \in Nat \ {0} /\ Torn = 0
  BY DEF Types, Torn
<1>9. d \in 1 .. (next - 1)
  BY <1>3, <1>5, <1>7, <1>8
<1>10. \A i \in Receivers \ {r} : got'[i] = got[i] /\ cursor'[i] = cursor[i]
  BY <1>1 DEF Types
<1>11. got'[r] = Append(got[r], d) /\ cursor'[r] = cursor[r] + 1 /\ got[r] \in Seq(Nat)
  BY <1>1 DEF Types
<1> HIDE DEF d, s
<1>12. \A i \in Receivers \ {r} : Messages(i)' = Messages(i)
  BY <1>10 DEF Messages
<1>13. Messages(r)' = Messages(r) \cup {d}
  <2>1. /\ Len(got'[r]) = Len(got[r]) + 1 /\ Len(got[r]) \in Nat
        /\ \A i \in 1 .. Len(got[r]) : got'[r][i] = got[r][i]
        /\ got'[r][Len(got[r]) + 1] = d
    BY <1>3, <1>11
  <2> QED
    BY <2>1 DEF Messages
<1>14. WholeOK'
  BY <1>1 DEF MessageOK, WholeOK
<1>15. \A i \in Receivers : Messages(i)' \subseteq 1 .. (next - 1)
  BY <1>9, <1>12, <1>13 DEF MessageOK, PlaceOK
<1>16. \A q \in Producers : pc[q] # "idle" =>
          /\ at[q].m \in 1 .. (next - 1)
          /\ \A i \in Producers : i # q /\ pc[i] # "idle" => at[i].m # at[q].m
          /\ \A u \in Slots : el[u].data # at[q].m
          /\ \A i \in Receivers : at[q].m \notin Messages(i)'
  <2> TAKE q \in Producers
  <2> HAVE pc[q] # "idle"
  <2>1. /\ at[q].m \in 1 .. (next - 1)
        /\ \A i \in Producers : i # q /\ pc[i] # "idle" => at[i].m # at[q].m
        /\ \A u \in Slots : el[u].data # at[q].m
        /\ \A i \in Receivers : at[q].m \notin Messages(i)
    BY DEF MessageOK, PlaceOK
  <2>2. d # at[q].m
    BY <1>2, <2>1 DEF d
  <2> QED
    BY <1>12, <1>13, <2>1, <2>2
<1>17. \A u \in Slots :
          /\ el[u].data < next
          /\ \A i \in Slots : i # u /\ el[i].data = el[u].data => el[u].data = Torn
          /\ \A i \in Receivers :
                el[u].data \in Messages(i)' /\ el[u].flag.k = "holds" => el[u].flag.i < cursor'[i]
  <2> TAKE u \in Slots
  <2>1. /\ el[u].data < next
        /\ \A i \in Slots : i # u /\ el[i].data = el[u].data => el[u].data = Torn
        /\ \A i \in Receivers :
              el[u].data \in Messages(i) /\ el[u].flag.k = "holds" => el[u].flag.i < cursor[i]
    BY DEF MessageOK, PlaceOK
  <2>2. el[u].flag.i \in Nat
    BY DEF Types, Element, Flag
  <2>3. el[u].data = d => u = s
    <3>1. \A i \in Slots : i # u /\ el[i].data = el[u].data => el[u].data = Torn
      BY <2>1
    <3> QED
      BY <1>2, <1>5, <3>1 DEF d
  <2>4. ASSUME NEW i \in Receivers, el[u].data \in Messages(i)', el[u].flag.k = "holds"
        PROVE  el[u].flag.i < cursor'[i]
    <3>1. CASE i # r
      BY <1>10, <1>12, <2>1, <2>4, <3>1
    <3>2. CASE i = r /\ el[u].data \in Messages(r)
      <4>1. el[u].flag.i < cursor[r]
        BY <2>1, <2>4, <3>2
      <4> QED
        BY <1>2, <1>11, <2>2, <3>2, <4>1
    <3>3. CASE i = r /\ el[u].data = d
      BY <1>2, <1>4, <1>11, <2>3, <3>3
    <3> QED
      BY <1>13, <2>4, <3>1, <3>2, <3>3
  <2> QED
    BY <2>1, <2>4
<1>18. PlaceOK'
  BY <1>1, <1>15, <1>16, <1>17 DEF PlaceOK
<1>19. GotOK'
  <2> SUFFICES ASSUME NEW i \in Receivers
               PROVE  /\ IsFiniteSet(Messages(i)')
                      /\ Cardinality(Messages(i)') = Len(got'[i])
    BY DEF GotOK
  <2>1. IsFiniteSet(Messages(i)) /\ Cardinality(Messages(i)) = Len(got[i])
    BY DEF MessageOK, GotOK
  <2>2. CASE i = r
    <3>1. /\ IsFiniteSet(Messages(r) \cup {d})
          /\ Cardinality(Messages(r) \cup {d}) = Cardinality(Messages(r)) + 1
      BY <1>6, <2>1, <2>2, FS_AddElement
    <3>2. Len(got'[r]) = Len(got[r]) + 1
      BY <1>3, <1>11
    <3> QED
      BY <1>13, <2>1, <2>2, <3>1, <3>2
  <2>3. CASE i # r
    BY <1>10, <1>12, <2>1, <2>3
  <2> QED
    BY <2>2, <2>3
<1> QED
  BY <1>14, <1>18, <1>19 DEF MessageOK

-----------------------------------------------------------------------------
(* The invariant *)

\* Steps of a producer that touch no element.
LEMMA LooksPreserve ==
    ASSUME Types, RingOK, MessageOK, NEW p \in Producers,
           PushBegin(p) \/ Load(p) \/ PushFull(p) \/ Retry(p)
    PROVE  RingOK' /\ MessageOK'
<1>1. /\ pc[p] \notin {"force", "tryForce"}
      /\ epoch = 0 /\ at[p].ep = 0 /\ at[p].el.ep = 0 /\ ~at[p].forced
  BY DEF RingOK, FirstEpoch
<1>2. NoLook.ep = 0 /\ NoLook.el.ep = 0 /\ ~NoLook.forced
  BY DEF NoLook, Fresh
<1>3. next \in Nat /\ at[p] \in Look
  BY DEF Types
<1>4. CASE PushBegin(p)
  <2>1. /\ pc[p] = "idle" /\ pc' = [pc EXCEPT ![p] = "push"]
        /\ at' = [at EXCEPT ![p] = [NoLook EXCEPT !.ep = epoch, !.m = next]]
        /\ next' = next + 1
        /\ UNCHANGED <<ct, epoch, el, cc, cursor, rpc, got>>
    BY <1>4 DEF PushBegin, ringVars, readVars
  <2>2. /\ pc'[p] = "push" /\ at'[p] = [NoLook EXCEPT !.ep = epoch, !.m = next]
        /\ \A q \in Producers \ {p} : pc'[q] = pc[q] /\ at'[q] = at[q]
    BY <2>1 DEF Types
  <2>3. at'[p].ep = 0 /\ at'[p].el.ep = 0 /\ ~at'[p].forced /\ at'[p].m = next
    BY <1>1, <2>2 DEF NoLook, Fresh
  <2>4. RingOK'
    BY <2>1, <2>2, <2>3, BackRing
  <2>5. MessageOK'
    BY <1>3, <2>1, <2>2, <2>3, StayMessage
  <2> QED
    BY <2>4, <2>5
<1>5. CASE Load(p) /\ cc = {}
  <2>1. /\ pc[p] = "push" /\ pc' = [pc EXCEPT ![p] = "idle"] /\ at' = [at EXCEPT ![p] = NoLook]
        /\ UNCHANGED <<ct, epoch, el, cc, cursor, rpc, got, next>>
    BY <1>1, <1>5 DEF Load, Done, ringVars, readVars
  <2>2. /\ pc'[p] = "idle" /\ at'[p] = NoLook
        /\ \A q \in Producers \ {p} : pc'[q] = pc[q] /\ at'[q] = at[q]
    BY <2>1 DEF Types
  <2>3. RingOK'
    BY <1>2, <2>1, <2>2, BackRing
  <2>4. MessageOK'
    BY <1>3, <2>1, <2>2, StayMessage
  <2> QED
    BY <2>3, <2>4
<1>6. CASE Load(p) /\ cc # {}
  <2>1. /\ pc[p] = "push" /\ pc' = [pc EXCEPT ![p] = "try"]
        /\ at' = [at EXCEPT ![p] = [at[p] EXCEPT !.ct = ct, !.cc = cc, !.el = el[Slot(ct)]]]
        /\ UNCHANGED <<ct, epoch, el, cc, cursor, rpc, got, next>>
    BY <1>1, <1>6 DEF Load, ringVars, readVars
  <2>2. /\ pc'[p] = "try"
        /\ at'[p] = [at[p] EXCEPT !.ct = ct, !.cc = cc, !.el = el[Slot(ct)]]
        /\ \A q \in Producers \ {p} : pc'[q] = pc[q] /\ at'[q] = at[q]
    BY <2>1 DEF Types
  <2>3. /\ at'[p].ct = ct /\ at'[p].cc = cc /\ at'[p].el = el[Slot(ct)]
        /\ at'[p].ep = 0 /\ ~at'[p].forced /\ at'[p].m = at[p].m
    BY <1>1, <1>3, <2>2 DEF Look
  <2>4. RingOK'
    BY <1>6, <2>1, <2>2, <2>3, LoadRing
  <2>5. MessageOK'
    BY <1>3, <2>1, <2>2, <2>3, StayMessage
  <2> QED
    BY <2>4, <2>5
<1>7. CASE PushFull(p)
  <2>1. /\ pc[p] = "try" /\ pc' = [pc EXCEPT ![p] = "idle"] /\ at' = [at EXCEPT ![p] = NoLook]
        /\ UNCHANGED <<ct, epoch, el, cc, cursor, rpc, got, next>>
    BY <1>1, <1>7 DEF PushFull, Done, readVars
  <2>2. /\ pc'[p] = "idle" /\ at'[p] = NoLook
        /\ \A q \in Producers \ {p} : pc'[q] = pc[q] /\ at'[q] = at[q]
    BY <2>1 DEF Types
  <2>3. RingOK'
    BY <1>2, <2>1, <2>2, BackRing
  <2>4. MessageOK'
    BY <1>3, <2>1, <2>2, StayMessage
  <2> QED
    BY <2>3, <2>4
<1>8. CASE Retry(p)
  <2>1. /\ pc[p] = "try" /\ pc' = [pc EXCEPT ![p] = "push"]
        /\ UNCHANGED <<ct, epoch, el, cc, at, cursor, rpc, got, next>>
    BY <1>1, <1>8 DEF Retry, ringVars, readVars
  <2>2. /\ pc'[p] = "push"
        /\ \A q \in Producers \ {p} : pc'[q] = pc[q]
    BY <2>1 DEF Types
  <2>3. RingOK'
    BY <1>1, <2>1, <2>2, BackRing
  <2>4. MessageOK'
    BY <1>3, <2>1, <2>2, StayMessage
  <2> QED
    BY <2>3, <2>4
<1> QED
  BY <1>4, <1>5, <1>6, <1>7, <1>8

LEMMA ClaimPreserves ==
    ASSUME Types, RingOK, MessageOK, NEW p \in Producers, PushClaim(p)
    PROVE  RingOK' /\ MessageOK'
<1>1. RingOK' /\ pc' = [pc EXCEPT ![p] = "won"] /\ UNCHANGED at
  BY ClaimRing
<1>2. pc[p] = "try" /\ Exchange(p) /\ UNCHANGED <<got, cursor, next>>
  BY DEF PushClaim, readVars
<1>3. \A s \in Slots : el'[s].data = el[s].data /\ el'[s].flag = el[s].flag
  BY <1>2, ExchangeEffect
<1>4. pc'[p] = "won" /\ \A q \in Producers \ {p} : pc'[q] = pc[q]
  BY <1>1 DEF Types
<1>5. next \in Nat
  BY DEF Types
<1> QED
  BY <1>1, <1>2, <1>3, <1>4, <1>5, StayMessage

LEMMA ReceiverPreserves ==
    ASSUME Types, RingOK, MessageOK, NEW r \in Receivers,
           PopCount(r) \/ PopTakeOut(r) \/ Disconnect(r)
    PROVE  RingOK' /\ MessageOK'
<1>1. RingOK'
  BY PopCountRing, PopTakeOutRing, DisconnectRing
<1>2. UNCHANGED <<got, cursor, next, pc, at>>
  BY DEF PopCount, PopTakeOut, Disconnect, readVars
<1>3. \A s \in Slots : /\ el'[s].data = el[s].data
                       /\ el'[s].flag = el[s].flag \/ el'[s].flag.k # "holds"
  <2>1. FreeFor(cursor[r] - 1 + N).k # "holds"
    BY DEF FreeFor
  <2>2. CASE PopCount(r)
    BY <2>1, <2>2, CountEffect
  <2>3. CASE PopTakeOut(r)
    BY <2>3, TakeOutEffect
  <2>4. CASE Disconnect(r)
    BY <2>4 DEF Disconnect, ringVars
  <2> QED
    BY <2>2, <2>3, <2>4
<1>4. next \in Nat
  BY DEF Types
<1>5. MessageOK'
  BY <1>2, <1>3, <1>4, StayMessage
<1> QED
  BY <1>1, <1>5

LEMMA InitInv == Init => Inv
BY InitTypes, InitRing, InitMessage DEF Inv, Init

LEMMA NextInv == Inv /\ [Next]_vars => Inv'
<1> SUFFICES ASSUME Inv, [Next]_vars PROVE Inv'
  OBVIOUS
<1>1. Types /\ Types'
  BY NextTypes DEF Inv
<1> SUFFICES ASSUME Quiet' PROVE ~clash' /\ RingOK' /\ MessageOK'
  BY <1>1 DEF Inv
<1>2. CASE UNCHANGED vars
  <2>1. Quiet
    BY <1>2 DEF Quiet, vars, history
  <2>2. ~clash /\ RingOK /\ MessageOK
    BY <2>1 DEF Inv
  <2>3. ~clash'
    BY <1>2, <2>2 DEF vars, history
  <2>4. RingOK'
    BY <1>2, <2>2 DEF vars, ringVars, readVars, RingOK, FirstEpoch, LookOK, WriteOK, ReadOK,
                      UnreadOK, MayWin, Writes, Reads
  <2>5. MessageOK'
    BY <1>2, <2>2 DEF vars, ringVars, readVars, MessageOK, WholeOK, PlaceOK, GotOK, Messages
  <2> QED
    BY <2>3, <2>4, <2>5
<1>3. ASSUME NEW p \in Producers, PushBegin(p) \/ ForceBegin(p) \/ Produce(p)
      PROVE  ~clash' /\ RingOK' /\ MessageOK'
  <2>1. ~ForceBegin(p)
    BY <1>1 DEF ForceBegin, Quiet, Types
  <2>2. Quiet
    BY <1>3, <2>1 DEF Quiet, PushBegin, Produce, Load, PushFull, PushClaim, ForceClaim, Retry,
                      Advance, Commit, history
  <2>3. ~clash /\ RingOK /\ MessageOK
    BY <2>2 DEF Inv
  <2>4. ~ForceClaim(p)
    BY <2>3 DEF ForceClaim, RingOK, FirstEpoch
  <2>5. CASE Advance(p)
    BY <1>1, <2>3, <2>5, AdvanceRing, AdvanceMessage
  <2>6. CASE Commit(p)
    <3>1. ~clash'
      BY <2>3, <2>6 DEF Commit
    <3> QED
      BY <1>1, <2>3, <2>6, <3>1, CommitRing, CommitMessage
  <2>7. CASE PushClaim(p)
    <3>1. ~clash'
      BY <2>3, <2>7 DEF PushClaim, history
    <3> QED
      BY <1>1, <2>3, <2>7, <3>1, ClaimPreserves
  <2>8. CASE PushBegin(p) \/ Load(p) \/ PushFull(p) \/ Retry(p)
    <3>1. ~clash'
      BY <2>3, <2>8 DEF PushBegin, Load, PushFull, Retry, history
    <3> QED
      BY <1>1, <2>3, <2>8, <3>1, LooksPreserve
  <2> QED
    BY <1>3, <2>1, <2>4, <2>5, <2>6, <2>7, <2>8 DEF Produce
<1>4. ASSUME NEW r \in Receivers, Pop(r) \/ Connect(r) \/ Disconnect(r)
      PROVE  ~clash' /\ RingOK' /\ MessageOK'
  <2>1. ~Connect(r)
    BY DEF Connect, Quiet
  <2>2. Quiet
    BY <1>4, <2>1 DEF Quiet, Pop, PopRead, PopCount, PopTakeOut, Disconnect, history
  <2>3. ~clash /\ RingOK /\ MessageOK
    BY <2>2 DEF Inv
  <2>4. ~clash'
    BY <1>4, <2>1, <2>3 DEF Pop, PopRead, PopCount, PopTakeOut, Disconnect, history
  <2>5. CASE PopRead(r)
    BY <1>1, <2>3, <2>4, <2>5, PopReadRing, PopReadMessage
  <2>6. CASE PopCount(r) \/ PopTakeOut(r) \/ Disconnect(r)
    BY <1>1, <2>3, <2>4, <2>6, ReceiverPreserves
  <2> QED
    BY <1>4, <2>1, <2>5, <2>6 DEF Pop
<1> QED
  BY <1>2, <1>3, <1>4 DEF Next

\* The types of the ring and of what its producers and receivers hold.
THEOREM TypeCorrect == Spec => []Types
<1>1. Inv => Types
  BY DEF Inv
<1> QED
  BY <1>1, InitInv, NextInv, PTL DEF Spec

\* push and pop without a timed out send and without a receiver that joins: two
\* producers never write one element, and a receiver reads whole messages and each
\* of them once, whatever the producers saw before their exchange.
THEOREM WholeAndOnce == Spec => []ReadsWhole
<1>1. Inv => ReadsWhole
  <2> SUFFICES ASSUME Inv PROVE ReadsWhole
    OBVIOUS
  <2>1. OneWriter
    BY DEF Inv, OneWriter, Quiet
  <2>2. ASSUME NEW r \in Receivers, forces = 0, ~joined
        PROVE  Torn \notin Messages(r) /\ Cardinality(Messages(r)) = Len(got[r])
    <3>1. MessageOK
      BY <2>2 DEF Inv, Quiet
    <3>2. Messages(r) \subseteq 1 .. (next - 1)
      BY <3>1 DEF MessageOK, PlaceOK
    <3>3. Cardinality(Messages(r)) = Len(got[r])
      BY <3>1 DEF MessageOK, GotOK
    <3> QED
      BY <3>2, <3>3 DEF Torn
  <2> QED
    BY <2>1, <2>2 DEF ReadsWhole
<1> QED
  BY <1>1, InitInv, NextInv, PTL DEF Spec
-----------------------------------------------------------------------------
(***************************************************************************)
(* Arithmetic of positions in a ring of n elements.                        *)
(***************************************************************************)

\* Quotient and remainder.
LEMMA DivMod ==
  ASSUME NEW n \in Nat \ {0}, NEW a \in Int
  PROVE  /\ a \div n \in Int
         /\ a % n \in 0..(n - 1)
         /\ a = n * (a \div n) + (a % n)
OBVIOUS

\* A non-zero multiple of n is at least n.
LEMMA Multiples ==
  ASSUME NEW n \in Nat \ {0}, NEW k \in Int, NEW m \in Int
  PROVE  /\ n * m - n * k = n * (m - k)
         /\ k >= 1 => n * k >= n
         /\ k <= 0 => n * k <= 0
OBVIOUS

\* Positions less than a lap apart lie in different elements.
LEMMA ModApart ==
  ASSUME NEW n \in Nat \ {0}, NEW p \in Int, NEW q \in Int, p < q, q < p + n
  PROVE  p % n # q % n
<1> DEFINE k == p \div n
           m == q \div n
<1> SUFFICES ASSUME p % n = q % n PROVE FALSE
  OBVIOUS
<1>1. /\ k \in Int /\ m \in Int /\ p % n \in Int
      /\ p = n * k + (p % n) /\ q = n * m + (q % n)
  BY DivMod
<1> HIDE DEF k, m
<1>2. q - p = n * (m - k)
  <2>1. q - p = n * m - n * k
    BY <1>1
  <2> QED
    BY <1>1, <2>1, Multiples
<1>3. CASE m - k >= 1
  BY <1>1, <1>2, <1>3, Multiples
<1>4. CASE m - k <= 0
  BY <1>1, <1>2, <1>4, Multiples
<1> QED
  BY <1>1, <1>3, <1>4

\* Positions a lap apart lie in one element.
LEMMA ModLap ==
  ASSUME NEW n \in Nat \ {0}, NEW q \in Int
  PROVE  (q + n) % n = q % n
<1> SUFFICES ASSUME NEW p \in Int, p = q + n PROVE p % n = q % n
  OBVIOUS
<1> DEFINE k == q \div n
           m == p \div n
           a == q % n
           b == p % n
<1>1. /\ k \in Int /\ m \in Int /\ a \in 0..(n - 1) /\ b \in 0..(n - 1)
      /\ q = n * k + a /\ p = n * m + b
  BY DivMod
<1> SUFFICES a = b
  OBVIOUS
<1> HIDE DEF k, m, a, b
<1>2. n * m - n * k = n * (m - k)
  BY <1>1, Multiples
<1>3. n * (m - k) = n + a - b
  BY <1>1, <1>2
<1>4. CASE m - k <= 0
  BY <1>1, <1>3, <1>4, Multiples
<1>5. CASE m - k >= 2
  <2>1. n * (m - k) - n * 1 = n * (m - k - 1)
    BY <1>1, Multiples
  <2>2. n * (m - k - 1) >= n
    BY <1>1, <1>5, Multiples
  <2> QED
    BY <1>1, <1>3, <2>1, <2>2
<1>6. CASE m - k = 1
  BY <1>1, <1>3, <1>6
<1> QED
  BY <1>1, <1>4, <1>5, <1>6
-----------------------------------------------------------------------------
(***************************************************************************)
(* The unicast rings.                                                      *)
(***************************************************************************)

\* A position has an element.
LEMMA UnicastSlot ==
    ASSUME NEW p \in Nat
    PROVE  U!Slot(p) \in 0..(N - 1)
BY ChannelAssumption, DivMod DEF U!Slot

\* Positions less than a lap apart have different ones.
LEMMA UnicastSlotApart ==
    ASSUME NEW p \in Nat, NEW q \in Nat, p < q, q < p + N
    PROVE  U!Slot(p) # U!Slot(q)
<1>1. N \in Nat \ {0} /\ p \in Int /\ q \in Int
  BY ChannelAssumption
<1>2. p % N # q % N
  BY <1>1, ModApart, Zenon
<1> QED
  BY <1>2, Zenon DEF U!Slot

\* One element stays free.
LEMMA UnicastNotFull ==
    ASSUME NEW i \in Nat, rd \in Nat, i < rd + N, ~U!Full(i + 1)
    PROVE  i + 1 < rd + N
<1>1. U!Slot(rd + N) = U!Slot(rd)
  <2>1. N \in Nat \ {0} /\ rd \in Int
    BY ChannelAssumption
  <2>2. (rd + N) % N = rd % N
    BY <2>1, ModLap, Zenon
  <2> QED
    BY <2>2, Zenon DEF U!Slot
<1> QED
  BY <1>1, ChannelAssumption DEF U!Full
\* A send that ran out of time on an ss ring lets a second consumer in.
Alone == policy = "ss" => uforces = 0

\* The types, and ct_ stays within the bound, below the mark of an element that is not
\* committed.
UnicastTypes ==
    /\ rd \in Nat /\ wt \in Nat /\ uct \in Nat /\ uforces \in Nat
    /\ uct <= MaxPush
    /\ data \in [0..(N - 1) -> Nat]
    /\ flag \in [0..(N - 1) -> Nat]
    /\ sending \subseteq Pushers /\ member \subseteq Poppers /\ taken \in BOOLEAN
    /\ upc \in [U!Threads -> {"idle", "write1", "claim", "write", "advance", "store",
                              "look", "help", "copied"}]
    /\ cur \in [U!Threads -> Nat]
    /\ ubuff \in [U!Threads -> Nat]
    /\ popped \in Seq(Nat)
    /\ \A t \in U!Threads : upc[t] = "claim" => cur[t] < MaxPush

\* Where the policies lead, and how many may be inside push and pop.
UnicastPlaces ==
    /\ \A t \in U!Threads :
        /\ upc[t] = "write1" => policy # "mm" /\ t \in sending
        /\ upc[t] \in {"claim", "write", "advance", "store", "help"} => policy = "mm"
        /\ upc[t] \in {"look", "help", "copied"} => t \in member
    /\ policy # "mm" => \A p, q \in sending : p = q
    /\ policy = "ss" /\ Alone => \A c, d \in member : c = d /\ taken

\* The next index to be claimed.
NextIndex == IF policy = "mm" THEN uct ELSE wt

\* The indices, and what lies between rd_ and wt_.
IndexOK ==
    /\ rd <= wt /\ wt <= NextIndex /\ NextIndex < rd + N
    /\ \A i \in rd..(wt - 1) : data[U!Slot(i)] = i + 1

\* The producer of ss and sm writes at wt_, and one element stays free.
SingleOK ==
    \A p \in U!Threads : upc[p] = "write1" => cur[p] = wt /\ wt + 1 < rd + N

\* A commit flag names the element it is in, which is written and has yet to be passed.
FlagOK ==
    policy = "mm" => \A s \in 0..(N - 1) : flag[s] # U!NoFlag =>
        /\ wt <= flag[s] /\ flag[s] < uct
        /\ U!Slot(flag[s]) = s
        /\ data[s] = flag[s] + 1

\* A producer of mm owns the element it claimed until it is committed.
ClaimOK ==
    \A p \in U!Threads :
        upc[p] = "write" =>
             /\ wt <= cur[p] /\ cur[p] < uct
             /\ flag[U!Slot(cur[p])] # cur[p]
             /\ \A q \in U!Threads : upc[q] = "write" /\ cur[q] = cur[p] => q = p

\* Who took the flag of the element at wt_ is the one that moves wt_.
MoverOK ==
    \A t \in U!Threads : upc[t] \in {"store", "help"} =>
        /\ cur[t] = wt /\ wt < uct
        /\ data[U!Slot(wt)] = wt + 1
        /\ flag[U!Slot(wt)] # wt
        /\ \A u \in U!Threads : upc[u] = "write" => cur[u] # wt
        /\ \A u \in U!Threads : upc[u] \in {"store", "help"} => u = t

\* A consumer whose index is still rd_ has copied the element there, whole.
PopOK ==
    \A c \in U!Threads :
        /\ upc[c] \in {"look", "copied"} =>
               /\ cur[c] <= rd
               /\ policy = "ss" => cur[c] = rd
        /\ upc[c] = "copied" /\ cur[c] = rd => rd < wt /\ ubuff[c] = rd + 1

\* Consumers got the elements before rd_, in order.
PoppedOK == Len(popped) = rd /\ \A i \in 1..rd : popped[i] = i

UnicastRules == IndexOK /\ SingleOK /\ FlagOK /\ ClaimOK /\ MoverOK /\ PopOK /\ PoppedOK
UnicastInv == UnicastTypes /\ UnicastPlaces /\ (Alone => UnicastRules)
-----------------------------------------------------------------------------
\* A call that goes on: where the thread is, and the index it works on.
LEMMA UnicastMoves ==
    ASSUME UnicastTypes, NEW t \in U!Threads, NEW l, NEW i
    PROVE  /\ U!Goto(t, l) => /\ upc'[t] = l
                              /\ \A u \in U!Threads \ {t} : upc'[u] = upc[u]
           /\ U!At(t, i, l) => /\ upc'[t] = l /\ cur'[t] = i
                               /\ \A u \in U!Threads \ {t} : upc'[u] = upc[u] /\ cur'[u] = cur[u]
           /\ U!Done(t) => /\ upc'[t] = "idle"
                           /\ \A u \in U!Threads \ {t} : upc'[u] = upc[u] /\ cur'[u] = cur[u]
                                                         /\ ubuff'[u] = ubuff[u]
BY DEF UnicastTypes, U!Goto, U!At, U!Done

\* Every step of a producer keeps the types.
LEMMA PusherTypes ==
    ASSUME UnicastTypes, NEW p \in Pushers,
           \/ U!ConnectSender(p) \/ U!DisconnectSender(p) \/ U!ForcePush(p)
           \/ U!PushSingle(p) \/ U!PushLoad(p) \/ U!Push(p)
    PROVE  UnicastTypes'
<1>0. p \in U!Threads
  BY DEF U!Threads
<1>n. MaxPush \in Nat /\ MaxPush + 1 \in Nat
  BY ChannelAssumption
<1>1. CASE U!ConnectSender(p) \/ U!DisconnectSender(p) \/ U!ForcePush(p)
  <2>1. sending' \subseteq Pushers /\ taken' \in BOOLEAN /\ uforces' \in Nat
    <3>1. CASE U!ConnectSender(p)
      BY <3>1 DEF U!ConnectSender, UnicastTypes
    <3>2. CASE U!DisconnectSender(p)
      BY <3>2 DEF U!DisconnectSender, UnicastTypes
    <3>3. CASE U!ForcePush(p)
      <4>1. sending' = sending /\ taken' = FALSE /\ uforces' = uforces + 1
        BY <3>3 DEF U!ForcePush
      <4>2. taken' \in BOOLEAN
        BY <4>1
      <4>3. uforces' \in Nat /\ sending' \subseteq Pushers
        BY <4>1 DEF UnicastTypes
      <4> QED
        BY <4>2, <4>3
    <3> QED
      BY <1>1, <3>1, <3>2, <3>3
  <2>2. UNCHANGED <<U!ringVars, member, U!threadVars, popped>>
    BY <1>1 DEF U!ConnectSender, U!DisconnectSender, U!ForcePush
  <2> QED
    BY <2>1, <2>2 DEF UnicastTypes, U!ringVars, U!threadVars
<1>2. CASE U!PushSingle(p)
  <2>1. data' \in [0..(N - 1) -> Nat]
    BY <1>2, <1>n DEF U!PushSingle, UnicastTypes, U!Torn
  <2> QED
    BY <1>0, <1>2, <2>1 DEF U!At, U!Goto, U!Done, U!PushSingle, UnicastTypes, U!connVars
<1>3. CASE U!PushSingleDone(p)
  <2>1. data' \in [0..(N - 1) -> Nat]
    <3>1. cur[p] + 1 \in Nat
      BY <1>0 DEF UnicastTypes
    <3> QED
      BY <1>3, <3>1 DEF U!PushSingleDone, UnicastTypes
  <2> QED
    BY <1>0, <1>3, <2>1 DEF U!At, U!Goto, U!Done, U!PushSingleDone, UnicastTypes, U!connVars
<1>4. CASE U!PushLoad(p)
  BY <1>0, <1>4 DEF U!At, U!Goto, U!Done, U!PushLoad, UnicastTypes, U!connVars, U!ringVars
<1>5. CASE U!PushFull(p) \/ U!PushLeave(p)
  <2>1. U!Done(p) /\ UNCHANGED <<U!ringVars, U!connVars, popped, uforces>>
    BY <1>5 DEF U!PushFull, U!PushLeave
  <2> QED
    BY <1>0, <2>1 DEF U!Done, UnicastTypes, U!connVars, U!ringVars
<1>6. CASE U!PushClaim(p)
  <2>1. data' \in [0..(N - 1) -> Nat]
    BY <1>6, <1>n DEF U!PushClaim, UnicastTypes, U!Torn
  <2>2. uct' \in Nat /\ uct' <= MaxPush
    BY <1>0, <1>6, ChannelAssumption DEF U!PushClaim, UnicastTypes
  <2>3. /\ upc' \in [U!Threads -> {"idle", "write1", "claim", "write",
                                   "advance", "store", "look", "help", "copied"}]
        /\ cur' \in [U!Threads -> Nat] /\ ubuff' \in [U!Threads -> Nat]
        /\ \A t \in U!Threads : upc'[t] = "claim" => upc[t] = "claim" /\ cur'[t] = cur[t]
    <3>1. CASE uct = cur[p]
      <4>1. upc' = [upc EXCEPT ![p] = "write"] /\ cur' = cur /\ ubuff' = ubuff
        BY <1>6, <3>1 DEF U!Goto, U!PushClaim
      <4> QED
        BY <1>0, <4>1 DEF UnicastTypes
    <3>2. CASE uct # cur[p]
      <4>1. /\ upc' = [upc EXCEPT ![p] = "idle"] /\ cur' = [cur EXCEPT ![p] = 0]
            /\ ubuff' = [ubuff EXCEPT ![p] = 0]
        BY <1>6, <3>2 DEF U!Done, U!PushClaim
      <4> QED
        BY <1>0, <4>1 DEF UnicastTypes
    <3> QED
      BY <3>1, <3>2
  <2> QED
    BY <1>6, <2>1, <2>2, <2>3 DEF U!PushClaim, UnicastTypes, U!connVars
<1>7. CASE U!PushCommit(p)
  <2>1. data' \in [0..(N - 1) -> Nat] /\ flag' \in [0..(N - 1) -> Nat]
    <3>1. cur[p] + 1 \in Nat /\ cur[p] \in Nat
      BY <1>0 DEF UnicastTypes
    <3> QED
      BY <1>7, <3>1 DEF U!PushCommit, UnicastTypes
  <2> QED
    BY <1>0, <1>7, <2>1 DEF U!At, U!Goto, U!Done, U!PushCommit, UnicastTypes, U!connVars
<1>8. CASE U!PushTakeFlag(p)
  <2>1. flag' \in [0..(N - 1) -> Nat]
    BY <1>0, <1>8, <1>n DEF U!PushTakeFlag, UnicastTypes, U!NoFlag
  <2> QED
    BY <1>0, <1>8, <2>1 DEF U!At, U!Goto, U!Done, U!PushTakeFlag, UnicastTypes, U!connVars
<1>9. CASE U!PushStore(p)
  <2>1. cur[p] + 1 \in Nat
    BY <1>0 DEF UnicastTypes
  <2> QED
    BY <1>0, <1>9, <2>1 DEF U!At, U!Goto, U!Done, U!PushStore, UnicastTypes, U!connVars
<1> QED
  BY <1>1, <1>2, <1>3, <1>4, <1>5, <1>6, <1>7, <1>8, <1>9 DEF U!Push

\* Every step of a consumer keeps the types.
LEMMA PopperTypes ==
    ASSUME UnicastTypes, NEW c \in Poppers,
           U!ConnectReceiver(c) \/ U!DisconnectReceiver(c) \/ U!Pop(c)
    PROVE  UnicastTypes'
<1>0. c \in U!Threads
  BY DEF U!Threads
<1>n. MaxPush \in Nat /\ MaxPush + 1 \in Nat
  BY ChannelAssumption
<1>1. CASE U!ConnectReceiver(c) \/ U!DisconnectReceiver(c)
  BY <1>1 DEF U!ConnectReceiver, U!DisconnectReceiver, UnicastTypes, U!ringVars, U!threadVars
<1>2. CASE U!PopLoad(c)
  BY <1>0, <1>2 DEF U!At, U!Goto, U!PopLoad, UnicastTypes, U!connVars, U!ringVars
<1>7. CASE U!PopEmpty(c)
  BY <1>0, <1>7 DEF U!Done, U!PopEmpty, UnicastTypes, U!connVars, U!ringVars
<1>3. CASE U!PopHelp(c)
  <2>1. flag' \in [0..(N - 1) -> Nat]
    BY <1>3, <1>n DEF U!PopHelp, UnicastTypes, U!NoFlag
  <2> QED
    BY <1>0, <1>3, <2>1 DEF U!At, U!Goto, U!Done, U!PopHelp, UnicastTypes, U!connVars
<1>4. CASE U!PopHelpStore(c)
  <2>1. cur[c] + 1 \in Nat
    BY <1>0 DEF UnicastTypes
  <2> QED
    BY <1>0, <1>4, <2>1 DEF U!At, U!Goto, U!Done, U!PopHelpStore, UnicastTypes, U!connVars
<1>5. CASE U!PopCopy(c)
  <2>1. ubuff' \in [U!Threads -> Nat]
    <3>1. data[U!Slot(cur[c])] \in Nat
      BY <1>0, UnicastSlot DEF UnicastTypes
    <3> QED
      BY <1>0, <1>5, <3>1 DEF U!PopCopy, UnicastTypes
  <2> QED
    BY <1>0, <1>5, <2>1 DEF U!At, U!Goto, U!Done, U!PopCopy, UnicastTypes, U!connVars, U!ringVars
<1>6. CASE U!PopTake(c)
  <2>1. popped' \in Seq(Nat) /\ rd' \in Nat
    <3>1. ubuff[c] \in Nat /\ rd + 1 \in Nat
      BY <1>0 DEF UnicastTypes
    <3>2. Append(popped, ubuff[c]) \in Seq(Nat)
      BY <3>1 DEF UnicastTypes
    <3> QED
      BY <1>6, <3>1, <3>2 DEF U!PopTake, UnicastTypes
  <2> QED
    BY <1>0, <1>6, <2>1 DEF U!At, U!Goto, U!Done, U!PopTake, UnicastTypes, U!connVars
<1> QED
  BY <1>1, <1>2, <1>3, <1>4, <1>5, <1>6, <1>7 DEF U!Pop

\* Every step keeps the types.
LEMMA UnicastTypesNext ==
    ASSUME UnicastTypes, [U!Next]_U!vars
    PROVE  UnicastTypes'
<1>1. CASE UNCHANGED U!vars
  BY <1>1 DEF UnicastTypes, U!vars, U!ringVars, U!connVars, U!threadVars
<1> QED
  BY <1>1, PusherTypes, PopperTypes DEF U!Next

\* A step of a producer that is not a connection: who is where.
LEMMA UnicastPlacesNext ==
    ASSUME UnicastTypes, UnicastPlaces, [U!Next]_U!vars
    PROVE  UnicastPlaces'
<1>0. /\ Pushers \subseteq U!Threads /\ Poppers \subseteq U!Threads
      /\ \A t \in U!Threads : upc[t] = "idle" => TRUE
  BY DEF U!Threads
<1>1. ASSUME NEW p \in Pushers, U!ConnectSender(p) PROVE UnicastPlaces'
  BY <1>1 DEF U!ConnectSender, UnicastPlaces, U!threadVars, Alone
<1>2. ASSUME NEW p \in Pushers, U!DisconnectSender(p) PROVE UnicastPlaces'
  BY <1>2 DEF U!DisconnectSender, UnicastPlaces, U!threadVars, Alone
<1>3. ASSUME NEW p \in Pushers, U!ForcePush(p) PROVE UnicastPlaces'
  BY <1>3 DEF U!ForcePush, UnicastPlaces, U!threadVars, Alone, UnicastTypes
<1>4. ASSUME NEW c \in Poppers, U!ConnectReceiver(c) PROVE UnicastPlaces'
  BY <1>4 DEF U!ConnectReceiver, UnicastPlaces, U!threadVars, Alone
<1>5. ASSUME NEW c \in Poppers, U!DisconnectReceiver(c) PROVE UnicastPlaces'
  BY <1>5 DEF U!DisconnectReceiver, UnicastPlaces, U!threadVars, Alone
<1>6. ASSUME NEW p \in Pushers, U!PushSingle(p) \/ U!PushLoad(p) \/ U!Push(p)
      PROVE  UnicastPlaces'
  <2>1. /\ policy' = policy /\ sending' = sending /\ member' = member /\ taken' = taken
        /\ uforces' = uforces
    BY <1>6 DEF U!PushSingle, U!PushLoad, U!Push, U!PushSingleDone, U!PushFull, U!PushClaim,
       U!PushCommit, U!PushLeave, U!PushTakeFlag, U!PushStore, U!connVars
  <2>2. p \in U!Threads /\ \A t \in U!Threads \ {p} : upc'[t] = upc[t]
    BY <1>0, <1>6, UnicastMoves DEF U!PushSingle, U!PushLoad, U!Push, U!PushSingleDone,
       U!PushFull, U!PushClaim, U!PushCommit, U!PushLeave, U!PushTakeFlag, U!PushStore
  <2>3. \/ upc'[p] = "idle"
        \/ upc'[p] = "write1" /\ policy # "mm" /\ p \in sending
        \/ upc'[p] = "claim" /\ policy = "mm"
        \/ /\ upc'[p] \in {"write", "advance", "store"}
           /\ upc[p] \in {"claim", "write", "advance", "store"}
    BY <1>6, <2>2, UnicastMoves DEF U!PushSingle, U!PushLoad, U!Push, U!PushSingleDone,
       U!PushFull, U!PushClaim, U!PushCommit, U!PushLeave, U!PushTakeFlag, U!PushStore
  <2> QED
    BY <2>1, <2>2, <2>3 DEF UnicastPlaces, Alone
<1>7. ASSUME NEW c \in Poppers, U!Pop(c) PROVE UnicastPlaces'
  <2>1. /\ policy' = policy /\ sending' = sending /\ member' = member /\ taken' = taken
        /\ uforces' = uforces
    BY <1>7 DEF U!Pop, U!PopLoad, U!PopEmpty, U!PopHelp, U!PopHelpStore, U!PopCopy, U!PopTake,
       U!connVars
  <2>2. c \in U!Threads /\ \A t \in U!Threads \ {c} : upc'[t] = upc[t]
    BY <1>0, <1>7, UnicastMoves DEF U!Pop, U!PopLoad, U!PopEmpty, U!PopHelp, U!PopHelpStore,
       U!PopCopy, U!PopTake
  <2>3. \/ upc'[c] = "idle"
        \/ upc'[c] = "look" /\ c \in member
        \/ upc'[c] = "help" /\ policy = "mm" /\ upc[c] = "look"
        \/ upc'[c] = "copied" /\ upc[c] = "look"
    BY <1>7, <2>2, UnicastMoves DEF U!Pop, U!PopLoad, U!PopEmpty, U!PopHelp, U!PopHelpStore,
       U!PopCopy, U!PopTake
  <2> QED
    BY <2>1, <2>2, <2>3 DEF UnicastPlaces, Alone
<1>8. CASE UNCHANGED U!vars
  BY <1>8 DEF U!vars, U!connVars, U!threadVars, UnicastPlaces, Alone
<1> QED
  BY <1>1, <1>2, <1>3, <1>4, <1>5, <1>6, <1>7, <1>8 DEF U!Next
-----------------------------------------------------------------------------
\* A step that moves no thread and no index.
LEMMA RingStays ==
    ASSUME UnicastRules, UNCHANGED <<policy, U!ringVars, U!threadVars, popped>>
    PROVE  UnicastRules'
BY DEF UnicastRules, IndexOK, SingleOK, FlagOK, ClaimOK, MoverOK, PopOK, PoppedOK, NextIndex,
       U!ringVars, U!threadVars

\* A thread that reads an index, or gives up, leaves the ring alone.
LEMMA LookRules ==
    ASSUME UnicastTypes, UnicastPlaces, UnicastRules, NEW t \in U!Threads,
           UNCHANGED <<policy, U!ringVars, popped>>,
           \A u \in U!Threads \ {t} : /\ upc'[u] = upc[u]
                                      /\ cur'[u] = cur[u]
                                      /\ ubuff'[u] = ubuff[u],
           upc'[t] = "idle" \/ upc'[t] = "claim" \/ (upc'[t] = "look" /\ cur'[t] = rd)
    PROVE  UnicastRules'
<1>1. IndexOK' /\ FlagOK' /\ PoppedOK'
  BY DEF UnicastRules, IndexOK, FlagOK, PoppedOK, NextIndex, U!ringVars
<1>2. SingleOK' /\ ClaimOK' /\ MoverOK'
  BY DEF UnicastRules, SingleOK, ClaimOK, MoverOK, U!ringVars
<1>3. PopOK'
  <2>1. rd' = rd /\ wt' = wt /\ rd \in Nat /\ policy' = policy
    BY DEF U!ringVars, UnicastTypes
  <2> QED
    BY <2>1 DEF UnicastRules, PopOK
<1> QED
  BY <1>1, <1>2, <1>3 DEF UnicastRules

\* A call that ends with nothing done.
LEMMA DoneRules ==
    ASSUME UnicastTypes, UnicastPlaces, UnicastRules, NEW t \in U!Threads, U!Done(t),
           UNCHANGED <<policy, U!ringVars, popped>>
    PROVE  UnicastRules'
<1>1. /\ upc'[t] = "idle"
      /\ \A u \in U!Threads \ {t} : upc'[u] = upc[u] /\ cur'[u] = cur[u] /\ ubuff'[u] = ubuff[u]
  BY DEF U!Done, UnicastTypes
<1> QED
  BY <1>1, LookRules

\* ss and sm: the element at wt_ is written.
LEMMA PushSingleRules ==
    ASSUME UnicastTypes, UnicastPlaces, UnicastRules, NEW p \in Pushers, U!PushSingle(p)
    PROVE  UnicastRules'
<1>0. p \in U!Threads /\ wt < rd + N /\ rd <= wt /\ rd \in Nat /\ wt \in Nat /\ N \in Nat
  BY ChannelAssumption DEF U!Threads, U!PushSingle, UnicastRules, IndexOK, NextIndex,
     UnicastTypes
<1>1. /\ policy # "mm" /\ policy' = policy /\ rd' = rd /\ wt' = wt /\ uct' = uct /\ flag' = flag
      /\ popped' = popped /\ ubuff' = ubuff
      /\ upc'[p] = "write1" /\ cur'[p] = wt
      /\ \A u \in U!Threads \ {p} : upc'[u] = upc[u] /\ cur'[u] = cur[u]
      /\ data' = [data EXCEPT ![U!Slot(wt)] = U!Torn]
  BY <1>0, UnicastMoves DEF U!PushSingle
<1>2. wt + 1 < rd + N
  BY <1>0, UnicastNotFull DEF U!PushSingle
<1>3. IndexOK'
  <2>1. ASSUME NEW i \in rd..(wt - 1) PROVE data'[U!Slot(i)] = data[U!Slot(i)]
    <3>1. U!Slot(i) # U!Slot(wt)
      BY <1>0, UnicastSlotApart
    <3> QED
      BY <1>0, <1>1, <3>1, UnicastSlot DEF UnicastTypes
  <2> QED
    BY <1>1, <2>1 DEF UnicastRules, IndexOK, NextIndex
<1>4. SingleOK' /\ PopOK' /\ PoppedOK'
  BY <1>0, <1>1, <1>2 DEF UnicastRules, SingleOK, PopOK, PoppedOK
<1>5. FlagOK' /\ ClaimOK'
  BY <1>1 DEF UnicastRules, FlagOK, ClaimOK
<1>6. MoverOK'
  <2>1. ASSUME NEW t \in U!Threads, upc[t] \in {"store", "help"} PROVE FALSE
    BY <1>1, <2>1 DEF UnicastRules, UnicastPlaces
  <2> QED
    BY <1>1, <2>1 DEF MoverOK
<1> QED
  BY <1>3, <1>4, <1>5, <1>6 DEF UnicastRules

\* It is handed over.
LEMMA PushSingleDoneRules ==
    ASSUME UnicastTypes, UnicastPlaces, UnicastRules, NEW p \in Pushers, U!PushSingleDone(p)
    PROVE  UnicastRules'
<1>0. /\ p \in U!Threads /\ policy # "mm" /\ p \in sending
      /\ cur[p] = wt /\ wt + 1 < rd + N /\ rd <= wt
      /\ rd \in Nat /\ wt \in Nat /\ N \in Nat
  BY ChannelAssumption DEF U!Threads, U!PushSingleDone, UnicastRules, IndexOK, SingleOK,
     UnicastPlaces, UnicastTypes
<1>1. /\ policy' = policy /\ rd' = rd /\ wt' = wt + 1 /\ uct' = uct /\ flag' = flag
      /\ popped' = popped
      /\ upc'[p] = "idle"
      /\ \A u \in U!Threads \ {p} : upc'[u] = upc[u] /\ cur'[u] = cur[u] /\ ubuff'[u] = ubuff[u]
      /\ data' = [data EXCEPT ![U!Slot(wt)] = wt + 1]
  BY <1>0, UnicastMoves DEF U!PushSingleDone
<1>2. /\ data'[U!Slot(wt)] = wt + 1
      /\ \A i \in rd..(wt - 1) : data'[U!Slot(i)] = data[U!Slot(i)]
  <2>1. U!Slot(wt) \in 0..(N - 1) /\ data \in [0..(N - 1) -> Nat]
    BY <1>0, UnicastSlot DEF UnicastTypes
  <2>2. ASSUME NEW i \in rd..(wt - 1) PROVE U!Slot(i) # U!Slot(wt)
    BY <1>0, UnicastSlotApart
  <2> QED
    BY <1>1, <2>1, <2>2
<1>3. IndexOK'
  <2>1. \A i \in rd..(wt - 1) : data[U!Slot(i)] = i + 1
    BY DEF UnicastRules, IndexOK
  <2>2. \A i \in rd'..(wt' - 1) : i = wt \/ i \in rd..(wt - 1)
    BY <1>0, <1>1
  <2>3. \A i \in rd'..(wt' - 1) : data'[U!Slot(i)] = i + 1
    BY <1>2, <2>1, <2>2
  <2> QED
    BY <1>0, <1>1, <2>3 DEF IndexOK, NextIndex
<1>4. SingleOK'
  <2>1. ASSUME NEW u \in U!Threads \ {p}, upc[u] = "write1" PROVE FALSE
    BY <1>0, <2>1 DEF UnicastPlaces
  <2> QED
    BY <1>1, <2>1 DEF SingleOK
<1>5. PopOK' /\ PoppedOK'
  BY <1>0, <1>1 DEF UnicastRules, PopOK, PoppedOK
<1>6. FlagOK' /\ ClaimOK' /\ MoverOK'
  <2>1. ASSUME NEW t \in U!Threads, upc[t] \in {"store", "help", "write"} PROVE FALSE
    BY <1>0, <2>1 DEF UnicastPlaces
  <2> QED
    BY <1>0, <1>1, <2>1 DEF FlagOK, ClaimOK, MoverOK
<1> QED
  BY <1>3, <1>4, <1>5, <1>6 DEF UnicastRules

\* mm: the element at ct_ is claimed, or was already.
LEMMA PushClaimRules ==
    ASSUME UnicastTypes, UnicastPlaces, UnicastRules, NEW p \in Pushers, U!PushClaim(p)
    PROVE  UnicastRules'
<1>0. /\ p \in U!Threads /\ policy = "mm" /\ wt <= uct /\ uct < rd + N /\ rd <= wt
      /\ rd \in Nat /\ wt \in Nat /\ uct \in Nat /\ N \in Nat
  BY ChannelAssumption DEF U!Threads, U!PushClaim, UnicastRules, IndexOK, NextIndex,
     UnicastPlaces, UnicastTypes
<1>1. CASE uct # cur[p]
  <2>1. U!Done(p) /\ UNCHANGED <<policy, U!ringVars, popped>>
    BY <1>1 DEF U!PushClaim, U!ringVars
  <2> QED
    BY <1>0, <2>1, DoneRules
<1>2. CASE uct = cur[p]
  <2>1. /\ policy' = policy /\ rd' = rd /\ wt' = wt /\ uct' = uct + 1 /\ flag' = flag
        /\ popped' = popped /\ cur' = cur /\ ubuff' = ubuff
        /\ upc'[p] = "write"
        /\ \A u \in U!Threads \ {p} : upc'[u] = upc[u]
        /\ data' = [data EXCEPT ![U!Slot(uct)] = U!Torn]
    BY <1>0, <1>2, UnicastMoves DEF U!PushClaim
  <2>2. uct + 1 < rd + N /\ uct < MaxPush
    BY <1>0, <1>2, UnicastNotFull DEF U!PushClaim, UnicastTypes
  <2>3. U!Slot(uct) \in 0..(N - 1) /\ data \in [0..(N - 1) -> Nat]
    BY <1>0, UnicastSlot DEF UnicastTypes
  <2>4. \A i \in rd..(uct - 1) : U!Slot(i) # U!Slot(uct) /\ data'[U!Slot(i)] = data[U!Slot(i)]
    <3>1. ASSUME NEW i \in rd..(uct - 1) PROVE U!Slot(i) # U!Slot(uct)
      BY <1>0, UnicastSlotApart
    <3> QED
      BY <1>0, <2>1, <2>3, <3>1, UnicastSlot
  <2>5. IndexOK'
    <3>1. \A i \in rd..(wt - 1) : i \in rd..(uct - 1)
      BY <1>0
    <3> QED
      BY <1>0, <2>1, <2>2, <2>4, <3>1 DEF UnicastRules, IndexOK, NextIndex
  <2>6. FlagOK'
    <3>1. ASSUME NEW s \in 0..(N - 1), flag[s] # U!NoFlag
          PROVE  /\ wt <= flag[s] /\ flag[s] < uct + 1
                 /\ U!Slot(flag[s]) = s /\ data'[s] = flag[s] + 1
      <4>1. /\ wt <= flag[s] /\ flag[s] < uct /\ U!Slot(flag[s]) = s
            /\ data[s] = flag[s] + 1 /\ flag[s] \in Nat
        BY <1>0, <3>1 DEF UnicastRules, FlagOK, UnicastTypes
      <4>2. flag[s] \in rd..(uct - 1)
        BY <1>0, <4>1
      <4> QED
        BY <1>0, <2>4, <4>1, <4>2
    <3> QED
      BY <2>1, <3>1 DEF FlagOK, U!NoFlag
  <2>7. flag[U!Slot(uct)] # uct
    <3>1. ASSUME flag[U!Slot(uct)] # U!NoFlag PROVE flag[U!Slot(uct)] < uct
      BY <1>0, <2>3, <3>1 DEF UnicastRules, FlagOK
    <3>2. flag[U!Slot(uct)] \in Nat /\ MaxPush \in Nat
      BY <2>3, ChannelAssumption DEF UnicastTypes
    <3> QED
      BY <1>0, <2>2, <3>1, <3>2 DEF U!NoFlag
  <2>8. ClaimOK'
    <3>1. \A q \in U!Threads : cur[q] \in Nat /\ (upc[q] = "write" => cur[q] # uct)
      BY <1>0 DEF UnicastRules, ClaimOK, UnicastTypes
    <3>2. \A q \in U!Threads : upc'[q] = "write" =>
             /\ wt <= cur[q] /\ cur[q] < uct + 1
             /\ flag[U!Slot(cur[q])] # cur[q]
      BY <1>0, <1>2, <2>1, <2>7 DEF UnicastRules, ClaimOK, UnicastTypes
    <3>3. \A q, r \in U!Threads :
              upc'[q] = "write" /\ upc'[r] = "write" /\ cur[r] = cur[q] => r = q
      BY <1>2, <2>1, <3>1 DEF UnicastRules, ClaimOK
    <3> QED
      BY <2>1, <3>2, <3>3 DEF ClaimOK
  <2>9. MoverOK'
    <3>1. ASSUME NEW t \in U!Threads, upc'[t] \in {"store", "help"}
          PROVE  /\ upc[t] \in {"store", "help"} /\ t # p /\ wt < uct /\ U!Slot(wt) # U!Slot(uct)
                 /\ data'[U!Slot(wt)] = data[U!Slot(wt)]
      BY <1>0, <2>1, <2>4, <3>1 DEF UnicastRules, MoverOK
    <3> QED
      BY <1>0, <1>2, <2>1, <3>1 DEF UnicastRules, MoverOK
  <2>a. SingleOK' /\ PopOK' /\ PoppedOK'
    BY <1>0, <2>1 DEF UnicastRules, SingleOK, PopOK, PoppedOK
  <2> QED
    BY <2>5, <2>6, <2>8, <2>9, <2>a DEF UnicastRules
<1> QED
  BY <1>1, <1>2

\* mm: the element claimed is written and committed.
LEMMA PushCommitRules ==
    ASSUME UnicastTypes, UnicastPlaces, UnicastRules, NEW p \in Pushers, U!PushCommit(p)
    PROVE  UnicastRules'
<1> DEFINE k == cur[p]
<1>0. /\ p \in U!Threads /\ upc[p] = "write" /\ policy = "mm" /\ k \in Nat /\ wt <= k /\ k < uct
      /\ rd <= wt /\ uct < rd + N /\ rd \in Nat /\ wt \in Nat /\ uct \in Nat /\ N \in Nat
      /\ uct <= MaxPush /\ MaxPush \in Nat
  BY ChannelAssumption DEF U!Threads, U!PushCommit, UnicastRules, IndexOK, ClaimOK, NextIndex,
     UnicastPlaces, UnicastTypes
<1>1. /\ policy' = policy /\ rd' = rd /\ wt' = wt /\ uct' = uct
      /\ popped' = popped /\ cur' = cur /\ ubuff' = ubuff
      /\ upc'[p] = "advance"
      /\ \A u \in U!Threads \ {p} : upc'[u] = upc[u]
      /\ data' = [data EXCEPT ![U!Slot(k)] = k + 1]
      /\ flag' = [flag EXCEPT ![U!Slot(k)] = k]
  BY <1>0, UnicastMoves DEF U!PushCommit
<1>2. /\ U!Slot(k) \in 0..(N - 1) /\ data \in [0..(N - 1) -> Nat] /\ flag \in [0..(N - 1) -> Nat]
      /\ \A i \in Nat : U!Slot(i) \in 0..(N - 1)
  BY <1>0, UnicastSlot DEF UnicastTypes
<1>3. \A i \in rd..(uct - 1) : i # k => U!Slot(i) # U!Slot(k)
  <2>1. ASSUME NEW i \in rd..(uct - 1), i < k PROVE U!Slot(i) # U!Slot(k)
    BY <1>0, <2>1, UnicastSlotApart
  <2>2. ASSUME NEW i \in rd..(uct - 1), k < i PROVE U!Slot(i) # U!Slot(k)
    BY <1>0, <2>2, UnicastSlotApart
  <2> QED
    BY <1>0, <2>1, <2>2
<1> HIDE DEF k
<1>4. /\ data'[U!Slot(k)] = k + 1 /\ flag'[U!Slot(k)] = k
      /\ \A s \in 0..(N - 1) : s # U!Slot(k) => data'[s] = data[s] /\ flag'[s] = flag[s]
  BY <1>1, <1>2
<1>5. IndexOK'
  <2>1. \A i \in rd..(wt - 1) : i \in Nat /\ i \in rd..(uct - 1) /\ i # k
    BY <1>0
  <2>2. \A i \in rd..(wt - 1) : data'[U!Slot(i)] = data[U!Slot(i)]
    BY <1>2, <1>3, <1>4, <2>1
  <2> QED
    BY <1>1, <2>2 DEF UnicastRules, IndexOK, NextIndex
<1>6. FlagOK'
  <2>1. ASSUME NEW s \in 0..(N - 1), flag'[s] # U!NoFlag
        PROVE  /\ wt <= flag'[s] /\ flag'[s] < uct /\ U!Slot(flag'[s]) = s
               /\ data'[s] = flag'[s] + 1
    <3>1. CASE s = U!Slot(k)
      BY <1>0, <1>4, <3>1
    <3>2. CASE s # U!Slot(k)
      BY <1>0, <1>4, <2>1, <3>2 DEF UnicastRules, FlagOK
    <3> QED
      BY <3>1, <3>2
  <2> QED
    BY <1>1, <2>1 DEF FlagOK, U!NoFlag
<1>7. \A q \in U!Threads \ {p} : upc[q] = "write" =>
         cur[q] # k /\ cur[q] \in rd..(uct - 1) /\ cur[q] \in Nat
  BY <1>0 DEF UnicastRules, ClaimOK, UnicastTypes, k
<1>8. ClaimOK'
  <2>1. \A q \in U!Threads \ {p} :
           upc[q] = "write" => flag'[U!Slot(cur[q])] = flag[U!Slot(cur[q])]
    BY <1>2, <1>3, <1>4, <1>7
  <2> QED
    BY <1>1, <2>1 DEF UnicastRules, ClaimOK
<1>9. MoverOK'
  <2>1. ASSUME NEW t \in U!Threads, upc'[t] \in {"store", "help"}
        PROVE  /\ t # p /\ upc[t] \in {"store", "help"}
               /\ data'[U!Slot(wt)] = data[U!Slot(wt)] /\ flag'[U!Slot(wt)] = flag[U!Slot(wt)]
    <3>1. t # p /\ upc[t] \in {"store", "help"}
      BY <1>1, <2>1
    <3>2. wt # k
      BY <1>0, <3>1 DEF UnicastRules, MoverOK, k
    <3>3. wt \in rd..(uct - 1) /\ wt \in Nat
      BY <1>0, <3>2
    <3>4. U!Slot(wt) # U!Slot(k) /\ U!Slot(wt) \in 0..(N - 1)
      BY <1>2, <1>3, <3>2, <3>3
    <3> QED
      BY <1>4, <3>1, <3>4
  <2> QED
    BY <1>1, <2>1 DEF UnicastRules, MoverOK
<1>a. SingleOK' /\ PopOK' /\ PoppedOK'
  BY <1>0, <1>1 DEF UnicastRules, SingleOK, PopOK, PoppedOK
<1> QED
  BY <1>5, <1>6, <1>8, <1>9, <1>a DEF UnicastRules

\* mm: a producer or a consumer takes the flag of the element at wt_.
LEMMA TakeFlagRules ==
    ASSUME UnicastTypes, UnicastPlaces, UnicastRules, NEW t \in U!Threads, policy = "mm",
           upc'[t] \in {"store", "help"}, cur'[t] = wt, flag[U!Slot(wt)] = wt,
           \A u \in U!Threads \ {t} : upc'[u] = upc[u] /\ cur'[u] = cur[u],
           flag' = [flag EXCEPT ![U!Slot(wt)] = U!NoFlag],
           UNCHANGED <<policy, rd, wt, uct, data, ubuff, popped>>
    PROVE  UnicastRules'
<1>0. /\ rd \in Nat /\ wt \in Nat /\ uct \in Nat /\ N \in Nat /\ MaxPush \in Nat
      /\ uct <= MaxPush /\ rd <= wt /\ wt <= uct
      /\ U!Slot(wt) \in 0..(N - 1) /\ flag \in [0..(N - 1) -> Nat]
      /\ U!NoFlag = MaxPush + 1
  BY ChannelAssumption, UnicastSlot DEF UnicastRules, IndexOK, NextIndex, UnicastTypes, U!NoFlag
<1>1. /\ flag'[U!Slot(wt)] = U!NoFlag
      /\ \A s \in 0..(N - 1) : s # U!Slot(wt) => flag'[s] = flag[s]
  BY <1>0
<1>2. wt < uct /\ data[U!Slot(wt)] = wt + 1
  BY <1>0 DEF UnicastRules, FlagOK
<1>3. \A u \in U!Threads : upc[u] \notin {"store", "help"} /\ (upc[u] = "write" => cur[u] # wt)
  BY DEF UnicastRules, MoverOK, ClaimOK
<1>4. FlagOK'
  <2>1. \A s \in 0..(N - 1) : flag'[s] # U!NoFlag => s # U!Slot(wt) /\ flag'[s] = flag[s]
    BY <1>1
  <2> QED
    BY <2>1 DEF UnicastRules, FlagOK, U!NoFlag
<1>5. ClaimOK'
  <2>1. ASSUME NEW u \in U!Threads, upc[u] = "write", u # t
        PROVE  flag'[U!Slot(cur[u])] # cur[u]
    <3>1. cur[u] \in Nat /\ cur[u] < uct /\ flag[U!Slot(cur[u])] # cur[u]
          /\ U!Slot(cur[u]) \in 0..(N - 1)
      BY <2>1, UnicastSlot DEF UnicastRules, ClaimOK, UnicastTypes
    <3>2. CASE U!Slot(cur[u]) = U!Slot(wt)
      BY <1>0, <1>1, <3>1, <3>2
    <3>3. CASE U!Slot(cur[u]) # U!Slot(wt)
      BY <1>1, <3>1, <3>3
    <3> QED
      BY <3>2, <3>3
  <2> QED
    BY <2>1 DEF UnicastRules, ClaimOK
<1>6. MoverOK'
  <2>1. flag'[U!Slot(wt)] # wt
    BY <1>0, <1>1
  <2> QED
    BY <1>2, <1>3, <2>1 DEF MoverOK
<1>7. IndexOK' /\ SingleOK' /\ PopOK' /\ PoppedOK'
  BY DEF UnicastRules, IndexOK, SingleOK, PopOK, PoppedOK, NextIndex
<1> QED
  BY <1>4, <1>5, <1>6, <1>7 DEF UnicastRules

\* mm: wt_ moves over it.
LEMMA AdvanceRules ==
    ASSUME UnicastTypes, UnicastPlaces, UnicastRules, NEW t \in U!Threads, upc[t] \in {"store",
           "help"},
           wt' = cur[t] + 1, upc'[t] \in {"advance", "idle"},
           \A u \in U!Threads \ {t} : /\ upc'[u] = upc[u]
                                      /\ cur'[u] = cur[u]
                                      /\ ubuff'[u] = ubuff[u],
           UNCHANGED <<policy, rd, uct, data, flag, popped>>
    PROVE  UnicastRules'
<1>0. /\ rd \in Nat /\ wt \in Nat /\ uct \in Nat /\ N \in Nat
      /\ policy = "mm" /\ rd <= wt /\ uct < rd + N /\ wt < uct /\ wt' = wt + 1
      /\ data[U!Slot(wt)] = wt + 1 /\ flag[U!Slot(wt)] # wt
      /\ \A u \in U!Threads : upc[u] = "write" => cur[u] # wt
      /\ \A u \in U!Threads \ {t} : upc[u] \notin {"store", "help"}
  BY ChannelAssumption DEF UnicastRules, IndexOK, MoverOK, NextIndex, UnicastTypes, UnicastPlaces
<1>1. IndexOK'
  <2>1. \A i \in rd..(wt + 1 - 1) : i = wt \/ i \in rd..(wt - 1)
    BY <1>0
  <2>2. \A i \in rd..(wt + 1 - 1) : data[U!Slot(i)] = i + 1
    BY <1>0, <2>1 DEF UnicastRules, IndexOK
  <2> QED
    BY <1>0, <2>2 DEF IndexOK, NextIndex
<1>2. FlagOK'
  <2>1. ASSUME NEW s \in 0..(N - 1), flag[s] # U!NoFlag PROVE wt + 1 <= flag[s]
    <3>1. wt <= flag[s] /\ U!Slot(flag[s]) = s /\ flag[s] \in Nat
      BY <1>0, <2>1 DEF UnicastRules, FlagOK, UnicastTypes
    <3> QED
      BY <1>0, <3>1
  <2> QED
    BY <1>0, <2>1 DEF UnicastRules, FlagOK, U!NoFlag
<1>3. ClaimOK'
  <2>1. \A u \in U!Threads : upc[u] = "write" => wt + 1 <= cur[u] /\ cur[u] \in Nat
    BY <1>0 DEF UnicastRules, ClaimOK, UnicastTypes
  <2> QED
    BY <1>0, <2>1 DEF UnicastRules, ClaimOK
<1>4. MoverOK'
  BY <1>0 DEF MoverOK
<1>5. SingleOK'
  BY <1>0 DEF SingleOK, UnicastPlaces
<1>6. PopOK' /\ PoppedOK'
  BY <1>0 DEF UnicastRules, PopOK, PoppedOK
<1> QED
  BY <1>1, <1>2, <1>3, <1>4, <1>5, <1>6 DEF UnicastRules

\* A consumer copies the element at its index.
LEMMA PopCopyRules ==
    ASSUME UnicastTypes, UnicastPlaces, UnicastRules, NEW c \in Poppers, U!PopCopy(c)
    PROVE  UnicastRules'
<1>0. /\ c \in U!Threads /\ upc[c] = "look" /\ rd \in Nat /\ wt \in Nat /\ rd <= wt
      /\ \A i \in rd..(wt - 1) : data[U!Slot(i)] = i + 1
  BY DEF U!Threads, U!PopCopy, UnicastRules, IndexOK, UnicastTypes
<1>1. /\ UNCHANGED <<policy, rd, wt, uct, data, flag, cur, popped>>
      /\ upc'[c] = "copied" /\ \A u \in U!Threads \ {c} : upc'[u] = upc[u]
      /\ ubuff'[c] = data[U!Slot(cur[c])] /\ \A u \in U!Threads \ {c} : ubuff'[u] = ubuff[u]
  BY <1>0, UnicastMoves DEF U!PopCopy, U!ringVars, UnicastTypes
<1>2. cur[c] = rd => rd < wt /\ data[U!Slot(cur[c])] = rd + 1
  <2>1. cur[c] = rd => rd # wt
    BY DEF U!PopCopy
  <2> QED
    BY <1>0, <2>1
<1>3. PopOK'
  BY <1>0, <1>1, <1>2 DEF UnicastRules, PopOK
<1>4. IndexOK' /\ SingleOK' /\ FlagOK' /\ PoppedOK'
  BY <1>1 DEF UnicastRules, IndexOK, SingleOK, FlagOK, PoppedOK, NextIndex
<1>5. ClaimOK' /\ MoverOK'
  BY <1>1 DEF UnicastRules, ClaimOK, MoverOK
<1> QED
  BY <1>3, <1>4, <1>5 DEF UnicastRules

\* The element is its own when rd_ did not move.
LEMMA PopTakeRules ==
    ASSUME UnicastTypes, UnicastPlaces, Alone, UnicastRules, NEW c \in Poppers, U!PopTake(c)
    PROVE  UnicastRules'
<1>0. c \in U!Threads /\ upc[c] = "copied"
  BY DEF U!Threads, U!PopTake
<1>1. CASE rd # cur[c]
  <2>1. U!Done(c) /\ UNCHANGED <<policy, U!ringVars, popped>>
    BY <1>0, <1>1 DEF U!PopTake, U!ringVars, UnicastRules, PopOK
  <2> QED
    BY <1>0, <2>1, DoneRules
<1>2. CASE rd = cur[c]
  <2>0. /\ rd \in Nat /\ wt \in Nat /\ uct \in Nat /\ N \in Nat /\ NextIndex \in Nat
        /\ rd < wt /\ ubuff[c] = rd + 1 /\ wt <= NextIndex /\ NextIndex < rd + N
        /\ popped \in Seq(Nat) /\ Len(popped) = rd
    BY <1>0, <1>2, ChannelAssumption DEF UnicastRules, IndexOK, PopOK, PoppedOK, UnicastTypes,
       NextIndex
  <2>1. /\ UNCHANGED <<policy, wt, uct, data, flag>>
        /\ rd' = rd + 1 /\ popped' = Append(popped, rd + 1)
        /\ upc'[c] = "idle"
        /\ \A u \in U!Threads \ {c} : /\ upc'[u] = upc[u]
                                      /\ cur'[u] = cur[u]
                                      /\ ubuff'[u] = ubuff[u]
    BY <1>0, <1>2, <2>0, UnicastMoves DEF U!PopTake
  <2>2. IndexOK'
    <3>1. \A i \in (rd + 1)..(wt - 1) : i \in rd..(wt - 1)
      BY <2>0
    <3>2. NextIndex' = NextIndex
      BY <2>1 DEF NextIndex
    <3> QED
      BY <2>0, <2>1, <3>1, <3>2 DEF UnicastRules, IndexOK
  <2>3. SingleOK'
    BY <2>0, <2>1 DEF UnicastRules, SingleOK
  <2>4. FlagOK' /\ ClaimOK' /\ MoverOK'
    BY <2>1 DEF UnicastRules, FlagOK, ClaimOK, MoverOK, U!NoFlag
  <2>5. PopOK'
    <3>1. ASSUME NEW u \in U!Threads \ {c}, upc[u] \in {"look", "copied"}
          PROVE  cur[u] <= rd /\ cur[u] \in Nat /\ policy # "ss"
      BY <1>0, <3>1 DEF UnicastRules, PopOK, UnicastPlaces, UnicastTypes
    <3>2. ASSUME NEW u \in U!Threads, upc'[u] \in {"look", "copied"}
          PROVE  cur'[u] <= rd' /\ policy' # "ss" /\ cur'[u] # rd'
      <4>1. u \in U!Threads \ {c} /\ upc[u] \in {"look", "copied"} /\ cur'[u] = cur[u]
        BY <2>1, <3>2
      <4> QED
        BY <2>0, <2>1, <3>1, <4>1
    <3> QED
      BY <3>2 DEF PopOK
  <2>6. PoppedOK'
    <3>1. /\ Len(popped') = rd + 1 /\ popped'[rd + 1] = rd + 1
          /\ \A i \in 1..rd : popped'[i] = popped[i]
      BY <2>0, <2>1, AppendProperties
    <3>2. \A i \in 1..(rd + 1) : i = rd + 1 \/ i \in 1..rd
      BY <2>0
    <3> QED
      BY <2>1, <3>1, <3>2 DEF UnicastRules, PoppedOK
  <2> QED
    BY <2>2, <2>3, <2>4, <2>5, <2>6 DEF UnicastRules
<1> QED
  BY <1>1, <1>2
-----------------------------------------------------------------------------
\* Every step keeps the rules, while a ring of one consumer has no second one.
LEMMA UnicastRulesNext ==
    ASSUME UnicastInv, [U!Next]_U!vars
    PROVE  (Alone => UnicastRules)'
<1>0. /\ Pushers \subseteq U!Threads /\ Poppers \subseteq U!Threads
      /\ uforces \in Nat
  BY DEF U!Threads, UnicastInv, UnicastTypes
<1>1. policy' = policy /\ (uforces' = uforces \/ uforces' = uforces + 1)
  BY DEF U!Next, U!ConnectSender, U!DisconnectSender, U!ForcePush, U!PushSingle, U!PushLoad,
     U!Push,
     U!PushSingleDone, U!PushFull, U!PushClaim, U!PushCommit, U!PushLeave, U!PushTakeFlag,
     U!PushStore,
     U!ConnectReceiver, U!DisconnectReceiver, U!Pop, U!PopLoad, U!PopEmpty, U!PopHelp,
     U!PopHelpStore,
     U!PopCopy, U!PopTake, U!vars
<1>2. Alone' => Alone
  BY <1>0, <1>1 DEF Alone
<1> SUFFICES ASSUME Alone PROVE UnicastRules'
  BY <1>2
<1>3. UnicastTypes /\ UnicastPlaces /\ UnicastRules
  BY DEF UnicastInv
<1>4. ASSUME UNCHANGED <<policy, U!ringVars, U!threadVars, popped>> PROVE UnicastRules'
  BY <1>3, <1>4, RingStays
<1>5. ASSUME NEW p \in Pushers, U!ConnectSender(p) \/ U!DisconnectSender(p) \/ U!ForcePush(p)
      PROVE  UnicastRules'
  BY <1>4, <1>5 DEF U!ConnectSender, U!DisconnectSender, U!ForcePush
<1>6. ASSUME NEW c \in Poppers, U!ConnectReceiver(c) \/ U!DisconnectReceiver(c)
      PROVE  UnicastRules'
  BY <1>4, <1>6 DEF U!ConnectReceiver, U!DisconnectReceiver
<1>7. ASSUME NEW p \in Pushers, U!PushFull(p) \/ U!PushLeave(p) PROVE UnicastRules'
  <2>1. U!Done(p) /\ UNCHANGED <<policy, U!ringVars, popped>>
    BY <1>7 DEF U!PushFull, U!PushLeave
  <2> QED
    BY <1>0, <1>3, <2>1, DoneRules
<1>8. ASSUME NEW p \in Pushers, U!PushLoad(p) PROVE UnicastRules'
  <2>1. /\ p \in U!Threads /\ UNCHANGED <<policy, U!ringVars, popped>> /\ ubuff' = ubuff
        /\ U!At(p, uct, "claim")
    BY <1>0, <1>8 DEF U!PushLoad
  <2>2. /\ upc'[p] = "claim"
        /\ \A u \in U!Threads \ {p} : /\ upc'[u] = upc[u]
                                      /\ cur'[u] = cur[u]
                                      /\ ubuff'[u] = ubuff[u]
    BY <1>3, <2>1, UnicastMoves
  <2> QED
    BY <1>3, <2>1, <2>2, LookRules
<1>9. ASSUME NEW p \in Pushers, U!PushTakeFlag(p) PROVE UnicastRules'
  <2>1. /\ p \in U!Threads /\ policy = "mm" /\ cur[p] = wt
    BY <1>0, <1>3, <1>9 DEF U!PushTakeFlag, UnicastPlaces
  <2>2. /\ upc'[p] = "store" /\ cur'[p] = wt
        /\ \A u \in U!Threads \ {p} : upc'[u] = upc[u] /\ cur'[u] = cur[u]
    BY <1>3, <1>9, <2>1, UnicastMoves DEF U!PushTakeFlag
  <2> QED
    BY <1>3, <1>9, <2>1, <2>2, TakeFlagRules DEF U!PushTakeFlag
<1>a. ASSUME NEW p \in Pushers, U!PushStore(p) PROVE UnicastRules'
  <2>1. /\ p \in U!Threads /\ upc[p] \in {"store", "help"} /\ wt' = cur[p] + 1
        /\ U!At(p, cur[p] + 1, "advance") /\ UNCHANGED <<policy, rd, uct, data, flag, popped>>
        /\ ubuff' = ubuff
    BY <1>0, <1>a DEF U!PushStore
  <2>2. /\ upc'[p] \in {"advance", "idle"}
        /\ \A u \in U!Threads \ {p} : /\ upc'[u] = upc[u]
                                      /\ cur'[u] = cur[u]
                                      /\ ubuff'[u] = ubuff[u]
    BY <1>3, <2>1, UnicastMoves
  <2> QED
    BY <1>3, <2>1, <2>2, AdvanceRules
<1>b. ASSUME NEW c \in Poppers, U!PopHelpStore(c) PROVE UnicastRules'
  <2>1. /\ c \in U!Threads /\ upc[c] \in {"store", "help"} /\ wt' = cur[c] + 1
        /\ U!Done(c) /\ UNCHANGED <<policy, rd, uct, data, flag, popped>>
    BY <1>0, <1>b DEF U!PopHelpStore
  <2>2. /\ upc'[c] \in {"advance", "idle"}
        /\ \A u \in U!Threads \ {c} : /\ upc'[u] = upc[u]
                                      /\ cur'[u] = cur[u]
                                      /\ ubuff'[u] = ubuff[u]
    BY <1>3, <2>1 DEF U!Done, UnicastTypes
  <2> QED
    BY <1>3, <2>1, <2>2, AdvanceRules
<1>c. ASSUME NEW c \in Poppers, U!PopHelp(c) PROVE UnicastRules'
  <2>1. c \in U!Threads /\ policy = "mm" /\ U!At(c, wt, "help")
    BY <1>0, <1>c DEF U!PopHelp
  <2>2. /\ upc'[c] = "help" /\ cur'[c] = wt
        /\ \A u \in U!Threads \ {c} : upc'[u] = upc[u] /\ cur'[u] = cur[u]
    BY <1>3, <2>1, UnicastMoves
  <2> QED
    BY <1>3, <1>c, <2>1, <2>2, TakeFlagRules DEF U!PopHelp
<1>d. ASSUME NEW c \in Poppers, U!PopLoad(c) PROVE UnicastRules'
  <2>1. /\ c \in U!Threads /\ UNCHANGED <<policy, U!ringVars, popped>> /\ ubuff' = ubuff
        /\ U!At(c, rd, "look")
    BY <1>0, <1>d DEF U!PopLoad
  <2>2. /\ upc'[c] = "look" /\ cur'[c] = rd
        /\ \A u \in U!Threads \ {c} : /\ upc'[u] = upc[u]
                                      /\ cur'[u] = cur[u]
                                      /\ ubuff'[u] = ubuff[u]
    BY <1>3, <2>1, UnicastMoves
  <2> QED
    BY <1>3, <2>1, <2>2, LookRules
<1>e. ASSUME NEW c \in Poppers, U!PopEmpty(c) PROVE UnicastRules'
  <2>1. c \in U!Threads /\ U!Done(c) /\ UNCHANGED <<policy, U!ringVars, popped>>
    BY <1>0, <1>e DEF U!PopEmpty
  <2> QED
    BY <1>3, <2>1, DoneRules
<1>f. CASE UNCHANGED U!vars
  BY <1>4, <1>f DEF U!vars
<1> QED
  BY <1>3, <1>5, <1>6, <1>7, <1>8, <1>9, <1>a, <1>b, <1>c, <1>d, <1>e, <1>f, PushSingleRules,
     PushSingleDoneRules, PushClaimRules, PushCommitRules, PopCopyRules, PopTakeRules
     DEF U!Next, U!Push, U!Pop

\* The invariant is inductive.
LEMMA UnicastInit == U!Init => UnicastInv
<1> SUFFICES ASSUME U!Init PROVE UnicastInv
  OBVIOUS
<1>1. N \in Nat \ {0} /\ MaxPush \in Nat
  BY ChannelAssumption
<1>2. UnicastTypes
  <2>1. /\ data \in [0..(N - 1) -> Nat] /\ flag \in [0..(N - 1) -> Nat]
        /\ cur \in [U!Threads -> Nat] /\ ubuff \in [U!Threads -> Nat]
    BY <1>1 DEF U!Init, U!NoFlag
  <2>2. /\ \A t \in U!Threads : upc[t] = "idle"
        /\ upc \in [U!Threads -> {"idle", "write1", "claim", "write", "advance", "store",
                                  "look", "help", "copied"}]
    BY DEF U!Init
  <2>3. popped \in Seq(Nat)
    BY DEF U!Init
  <2> QED
    BY <1>1, <2>1, <2>2, <2>3 DEF U!Init, UnicastTypes
<1>3. UnicastPlaces
  BY DEF U!Init, UnicastPlaces
<1>4. \A s \in 0..(N - 1) : flag[s] = U!NoFlag
  BY DEF U!Init
<1>5. \A t \in U!Threads : upc[t] = "idle"
  BY DEF U!Init
<1>6. IndexOK
  BY <1>1 DEF U!Init, IndexOK, NextIndex
<1>7. FlagOK
  BY <1>4 DEF FlagOK
<1>8. SingleOK /\ ClaimOK /\ MoverOK /\ PopOK
  BY <1>5 DEF SingleOK, ClaimOK, MoverOK, PopOK
<1>9. PoppedOK
  BY DEF U!Init, PoppedOK
<1> QED
  BY <1>2, <1>3, <1>6, <1>7, <1>8, <1>9 DEF UnicastInv, UnicastRules

LEMMA UnicastNext == UnicastInv /\ [U!Next]_U!vars => UnicastInv'
BY UnicastTypesNext, UnicastPlacesNext, UnicastRulesNext DEF UnicastInv

\* And says what is promised.
LEMMA UnicastImplies == UnicastInv => UnicastInOrderOnce
<1> SUFFICES ASSUME UnicastInv, Alone PROVE UnicastInOrderOnce
  BY DEF UnicastInv, UnicastTypes, Alone, UnicastInOrderOnce, U!UnicastInOrderOnce,
     U!InOrderOnce, U!IndicesInOrder
<1>1. UnicastTypes /\ UnicastRules
  BY DEF UnicastInv
<1>2. popped = [i \in 1..Len(popped) |-> i]
  <2>1. popped = [i \in 1..Len(popped) |-> popped[i]]
    BY <1>1 DEF UnicastTypes
  <2> QED
    BY <1>1, <2>1 DEF UnicastRules, PoppedOK
<1>3. /\ rd <= wt /\ (policy = "mm" => wt <= uct)
      /\ (IF policy = "mm" THEN uct ELSE wt) < rd + N
      /\ \A i \in rd..(wt - 1) : data[U!Slot(i)] = i + 1
  BY <1>1 DEF UnicastRules, IndexOK, NextIndex
<1> QED
  BY <1>2, <1>3 DEF UnicastInOrderOnce, U!UnicastInOrderOnce, U!InOrderOnce, U!IndicesInOrder

\* push and pop of ss, sm and mm, and receivers that come and go: consumers get the
\* elements once each, whole and in the order of their slots; rd_ never passes wt_, wt_
\* never an uncommitted element, and no producer laps rd_, unless a second consumer was
\* let into a ring of ss.
THEOREM UnicastRings == U!Spec => []UnicastInOrderOnce
<1>1. U!Spec => []UnicastInv
  BY UnicastInit, UnicastNext, PTL DEF U!Spec
<1> QED
  BY <1>1, UnicastImplies, PTL
-----------------------------------------------------------------------------
(***************************************************************************)
(* The reader queue.                                                       *)
(***************************************************************************)

\* With one cell, "published at p" and "free for p + 1" are one number.
Roomy == N > 1

\* The types.
QueueTypes ==
    /\ enqueuePos \in Nat /\ dequeuePos \in Nat
    /\ sequence \in [Q!Cells -> Nat]
    /\ DOMAIN qdata = Q!Cells
    /\ qpc \in [Q!Users -> Q!PC]
    /\ pos \in [Q!Users -> Nat]
    /\ DOMAIN out = Q!Users
    /\ DOMAIN log = 0..(enqueuePos - 1)

\* Who won position p at the one end, and at the other.
Storing(t, p) == qpc[t] \in {"store", "pub"} /\ pos[t] = p
Taking(t, p) == qpc[t] \in {"take", "free"} /\ pos[t] = p

\* The positions between the ends: their element is there, or being stored.
LiveOK ==
    \A p \in dequeuePos..(enqueuePos - 1) :
        \/ sequence[Q!Cell(p)] = p + 1 /\ qdata[Q!Cell(p)] = log[p]
        \/ \E t \in Q!Users : Storing(t, p)

\* The positions that may be won next: their cell is free, or somebody still takes out
\* the element of the lap before.
FreeOK ==
    \A p \in enqueuePos..(dequeuePos + N - 1) :
        \/ sequence[Q!Cell(p)] = p
        \/ \E t \in Q!Users : Taking(t, p - N)

\* One user stores at a position between the ends, and its cell says so.
StoreOK ==
    \A t \in Q!Users : qpc[t] \in {"store", "pub"} =>
        /\ dequeuePos <= pos[t] /\ pos[t] < enqueuePos
        /\ sequence[Q!Cell(pos[t])] = pos[t]
        /\ (IF qpc[t] = "store" THEN out[t] ELSE qdata[Q!Cell(pos[t])]) = log[pos[t]]
        /\ \A u \in Q!Users : Storing(u, pos[t]) => u = t

\* One user takes at a position the end has passed, and nobody has come round to it.
TakeOK ==
    \A t \in Q!Users : qpc[t] \in {"take", "free"} =>
        /\ pos[t] < dequeuePos /\ enqueuePos <= pos[t] + N
        /\ sequence[Q!Cell(pos[t])] = pos[t] + 1
        /\ qpc[t] = "take" => qdata[Q!Cell(pos[t])] = log[pos[t]]
        /\ \A u \in Q!Users : Taking(u, pos[t]) => u = t

\* A position read is not ahead of the end; while it is the end, the sequence number is
\* still what was seen.
SeenOK ==
    \A t \in Q!Users :
        /\ qpc[t] \in {"seqE", "casE"} => pos[t] <= enqueuePos
        /\ qpc[t] \in {"seqD", "casD"} => pos[t] <= dequeuePos
        /\ qpc[t] = "casE" /\ pos[t] = enqueuePos => sequence[Q!Cell(pos[t])] = pos[t]
        /\ qpc[t] = "casD" /\ pos[t] = dequeuePos => sequence[Q!Cell(pos[t])] = pos[t] + 1

QueueInv ==
    /\ QueueTypes
    /\ Q!EndsInOrder /\ LiveOK /\ FreeOK /\ StoreOK /\ TakeOK /\ SeenOK
-----------------------------------------------------------------------------
\* Positions less than a lap apart have different cells, a lap apart the same.
LEMMA QueueCell ==
    ASSUME NEW p \in Nat
    PROVE  Q!Cell(p) \in Q!Cells
<1>1. N \in Nat \ {0} /\ p \in Int
  BY ChannelAssumption
<1>2. p % N \in 0..(N - 1)
  BY <1>1, DivMod
<1> QED
  BY <1>2 DEF Q!Cell, Q!Cells

LEMMA QueueCellApart ==
    ASSUME NEW p \in Nat, NEW q \in Nat, p < q, q < p + N
    PROVE  Q!Cell(p) # Q!Cell(q)
<1>1. N \in Nat \ {0} /\ p \in Int /\ q \in Int
  BY ChannelAssumption
<1>2. p % N # q % N
  BY <1>1, ModApart, Zenon
<1> QED
  BY <1>2, Zenon DEF Q!Cell

LEMMA QueueCellLap ==
    ASSUME NEW p \in Nat
    PROVE  Q!Cell(p + N) = Q!Cell(p)
<1>1. N \in Nat \ {0} /\ p \in Int
  BY ChannelAssumption
<1>2. (p + N) % N = p % N
  BY <1>1, ModLap, Zenon
<1> QED
  BY <1>2, Zenon DEF Q!Cell

\* What a step that only looks does to a thread: it is elsewhere in a loop, with a
\* position just read or a sequence number just seen.
Looks(u) ==
    \/ qpc'[u] = qpc[u] /\ pos'[u] = pos[u] /\ out'[u] = out[u]
    \/ /\ qpc[u] \notin {"store", "pub", "take", "free"}
       /\ \/ qpc'[u] \in {"idle", "test", "sleep", "asleep", "late"}
          \/ qpc'[u] = "seqE" /\ pos'[u] = enqueuePos
          \/ qpc'[u] = "seqD" /\ pos'[u] = dequeuePos
          \/ qpc'[u] = "casE" /\ pos'[u] = pos[u] /\ pos[u] <= enqueuePos
             /\ sequence[Q!Cell(pos[u])] = pos[u]
          \/ qpc'[u] = "casD" /\ pos'[u] = pos[u] /\ pos[u] <= dequeuePos
             /\ sequence[Q!Cell(pos[u])] = pos[u] + 1

\* Such a step keeps the invariant.
LEMMA LookKeeps ==
    ASSUME QueueInv, QueueTypes', UNCHANGED <<Q!queue, log>>, \A u \in Q!Users : Looks(u)
    PROVE  QueueInv'
<1>1. /\ enqueuePos' = enqueuePos /\ dequeuePos' = dequeuePos
      /\ sequence' = sequence /\ qdata' = qdata /\ log' = log
      /\ enqueuePos \in Nat /\ dequeuePos \in Nat
  BY DEF Q!queue, QueueInv, QueueTypes
<1>2. \A u \in Q!Users : \/ qpc'[u] = qpc[u] /\ pos'[u] = pos[u] /\ out'[u] = out[u]
                         \/ /\ qpc[u] \notin {"store", "pub", "take", "free"}
                            /\ qpc'[u] \notin {"store", "pub", "take", "free"}
  BY DEF Looks
<1>3. /\ \A u \in Q!Users : \A p : Storing(u, p)' <=> Storing(u, p)
      /\ \A u \in Q!Users : \A p : Taking(u, p)' <=> Taking(u, p)
  BY <1>2 DEF Storing, Taking
<1>4. Q!EndsInOrder' /\ LiveOK' /\ FreeOK'
  BY <1>1, <1>3 DEF QueueInv, Q!EndsInOrder, LiveOK, FreeOK
<1>5. StoreOK'
  <2>1. ASSUME NEW u \in Q!Users, qpc'[u] \in {"store", "pub"}
        PROVE  qpc'[u] = qpc[u] /\ pos'[u] = pos[u] /\ out'[u] = out[u]
    BY <1>2, <2>1
  <2> QED
    BY <1>1, <1>3, <2>1 DEF QueueInv, StoreOK
<1>6. TakeOK'
  <2>1. ASSUME NEW u \in Q!Users, qpc'[u] \in {"take", "free"}
        PROVE  qpc'[u] = qpc[u] /\ pos'[u] = pos[u]
    BY <1>2, <2>1
  <2> QED
    BY <1>1, <1>3, <2>1 DEF QueueInv, TakeOK
<1>7. SeenOK'
  <2>1. ASSUME NEW u \in Q!Users, qpc'[u] = qpc[u], pos'[u] = pos[u]
        PROVE  /\ qpc'[u] \in {"seqE", "casE"} => pos'[u] <= enqueuePos
               /\ qpc'[u] \in {"seqD", "casD"} => pos'[u] <= dequeuePos
               /\ qpc'[u] = "casE" /\ pos'[u] = enqueuePos => sequence[Q!Cell(pos'[u])] = pos'[u]
               /\ qpc'[u] = "casD" /\ pos'[u] = dequeuePos =>
                     sequence[Q!Cell(pos'[u])] = pos'[u] + 1
    BY <2>1 DEF QueueInv, SeenOK
  <2>2. ASSUME NEW u \in Q!Users, ~(qpc'[u] = qpc[u] /\ pos'[u] = pos[u])
        PROVE  /\ qpc'[u] \in {"seqE", "casE"} => pos'[u] <= enqueuePos
               /\ qpc'[u] \in {"seqD", "casD"} => pos'[u] <= dequeuePos
               /\ qpc'[u] = "casE" /\ pos'[u] = enqueuePos => sequence[Q!Cell(pos'[u])] = pos'[u]
               /\ qpc'[u] = "casD" /\ pos'[u] = dequeuePos =>
                     sequence[Q!Cell(pos'[u])] = pos'[u] + 1
    BY <1>1, <2>2 DEF Looks
  <2> QED
    BY <1>1, <2>1, <2>2 DEF SeenOK
<1> QED
  BY <1>4, <1>5, <1>6, <1>7 DEF QueueInv
-----------------------------------------------------------------------------
\* Every step of a user keeps the types.
LEMMA QueueTypesStep ==
    ASSUME QueueTypes, NEW t \in Q!Users,
           \/ t \in Producers /\ Q!PushBegin(t)
           \/ t \in Consumers /\ Q!PopBegin(t)
           \/ Q!Step(t)
    PROVE  QueueTypes'
<1>n. /\ pos[t] \in Nat /\ pos[t] + 1 \in Nat /\ N \in Nat /\ pos[t] + N \in Nat
      /\ enqueuePos \in Nat /\ dequeuePos \in Nat /\ 0 \in Nat
  BY ChannelAssumption DEF QueueTypes
<1>m. ASSUME NEW l \in Q!PC, NEW p \in Nat
      PROVE  /\ Q!Go(t, l) => qpc' \in [Q!Users -> Q!PC]
             /\ Q!SetPos(t, p) => pos' \in [Q!Users -> Nat]
  BY DEF Q!Go, Q!SetPos, QueueTypes
<1>p. {"idle", "seqE", "casE", "store", "pub", "notify", "seqD", "casD", "take", "free",
       "test", "sleep", "asleep", "late"} \subseteq Q!PC
  BY DEF Q!PC
<1>1. CASE t \in Producers /\ Q!PushBegin(t)
  <2>1. qpc' \in [Q!Users -> Q!PC] /\ pos' \in [Q!Users -> Nat]
    BY <1>1, <1>n, <1>m, <1>p DEF Q!PushBegin
  <2> QED
    BY <1>1, <2>1 DEF Q!PushBegin, Q!queue, QueueTypes
<1>2. CASE t \in Consumers /\ Q!PopBegin(t)
  <2>1. qpc' \in [Q!Users -> Q!PC] /\ pos' \in [Q!Users -> Nat]
    BY <1>2, <1>n, <1>m, <1>p DEF Q!PopBegin
  <2> QED
    BY <1>2, <2>1 DEF Q!PopBegin, Q!queue, QueueTypes
<1>3. CASE \/ Q!ReadSeqEnqueue(t) \/ Q!ReadSeqDequeue(t)
          \/ Q!Test(t) \/ Q!Sleep(t) \/ Q!Deadline(t) \/ Q!TestLate(t)
  <2>1. UNCHANGED <<Q!queue, out, log>>
    BY <1>3 DEF Q!ReadSeqEnqueue, Q!ReadSeqDequeue, Q!Test, Q!Sleep, Q!Deadline, Q!TestLate
  <2>2. /\ \E l \in {"casE", "seqD", "casD", "seqE", "test", "sleep", "asleep", "late", "idle"} :
             Q!Go(t, l) \/ UNCHANGED qpc
        /\ \E p \in Nat : Q!SetPos(t, p) \/ UNCHANGED pos
    <3>1. CASE Q!ReadSeqEnqueue(t)
      BY <1>n, <3>1, Zenon DEF Q!ReadSeqEnqueue
    <3>2. CASE Q!ReadSeqDequeue(t)
      BY <1>n, <3>2, Zenon DEF Q!ReadSeqDequeue
    <3>3. CASE Q!Test(t) \/ Q!Sleep(t) \/ Q!Deadline(t) \/ Q!TestLate(t)
      BY <1>n, <3>3, Zenon DEF Q!Test, Q!Sleep, Q!Deadline, Q!TestLate
    <3> QED
      BY <1>3, <3>1, <3>2, <3>3
  <2>3. qpc' \in [Q!Users -> Q!PC]
    BY <1>m, <1>p, <1>n, <2>2 DEF QueueTypes
  <2>4. pos' \in [Q!Users -> Nat]
    BY <1>m, <1>p, <2>2 DEF QueueTypes
  <2> QED
    BY <2>1, <2>3, <2>4 DEF Q!queue, QueueTypes
<1>4. CASE Q!CasEnqueue(t)
  <2>1. CASE enqueuePos = pos[t]
    <3>1. /\ enqueuePos' = pos[t] + 1 /\ Q!Go(t, "store") /\ pos' = pos
          /\ UNCHANGED <<dequeuePos, sequence, qdata, out>>
          /\ log' = [p \in DOMAIN log \cup {pos[t]} |-> IF p = pos[t] THEN out[t] ELSE log[p]]
      BY <1>4, <2>1 DEF Q!CasEnqueue
    <3>2. DOMAIN log' = 0..(enqueuePos' - 1)
      <4>1. DOMAIN log' = 0..(enqueuePos - 1) \cup {enqueuePos}
        BY <2>1, <3>1 DEF QueueTypes
      <4> QED
        BY <1>n, <2>1, <3>1, <4>1
    <3>3. qpc' \in [Q!Users -> Q!PC]
      BY <1>n, <1>m, <1>p, <3>1
    <3> QED
      BY <1>n, <3>1, <3>2, <3>3 DEF QueueTypes
  <2>2. CASE enqueuePos # pos[t]
    <3>1. Q!Go(t, "seqE") /\ Q!SetPos(t, enqueuePos) /\ UNCHANGED <<Q!queue, log, out>>
      BY <1>4, <2>2 DEF Q!CasEnqueue, Q!queue
    <3>2. qpc' \in [Q!Users -> Q!PC] /\ pos' \in [Q!Users -> Nat]
      BY <1>n, <1>m, <1>p, <3>1
    <3> QED
      BY <3>1, <3>2 DEF Q!queue, QueueTypes
  <2> QED
    BY <2>1, <2>2
<1>5. CASE Q!Store(t) \/ Q!Publish(t)
  <2>1. qpc' \in [Q!Users -> Q!PC]
    BY <1>5, <1>n, <1>m, <1>p DEF Q!Store, Q!Publish
  <2>2. DOMAIN qdata' = Q!Cells /\ sequence' \in [Q!Cells -> Nat]
    BY <1>5, <1>n DEF Q!Store, Q!Publish, QueueTypes
  <2> QED
    BY <1>5, <2>1, <2>2 DEF Q!Store, Q!Publish, QueueTypes
<1>6. CASE Q!Notify(t)
  <2>1. qpc' \in [Q!Users -> Q!PC]
    <3>1. CASE \E c \in Consumers : qpc' = [qpc EXCEPT ![t] = "idle", ![c] = "test"]
      BY <1>p, <3>1 DEF QueueTypes, Q!Users
    <3> QED
      BY <1>6, <1>n, <1>m, <1>p, <3>1 DEF Q!Notify
  <2>2. pos' \in [Q!Users -> Nat]
    BY <1>6, <1>n, <1>m, <1>p DEF Q!Notify
  <2> QED
    BY <1>6, <2>1, <2>2 DEF Q!Notify, Q!queue, QueueTypes
<1>7. CASE Q!CasDequeue(t)
  <2>1. qpc' \in [Q!Users -> Q!PC] /\ pos' \in [Q!Users -> Nat]
    BY <1>7, <1>n, <1>m, <1>p DEF Q!CasDequeue, QueueTypes
  <2> QED
    BY <1>7, <1>n, <2>1 DEF Q!CasDequeue, QueueTypes
<1>8. CASE Q!Take(t)
  <2>1. qpc' \in [Q!Users -> Q!PC]
    BY <1>8, <1>n, <1>m, <1>p DEF Q!Take
  <2>2. DOMAIN qdata' = Q!Cells /\ DOMAIN out' = Q!Users
    BY <1>8 DEF Q!Take, QueueTypes
  <2> QED
    BY <1>8, <2>1, <2>2 DEF Q!Take, QueueTypes
<1>9. CASE Q!Free(t)
  <2>1. qpc' \in [Q!Users -> Q!PC] /\ pos' \in [Q!Users -> Nat]
    BY <1>9, <1>n, <1>m, <1>p DEF Q!Free
  <2>2. sequence' \in [Q!Cells -> Nat] /\ DOMAIN out' = Q!Users
    BY <1>9, <1>n DEF Q!Free, QueueTypes
  <2> QED
    BY <1>9, <2>1, <2>2 DEF Q!Free, QueueTypes
<1> QED
  BY <1>1, <1>2, <1>3, <1>4, <1>5, <1>6, <1>7, <1>8, <1>9 DEF Q!Step
-----------------------------------------------------------------------------
\* A thread that moved on in push or pop, and nobody else.
LEMMA QueueMoves ==
    ASSUME QueueTypes, NEW t \in Q!Users, NEW l, Q!Go(t, l)
    PROVE  qpc'[t] = l /\ \A u \in Q!Users \ {t} : qpc'[u] = qpc[u]
BY DEF QueueTypes, Q!Go

\* While the cell at the end is free for its position, the queue is not full, and who
\* takes the element of the lap before is done.
LEMMA FreeAtEnd ==
    ASSUME Roomy, QueueInv, sequence[Q!Cell(enqueuePos)] = enqueuePos
    PROVE  /\ enqueuePos + 1 - dequeuePos \in 0..N
           /\ \A u \in Q!Users : qpc[u] \in {"take", "free"} => enqueuePos + 1 <= pos[u] + N
<1>1. /\ enqueuePos \in Nat /\ dequeuePos \in Nat /\ N \in Nat /\ N > 1
      /\ enqueuePos - dequeuePos \in 0..N
  BY ChannelAssumption DEF QueueInv, QueueTypes, Q!EndsInOrder, Roomy
<1>2. enqueuePos # dequeuePos + N
  <2> SUFFICES ASSUME enqueuePos = dequeuePos + N PROVE FALSE
    OBVIOUS
  <2>1. Q!Cell(dequeuePos + N) = Q!Cell(dequeuePos)
    BY <1>1, QueueCellLap
  <2>2. sequence[Q!Cell(dequeuePos)] = dequeuePos + N
    BY <2>1
  <2>3. \/ sequence[Q!Cell(dequeuePos)] = dequeuePos + 1
        \/ \E t \in Q!Users : Storing(t, dequeuePos)
    BY <1>1 DEF QueueInv, LiveOK
  <2>4. \A t \in Q!Users : Storing(t, dequeuePos) => sequence[Q!Cell(dequeuePos)] = dequeuePos
    BY DEF QueueInv, StoreOK, Storing
  <2> QED
    BY <1>1, <2>2, <2>3, <2>4
<1>3. ASSUME NEW u \in Q!Users, qpc[u] \in {"take", "free"}
      PROVE  enqueuePos + 1 <= pos[u] + N
  <2>1. /\ pos[u] \in Nat /\ enqueuePos <= pos[u] + N
        /\ sequence[Q!Cell(pos[u])] = pos[u] + 1
    BY <1>3 DEF QueueInv, QueueTypes, TakeOK
  <2>2. Q!Cell(pos[u] + N) = Q!Cell(pos[u])
    BY <2>1, QueueCellLap
  <2>3. enqueuePos # pos[u] + N
    BY <1>1, <2>1, <2>2
  <2> QED
    BY <1>1, <2>1, <2>3
<1> QED
  BY <1>1, <1>2, <1>3

\* While the cell at the other end is published, its element is the one pushed.
LEMMA PublishedAtEnd ==
    ASSUME QueueInv, sequence[Q!Cell(dequeuePos)] = dequeuePos + 1
    PROVE  /\ dequeuePos < enqueuePos
           /\ qdata[Q!Cell(dequeuePos)] = log[dequeuePos]
           /\ \A u \in Q!Users : ~Storing(u, dequeuePos)
<1>1. /\ enqueuePos \in Nat /\ dequeuePos \in Nat /\ N \in Nat \ {0}
      /\ enqueuePos - dequeuePos \in 0..N
  BY ChannelAssumption DEF QueueInv, QueueTypes, Q!EndsInOrder
<1>2. \A u \in Q!Users : ~Storing(u, dequeuePos)
  <2>1. \A u \in Q!Users : Storing(u, dequeuePos) => sequence[Q!Cell(dequeuePos)] = dequeuePos
    BY DEF QueueInv, StoreOK, Storing
  <2> QED
    BY <1>1, <2>1
<1>3. dequeuePos # enqueuePos
  <2> SUFFICES ASSUME dequeuePos = enqueuePos PROVE FALSE
    OBVIOUS
  <2>1. \/ sequence[Q!Cell(dequeuePos)] = dequeuePos
        \/ \E u \in Q!Users : Taking(u, dequeuePos - N)
    BY <1>1 DEF QueueInv, FreeOK
  <2>2. PICK u \in Q!Users : Taking(u, dequeuePos - N)
    BY <1>1, <2>1
  <2>3. /\ pos[u] \in Nat /\ pos[u] = dequeuePos - N
        /\ sequence[Q!Cell(pos[u])] = pos[u] + 1
    BY <2>2 DEF QueueInv, QueueTypes, TakeOK, Taking
  <2>4. Q!Cell(pos[u] + N) = Q!Cell(pos[u])
    BY <2>3, QueueCellLap
  <2>5. pos[u] + N = dequeuePos
    BY <1>1, <2>3
  <2> QED
    BY <1>1, <2>3, <2>4, <2>5
<1>4. qdata[Q!Cell(dequeuePos)] = log[dequeuePos]
  BY <1>1, <1>2, <1>3 DEF QueueInv, LiveOK
<1> QED
  BY <1>1, <1>2, <1>3, <1>4

\* push wins a position.
LEMMA CasEnqueueWins ==
    ASSUME Roomy, QueueInv, QueueTypes', NEW t \in Q!Users, Q!CasEnqueue(t), enqueuePos = pos[t]
    PROVE  QueueInv'
<1>1. /\ enqueuePos' = enqueuePos + 1 /\ dequeuePos' = dequeuePos
      /\ sequence' = sequence /\ qdata' = qdata /\ out' = out /\ pos' = pos
      /\ pos[t] = enqueuePos
      /\ qpc[t] = "casE" /\ qpc'[t] = "store" /\ \A u \in Q!Users \ {t} : qpc'[u] = qpc[u]
      /\ log'[enqueuePos] = out[t]
      /\ \A p \in 0..(enqueuePos - 1) : log'[p] = log[p]
  <2>1. qpc[t] = "casE" /\ Q!Go(t, "store")
        /\ log' = [p \in DOMAIN log \cup {enqueuePos} |->
                     IF p = enqueuePos THEN out[t] ELSE log[p]]
    BY DEF Q!CasEnqueue
  <2>2. enqueuePos \in Nat /\ DOMAIN log = 0..(enqueuePos - 1)
    BY DEF QueueInv, QueueTypes
  <2>3. qpc'[t] = "store" /\ \A u \in Q!Users \ {t} : qpc'[u] = qpc[u]
    BY <2>1, QueueMoves DEF QueueInv
  <2>4. /\ log'[enqueuePos] = out[t]
        /\ \A p \in 0..(enqueuePos - 1) : log'[p] = log[p]
    BY <2>1, <2>2
  <2> QED
    BY <2>1, <2>3, <2>4 DEF Q!CasEnqueue
<1>2. /\ enqueuePos \in Nat /\ dequeuePos \in Nat /\ N \in Nat \ {0}
      /\ enqueuePos - dequeuePos \in 0..N /\ \A u \in Q!Users : pos[u] \in Nat
  BY ChannelAssumption DEF QueueInv, QueueTypes, Q!EndsInOrder
<1>3. sequence[Q!Cell(enqueuePos)] = enqueuePos
  BY <1>1 DEF QueueInv, SeenOK
<1>4. /\ enqueuePos + 1 - dequeuePos \in 0..N
      /\ \A u \in Q!Users : qpc[u] \in {"take", "free"} => enqueuePos + 1 <= pos[u] + N
  BY <1>3, FreeAtEnd
<1>5. \A u \in Q!Users \ {t} :
         /\ qpc[u] \in {"store", "pub", "take", "free"} => pos[u] < enqueuePos
         /\ qpc[u] \in {"store", "pub"} => pos[u] >= dequeuePos
         /\ qpc[u] = "take" => pos[u] \in 0..(enqueuePos - 1)
  BY <1>2 DEF QueueInv, StoreOK, TakeOK
<1>6. \A u \in Q!Users : \A p : /\ Storing(u, p)' <=> Storing(u, p) \/ (u = t /\ p = enqueuePos)
                                /\ Taking(u, p)' <=> Taking(u, p)
  <2>1. ASSUME NEW u \in Q!Users, NEW p
        PROVE  /\ Storing(u, p)' <=> Storing(u, p) \/ (u = t /\ p = enqueuePos)
               /\ Taking(u, p)' <=> Taking(u, p)
    <3>1. CASE u = t
      BY <1>1, <3>1 DEF Storing, Taking
    <3>2. CASE u # t
      BY <1>1, <3>2 DEF Storing, Taking
    <3> QED
      BY <3>1, <3>2
  <2> QED
    BY <2>1
<1>7. Q!EndsInOrder'
  <2>1. enqueuePos' - dequeuePos' \in 0..N
    BY <1>1, <1>2, <1>4
  <2> QED
    BY <2>1 DEF Q!EndsInOrder
<1>8. LiveOK'
  <2>1. ASSUME NEW p \in dequeuePos..enqueuePos
        PROVE  \/ sequence[Q!Cell(p)] = p + 1 /\ qdata[Q!Cell(p)] = log'[p]
               \/ \E u \in Q!Users : Storing(u, p)'
    <3>1. CASE p = enqueuePos
      BY <1>6, <3>1
    <3>2. CASE p # enqueuePos
      <4>1. p \in dequeuePos..(enqueuePos - 1) /\ log'[p] = log[p]
        BY <1>1, <1>2, <3>2
      <4>2. \/ sequence[Q!Cell(p)] = p + 1 /\ qdata[Q!Cell(p)] = log[p]
            \/ \E u \in Q!Users : Storing(u, p)
        BY <4>1 DEF QueueInv, LiveOK
      <4> QED
        BY <1>6, <4>1, <4>2, Zenon
    <3> QED
      BY <3>1, <3>2
  <2> QED
    BY <1>1, <1>2, <2>1 DEF LiveOK
<1>9. FreeOK'
  BY <1>1, <1>2, <1>6 DEF QueueInv, FreeOK
<1>a. StoreOK'
  <2>1. ASSUME NEW u \in Q!Users \ {t}, qpc[u] \in {"store", "pub"}
        PROVE  /\ dequeuePos <= pos[u] /\ pos[u] < enqueuePos + 1
               /\ sequence[Q!Cell(pos[u])] = pos[u]
               /\ (IF qpc[u] = "store" THEN out[u] ELSE qdata[Q!Cell(pos[u])]) = log'[pos[u]]
               /\ \A v \in Q!Users : qpc'[v] \in {"store", "pub"} /\ pos[v] = pos[u] => v = u
    <3>1. pos[u] \in 0..(enqueuePos - 1) /\ pos[u] # enqueuePos
      BY <1>2, <1>5, <2>1
    <3>2. log'[pos[u]] = log[pos[u]]
      BY <1>1, <3>1
    <3>3. ASSUME NEW v \in Q!Users, qpc'[v] \in {"store", "pub"}, pos[v] = pos[u] PROVE v = u
      <4>1. v # t
        BY <1>1, <3>1, <3>3
      <4>2. Storing(v, pos[u])
        BY <1>1, <3>3, <4>1 DEF Storing
      <4> QED
        BY <2>1, <4>2 DEF QueueInv, StoreOK
    <3> QED
      BY <1>2, <2>1, <3>1, <3>2, <3>3 DEF QueueInv, StoreOK
  <2>2. \A v \in Q!Users : qpc'[v] \in {"store", "pub"} /\ pos[v] = enqueuePos => v = t
    BY <1>1, <1>2, <1>5
  <2>3. ASSUME NEW u \in Q!Users, qpc'[u] \in {"store", "pub"}
        PROVE  /\ dequeuePos <= pos[u] /\ pos[u] < enqueuePos + 1
               /\ sequence[Q!Cell(pos[u])] = pos[u]
               /\ (IF qpc'[u] = "store" THEN out[u] ELSE qdata[Q!Cell(pos[u])]) = log'[pos[u]]
               /\ \A v \in Q!Users : qpc'[v] \in {"store", "pub"} /\ pos[v] = pos[u] => v = u
    <3>1. CASE u = t
      BY <1>1, <1>2, <1>3, <2>2, <3>1
    <3>2. CASE u # t
      BY <1>1, <2>1, <2>3, <3>2
    <3> QED
      BY <3>1, <3>2
  <2> QED
    BY <1>1, <2>3 DEF StoreOK, Storing
<1>b. TakeOK'
  <2>1. ASSUME NEW u \in Q!Users, qpc'[u] \in {"take", "free"}
        PROVE  /\ u # t /\ qpc'[u] = qpc[u] /\ enqueuePos + 1 <= pos[u] + N
               /\ qpc[u] = "take" => log'[pos[u]] = log[pos[u]]
    <3>1. u # t /\ qpc'[u] = qpc[u]
      BY <1>1, <2>1
    <3> QED
      BY <1>1, <1>4, <1>5, <2>1, <3>1
  <2> QED
    BY <1>1, <1>6, <2>1 DEF QueueInv, TakeOK
<1>c. SeenOK'
  <2>1. ASSUME NEW u \in Q!Users, qpc'[u] \in {"seqE", "casE", "seqD", "casD"}
        PROVE  /\ qpc'[u] = qpc[u]
               /\ qpc[u] \in {"seqE", "casE"} =>
                     pos[u] <= enqueuePos + 1 /\ pos[u] # enqueuePos + 1
    <3>1. qpc'[u] = qpc[u]
      BY <1>1, <2>1
    <3>2. qpc[u] \in {"seqE", "casE"} => pos[u] <= enqueuePos
      BY DEF QueueInv, SeenOK
    <3> QED
      BY <1>2, <3>1, <3>2
  <2> QED
    BY <1>1, <2>1 DEF QueueInv, SeenOK
<1> QED
  BY <1>7, <1>8, <1>9, <1>a, <1>b, <1>c DEF QueueInv

\* Where two positions lie less than a lap apart.
LEMMA QueueApart ==
    ASSUME NEW p \in Nat, NEW q \in Nat, p # q, p < q + N, q < p + N
    PROVE  Q!Cell(p) # Q!Cell(q)
<1>1. CASE p < q
  BY <1>1, QueueCellApart
<1>2. CASE q < p
  BY <1>2, QueueCellApart
<1> QED
  BY <1>1, <1>2

\* Everybody's position, of those who won one.
LEMMA QueueWon ==
    ASSUME QueueInv
    PROVE  /\ enqueuePos \in Nat /\ dequeuePos \in Nat /\ N \in Nat \ {0}
           /\ dequeuePos <= enqueuePos /\ enqueuePos <= dequeuePos + N
           /\ \A u \in Q!Users : /\ pos[u] \in Nat
                                 /\ qpc[u] \in {"store", "pub"} =>
                                       dequeuePos <= pos[u] /\ pos[u] < enqueuePos
                                 /\ qpc[u] \in {"take", "free"} =>
                                       pos[u] < dequeuePos /\ enqueuePos <= pos[u] + N
           /\ \A p \in Nat : Q!Cell(p) \in Q!Cells
           /\ sequence \in [Q!Cells -> Nat] /\ DOMAIN qdata = Q!Cells /\ DOMAIN out = Q!Users
<1>1. enqueuePos \in Nat /\ dequeuePos \in Nat /\ N \in Nat \ {0}
  BY ChannelAssumption DEF QueueInv, QueueTypes
<1>2. dequeuePos <= enqueuePos /\ enqueuePos <= dequeuePos + N
  BY <1>1 DEF QueueInv, Q!EndsInOrder
<1> QED
  BY <1>1, <1>2, QueueCell DEF QueueInv, QueueTypes, StoreOK, TakeOK

\* The element is put into its cell.
LEMMA StoreKeeps ==
    ASSUME QueueInv, QueueTypes', NEW t \in Q!Users, Q!Store(t)
    PROVE  QueueInv'
<1> DEFINE k == pos[t]
<1>1. /\ enqueuePos' = enqueuePos /\ dequeuePos' = dequeuePos
      /\ sequence' = sequence /\ out' = out /\ pos' = pos /\ log' = log
      /\ qpc[t] = "store" /\ qpc'[t] = "pub" /\ \A u \in Q!Users \ {t} : qpc'[u] = qpc[u]
      /\ qdata' = [qdata EXCEPT ![Q!Cell(k)] = out[t]]
  BY QueueMoves DEF Q!Store, QueueInv
<1>2. /\ qdata'[Q!Cell(k)] = log[k]
      /\ \A p \in Nat : Q!Cell(p) # Q!Cell(k) => qdata'[Q!Cell(p)] = qdata[Q!Cell(p)]
  <2>1. out[t] = log[k]
    BY <1>1 DEF QueueInv, StoreOK
  <2> QED
    BY <1>1, <2>1, QueueWon
<1>3. dequeuePos <= k /\ k < enqueuePos /\ k \in Nat
  BY <1>1, QueueWon
<1> HIDE DEF k
<1>4. /\ \A u \in Q!Users : qpc'[u] \in {"store", "pub"} <=> qpc[u] \in {"store", "pub"}
      /\ \A u \in Q!Users : qpc'[u] \in {"take", "free", "seqE", "casE", "seqD", "casD"}
                            => u # t /\ qpc'[u] = qpc[u]
  BY <1>1
<1>5. Q!EndsInOrder' /\ FreeOK' /\ SeenOK'
  BY <1>1, <1>4 DEF QueueInv, Q!EndsInOrder, FreeOK, SeenOK, Taking
<1>6. LiveOK'
  <2>1. ASSUME NEW p \in dequeuePos..(enqueuePos - 1)
        PROVE  \/ sequence[Q!Cell(p)] = p + 1 /\ qdata'[Q!Cell(p)] = log[p]
               \/ \E u \in Q!Users : qpc'[u] \in {"store", "pub"} /\ pos[u] = p
    <3>1. CASE p = k
      BY <1>1, <3>1 DEF k
    <3>2. CASE p # k
      <4>1. p \in Nat /\ Q!Cell(p) # Q!Cell(k)
        BY <1>3, <3>2, QueueWon, QueueApart
      <4>2. qdata'[Q!Cell(p)] = qdata[Q!Cell(p)]
        BY <1>2, <4>1
      <4> QED
        BY <1>4, <4>2 DEF QueueInv, LiveOK, Storing
    <3> QED
      BY <3>1, <3>2
  <2> QED
    BY <1>1, <2>1 DEF LiveOK, Storing
<1>7. StoreOK'
  <2>1. ASSUME NEW u \in Q!Users, qpc'[u] \in {"store", "pub"}
        PROVE  (IF qpc'[u] = "store" THEN out[u] ELSE qdata'[Q!Cell(pos[u])]) = log[pos[u]]
    <3>1. CASE u = t
      BY <1>1, <1>2, <3>1 DEF k
    <3>2. CASE u # t
      <4>1. qpc'[u] = qpc[u] /\ pos[u] # k
        BY <1>1, <2>1, <3>2 DEF QueueInv, StoreOK, Storing, k
      <4>2. pos[u] \in Nat /\ pos[u] < k + N /\ k < pos[u] + N
        BY <1>3, <2>1, <4>1, QueueWon
      <4>3. Q!Cell(pos[u]) # Q!Cell(k)
        BY <1>3, <4>1, <4>2, QueueApart
      <4> QED
        BY <1>2, <2>1, <4>1, <4>2, <4>3 DEF QueueInv, StoreOK
    <3> QED
      BY <3>1, <3>2
  <2> QED
    BY <1>1, <1>4, <2>1 DEF QueueInv, StoreOK, Storing
<1>8. TakeOK'
  <2>1. ASSUME NEW u \in Q!Users, qpc'[u] \in {"take", "free"}
        PROVE  qdata'[Q!Cell(pos[u])] = qdata[Q!Cell(pos[u])] /\ qpc'[u] = qpc[u]
    <3>1. qpc'[u] = qpc[u]
      BY <1>4, <2>1
    <3>2. pos[u] \in Nat /\ pos[u] < dequeuePos /\ enqueuePos <= pos[u] + N
      BY <2>1, <3>1, QueueWon
    <3>3. Q!Cell(pos[u]) # Q!Cell(k)
      BY <1>3, <3>2, QueueWon, QueueCellApart
    <3> QED
      BY <1>2, <3>1, <3>2, <3>3
  <2> QED
    BY <1>1, <2>1 DEF QueueInv, TakeOK, Taking
<1> QED
  BY <1>5, <1>6, <1>7, <1>8 DEF QueueInv

\* And published.
LEMMA PublishKeeps ==
    ASSUME Roomy, QueueInv, QueueTypes', NEW t \in Q!Users, Q!Publish(t)
    PROVE  QueueInv'
<1> DEFINE k == pos[t]
<1>1. /\ enqueuePos' = enqueuePos /\ dequeuePos' = dequeuePos
      /\ qdata' = qdata /\ out' = out /\ pos' = pos /\ log' = log
      /\ qpc[t] = "pub" /\ qpc'[t] = "notify" /\ \A u \in Q!Users \ {t} : qpc'[u] = qpc[u]
      /\ sequence' = [sequence EXCEPT ![Q!Cell(k)] = k + 1]
  BY QueueMoves DEF Q!Publish, QueueInv
<1>2. /\ sequence'[Q!Cell(k)] = k + 1
      /\ \A p \in Nat : Q!Cell(p) # Q!Cell(k) => sequence'[Q!Cell(p)] = sequence[Q!Cell(p)]
      /\ qdata[Q!Cell(k)] = log[k]
  BY <1>1, QueueWon DEF QueueInv, StoreOK
<1>3. dequeuePos <= k /\ k < enqueuePos /\ k \in Nat
  BY <1>1, QueueWon
<1>4. \A u \in Q!Users \ {t} : qpc[u] \in {"store", "pub"} => pos[u] # k
  BY <1>1 DEF QueueInv, StoreOK, Storing
<1>s. Storing(t, k)
  BY <1>1 DEF Storing
<1> HIDE DEF k
<1>5. Q!EndsInOrder'
  BY <1>1 DEF QueueInv, Q!EndsInOrder
<1>6. LiveOK'
  <2>1. ASSUME NEW p \in dequeuePos..(enqueuePos - 1), p # k
        PROVE  \/ sequence'[Q!Cell(p)] = p + 1 /\ qdata[Q!Cell(p)] = log[p]
               \/ \E u \in Q!Users : qpc'[u] \in {"store", "pub"} /\ pos[u] = p
    <3>0. p \in Nat /\ p < k + N /\ k < p + N
      BY <1>3, QueueWon
    <3>1. Q!Cell(p) # Q!Cell(k)
      BY <1>3, <2>1, <3>0, QueueApart
    <3>2. sequence'[Q!Cell(p)] = sequence[Q!Cell(p)]
      BY <1>2, <3>0, <3>1
    <3>3. \/ sequence[Q!Cell(p)] = p + 1 /\ qdata[Q!Cell(p)] = log[p]
          \/ \E u \in Q!Users : Storing(u, p)
      BY DEF QueueInv, LiveOK
    <3>4. \A u \in Q!Users : Storing(u, p) => qpc'[u] \in {"store", "pub"} /\ pos[u] = p
      BY <1>1, <2>1 DEF Storing, k
    <3> QED
      BY <3>2, <3>3, <3>4
  <2> QED
    BY <1>1, <1>2, <2>1 DEF LiveOK, Storing
<1>7. FreeOK'
  <2>1. ASSUME NEW p \in enqueuePos..(dequeuePos + N - 1)
        PROVE  \/ sequence'[Q!Cell(p)] = p
               \/ \E u \in Q!Users : qpc'[u] \in {"take", "free"} /\ pos[u] = p - N
    <3>0. p \in Nat /\ k < p /\ p < k + N
      BY <1>3, QueueWon
    <3>1. p \in Nat /\ Q!Cell(p) # Q!Cell(k)
      BY <1>3, <3>0, QueueCellApart
    <3>2. sequence'[Q!Cell(p)] = sequence[Q!Cell(p)]
      BY <1>2, <3>1
    <3>3. \/ sequence[Q!Cell(p)] = p
          \/ \E u \in Q!Users : Taking(u, p - N)
      BY DEF QueueInv, FreeOK
    <3>4. \A u \in Q!Users : qpc[u] \in {"take", "free"} => qpc'[u] = qpc[u]
      BY <1>1
    <3> QED
      BY <3>2, <3>3, <3>4 DEF Taking
  <2> QED
    BY <1>1, <2>1 DEF FreeOK, Taking
<1>8. StoreOK'
  <2>1. ASSUME NEW u \in Q!Users, qpc'[u] \in {"store", "pub"}
        PROVE  u # t /\ qpc'[u] = qpc[u] /\ sequence'[Q!Cell(pos[u])] = sequence[Q!Cell(pos[u])]
    <3>1. u # t /\ qpc'[u] = qpc[u]
      BY <1>1, <2>1
    <3>2. pos[u] \in Nat /\ Q!Cell(pos[u]) # Q!Cell(k)
      BY <1>3, <1>4, <2>1, <3>1, QueueWon, QueueApart
    <3> QED
      BY <1>2, <3>1, <3>2
  <2> QED
    BY <1>1, <2>1 DEF QueueInv, StoreOK, Storing
<1>9. TakeOK'
  <2>1. ASSUME NEW u \in Q!Users, qpc'[u] \in {"take", "free"}
        PROVE  u # t /\ qpc'[u] = qpc[u] /\ sequence'[Q!Cell(pos[u])] = sequence[Q!Cell(pos[u])]
    <3>1. u # t /\ qpc'[u] = qpc[u]
      BY <1>1, <2>1
    <3>2. pos[u] \in Nat /\ pos[u] < dequeuePos /\ enqueuePos <= pos[u] + N
      BY <2>1, <3>1, QueueWon
    <3>3. Q!Cell(pos[u]) # Q!Cell(k)
      BY <1>3, <3>2, QueueWon, QueueCellApart
    <3> QED
      BY <1>2, <3>1, <3>2, <3>3
  <2> QED
    BY <1>1, <2>1 DEF QueueInv, TakeOK, Taking
<1>a. SeenOK'
  <2>1. sequence[Q!Cell(enqueuePos)] = enqueuePos => sequence'[Q!Cell(enqueuePos)] = enqueuePos
    <3> SUFFICES ASSUME sequence[Q!Cell(enqueuePos)] = enqueuePos
                 PROVE  sequence'[Q!Cell(enqueuePos)] = enqueuePos
      OBVIOUS
    <3>1. enqueuePos < k + N
      BY <1>3, QueueWon, FreeAtEnd
    <3>2. Q!Cell(enqueuePos) # Q!Cell(k)
      BY <1>3, <3>1, QueueWon, QueueCellApart
    <3> QED
      BY <1>2, <3>2, QueueWon
  <2>2. sequence[Q!Cell(dequeuePos)] = dequeuePos + 1 =>
          sequence'[Q!Cell(dequeuePos)] = dequeuePos + 1
    <3> SUFFICES ASSUME sequence[Q!Cell(dequeuePos)] = dequeuePos + 1
                 PROVE  sequence'[Q!Cell(dequeuePos)] = dequeuePos + 1
      OBVIOUS
    <3>1. k # dequeuePos
      BY <1>s, PublishedAtEnd
    <3>2. Q!Cell(dequeuePos) # Q!Cell(k)
      BY <1>3, <3>1, QueueWon, QueueApart
    <3> QED
      BY <1>2, <3>2, QueueWon
  <2>3. \A u \in Q!Users : qpc'[u] \in {"seqE", "casE", "seqD", "casD"} => qpc'[u] = qpc[u]
    BY <1>1
  <2> QED
    BY <1>1, <2>1, <2>2, <2>3 DEF QueueInv, SeenOK
<1> QED
  BY <1>5, <1>6, <1>7, <1>8, <1>9, <1>a DEF QueueInv

\* pop, or the push on a full queue, wins a position.
LEMMA CasDequeueWins ==
    ASSUME QueueInv, QueueTypes', NEW t \in Q!Users, Q!CasDequeue(t), dequeuePos = pos[t]
    PROVE  QueueInv'
<1>1. /\ enqueuePos' = enqueuePos /\ dequeuePos' = dequeuePos + 1
      /\ sequence' = sequence /\ qdata' = qdata /\ out' = out /\ pos' = pos /\ log' = log
      /\ pos[t] = dequeuePos
      /\ qpc[t] = "casD" /\ qpc'[t] = "take" /\ \A u \in Q!Users \ {t} : qpc'[u] = qpc[u]
  BY QueueMoves DEF Q!CasDequeue, QueueInv
<1>2. sequence[Q!Cell(dequeuePos)] = dequeuePos + 1
  BY <1>1 DEF QueueInv, SeenOK
<1>3. /\ dequeuePos < enqueuePos
      /\ qdata[Q!Cell(dequeuePos)] = log[dequeuePos]
      /\ \A u \in Q!Users : ~Storing(u, dequeuePos)
  BY <1>2, PublishedAtEnd
<1>4. /\ \A u \in Q!Users : qpc'[u] \in {"store", "pub"} => qpc'[u] = qpc[u]
      /\ \A u \in Q!Users : qpc[u] \in {"store", "pub"} => qpc'[u] = qpc[u]
      /\ \A u \in Q!Users \ {t} : qpc'[u] \in {"take", "free"} => qpc'[u] = qpc[u]
      /\ \A u \in Q!Users : qpc[u] \in {"take", "free"} => qpc'[u] = qpc[u]
  BY <1>1
<1>5. Q!EndsInOrder'
  <2>1. enqueuePos - (dequeuePos + 1) \in 0..N
    BY <1>3, QueueWon
  <2> QED
    BY <1>1, <2>1 DEF Q!EndsInOrder
<1>6. LiveOK'
  <2>1. \A p \in (dequeuePos + 1)..(enqueuePos - 1) : p \in dequeuePos..(enqueuePos - 1)
    BY QueueWon
  <2> QED
    BY <1>1, <1>4, <2>1 DEF QueueInv, LiveOK, Storing
<1>7. FreeOK'
  <2>1. ASSUME NEW p \in enqueuePos..(dequeuePos + 1 + N - 1)
        PROVE  \/ sequence[Q!Cell(p)] = p
               \/ \E u \in Q!Users : qpc'[u] \in {"take", "free"} /\ pos[u] = p - N
    <3>1. CASE p = dequeuePos + N
      <4>1. pos[t] = p - N
        BY <1>1, <3>1, QueueWon
      <4> QED
        BY <1>1, <4>1
    <3>2. CASE p # dequeuePos + N
      <4>1. p \in enqueuePos..(dequeuePos + N - 1)
        BY <3>2, QueueWon
      <4> QED
        BY <1>4, <4>1 DEF QueueInv, FreeOK, Taking
    <3> QED
      BY <3>1, <3>2
  <2> QED
    BY <1>1, <2>1 DEF FreeOK, Taking
<1>8. StoreOK'
  <2>1. ASSUME NEW u \in Q!Users, qpc[u] \in {"store", "pub"}
        PROVE  dequeuePos + 1 <= pos[u]
    <3>1. pos[u] # dequeuePos
      BY <1>3, <2>1 DEF Storing
    <3> QED
      BY <2>1, <3>1, QueueWon
  <2> QED
    BY <1>1, <1>4, <2>1 DEF QueueInv, StoreOK, Storing
<1>9. TakeOK'
  <2>1. ASSUME NEW u \in Q!Users, qpc'[u] \in {"take", "free"}
        PROVE  /\ pos[u] < dequeuePos + 1 /\ enqueuePos <= pos[u] + N
               /\ sequence[Q!Cell(pos[u])] = pos[u] + 1
               /\ qpc'[u] = "take" => qdata[Q!Cell(pos[u])] = log[pos[u]]
               /\ \A v \in Q!Users : qpc'[v] \in {"take", "free"} /\ pos[v] = pos[u] => v = u
    <3>1. CASE u = t
      <4>1. \A v \in Q!Users \ {t} : qpc'[v] \in {"take", "free"} => pos[v] < dequeuePos
        BY <1>4, QueueWon
      <4> QED
        BY <1>1, <1>2, <1>3, <3>1, <4>1, QueueWon
    <3>2. CASE u # t
      <4>1. qpc'[u] = qpc[u] /\ pos[u] < dequeuePos /\ pos[u] \in Nat
        BY <1>4, <2>1, <3>2, QueueWon
      <4>2. \A v \in Q!Users : qpc'[v] \in {"take", "free"} /\ pos[v] = pos[u] => v = u
        BY <1>1, <1>4, <2>1, <4>1, QueueWon DEF QueueInv, TakeOK, Taking
      <4> QED
        BY <2>1, <4>1, <4>2, QueueWon DEF QueueInv, TakeOK
    <3> QED
      BY <3>1, <3>2
  <2> QED
    BY <1>1, <2>1 DEF TakeOK, Taking
<1>a. SeenOK'
  <2>1. ASSUME NEW u \in Q!Users, qpc'[u] \in {"seqE", "casE", "seqD", "casD"}
        PROVE  /\ qpc'[u] = qpc[u]
               /\ qpc[u] \in {"seqD", "casD"} =>
                     pos[u] <= dequeuePos + 1 /\ pos[u] # dequeuePos + 1
    <3>1. qpc'[u] = qpc[u]
      BY <1>1, <2>1
    <3>2. qpc[u] \in {"seqD", "casD"} => pos[u] <= dequeuePos
      BY DEF QueueInv, SeenOK
    <3> QED
      BY <3>1, <3>2, QueueWon
  <2> QED
    BY <1>1, <2>1 DEF QueueInv, SeenOK
<1> QED
  BY <1>5, <1>6, <1>7, <1>8, <1>9, <1>a DEF QueueInv

\* The element is taken out of its cell.
LEMMA TakeKeeps ==
    ASSUME QueueInv, QueueTypes', NEW t \in Q!Users, Q!Take(t)
    PROVE  QueueInv'
<1> DEFINE k == pos[t]
<1>1. /\ enqueuePos' = enqueuePos /\ dequeuePos' = dequeuePos
      /\ sequence' = sequence /\ pos' = pos /\ log' = log
      /\ \A u \in Q!Users \ {t} : out'[u] = out[u]
      /\ qpc[t] = "take" /\ qpc'[t] = "free" /\ \A u \in Q!Users \ {t} : qpc'[u] = qpc[u]
      /\ qdata' = [qdata EXCEPT ![Q!Cell(k)] = Q!Nothing]
  <2>1. \A u \in Q!Users \ {t} : out'[u] = out[u]
    BY QueueWon DEF Q!Take
  <2> QED
    BY <2>1, QueueMoves DEF Q!Take, QueueInv
<1>2. \A p \in Nat : Q!Cell(p) # Q!Cell(k) => qdata'[Q!Cell(p)] = qdata[Q!Cell(p)]
  BY <1>1, QueueWon
<1>3. k < dequeuePos /\ enqueuePos <= k + N /\ k \in Nat
  BY <1>1, QueueWon
<1>4. \A u \in Q!Users \ {t} : qpc[u] \in {"take", "free"} => pos[u] # k
  BY <1>1 DEF QueueInv, TakeOK, Taking
<1> HIDE DEF k
<1>5. /\ \A u \in Q!Users : qpc'[u] \in {"take", "free"} <=> qpc[u] \in {"take", "free"}
      /\ \A u \in Q!Users : qpc'[u] \in {"store", "pub", "seqE", "casE", "seqD", "casD"}
                            => u # t /\ qpc'[u] = qpc[u]
      /\ \A u \in Q!Users : qpc[u] \in {"store", "pub"} => qpc'[u] = qpc[u]
  BY <1>1
<1>6. Q!EndsInOrder' /\ FreeOK' /\ SeenOK'
  BY <1>1, <1>5 DEF QueueInv, Q!EndsInOrder, FreeOK, SeenOK, Taking
<1>7. ASSUME NEW p \in Nat, dequeuePos <= p, p < enqueuePos
      PROVE  qdata'[Q!Cell(p)] = qdata[Q!Cell(p)]
  <2>1. Q!Cell(k) # Q!Cell(p)
    BY <1>3, <1>7, QueueWon, QueueCellApart
  <2> QED
    BY <1>2, <2>1
<1>8. LiveOK'
  <2>1. \A p \in dequeuePos..(enqueuePos - 1) : qdata'[Q!Cell(p)] = qdata[Q!Cell(p)]
    BY <1>7, QueueWon
  <2> QED
    BY <1>1, <1>5, <2>1 DEF QueueInv, LiveOK, Storing
<1>9. StoreOK'
  <2>1. \A u \in Q!Users : qpc'[u] \in {"store", "pub"} =>
           /\ qpc'[u] = qpc[u] /\ out'[u] = out[u]
           /\ qdata'[Q!Cell(pos[u])] = qdata[Q!Cell(pos[u])]
    BY <1>1, <1>5, <1>7, QueueWon
  <2> QED
    BY <1>1, <2>1 DEF QueueInv, StoreOK, Storing
<1>a. TakeOK'
  <2>1. ASSUME NEW u \in Q!Users, qpc'[u] = "take"
        PROVE  qpc[u] = "take" /\ qdata'[Q!Cell(pos[u])] = qdata[Q!Cell(pos[u])]
    <3>1. u # t /\ qpc[u] = "take"
      BY <1>1, <2>1
    <3>2. /\ pos[u] # k /\ pos[u] \in Nat
          /\ pos[u] < dequeuePos /\ enqueuePos <= pos[u] + N
      BY <1>4, <3>1, QueueWon
    <3>3. Q!Cell(pos[u]) # Q!Cell(k)
      BY <1>3, <3>2, QueueWon, QueueApart
    <3> QED
      BY <1>2, <3>1, <3>2, <3>3
  <2> QED
    BY <1>1, <1>5, <2>1 DEF QueueInv, TakeOK, Taking
<1> QED
  BY <1>6, <1>8, <1>9, <1>a DEF QueueInv

\* And its cell is free for the position a lap ahead.
LEMMA FreeKeeps ==
    ASSUME Roomy, QueueInv, QueueTypes', NEW t \in Q!Users, Q!Free(t)
    PROVE  QueueInv'
<1> DEFINE k == pos[t]
<1>1. /\ enqueuePos' = enqueuePos /\ dequeuePos' = dequeuePos
      /\ qdata' = qdata /\ log' = log
      /\ \A u \in Q!Users \ {t} : qpc'[u] = qpc[u] /\ pos'[u] = pos[u] /\ out'[u] = out[u]
      /\ qpc[t] = "free" /\ (qpc'[t] = "idle" \/ (qpc'[t] = "seqE" /\ pos'[t] = enqueuePos))
      /\ sequence' = [sequence EXCEPT ![Q!Cell(k)] = k + N]
  <2>1. /\ Q!Go(t, "idle") \/ (Q!Go(t, "seqE") /\ Q!SetPos(t, enqueuePos))
        /\ Q!SetPos(t, 0) \/ Q!SetPos(t, enqueuePos)
        /\ out' = out \/ out' = [out EXCEPT ![t] = Q!Nothing]
    BY DEF Q!Free
  <2>2. /\ \A u \in Q!Users \ {t} : pos'[u] = pos[u] /\ out'[u] = out[u]
        /\ Q!SetPos(t, enqueuePos) => pos'[t] = enqueuePos
    BY <2>1, QueueWon DEF Q!SetPos, QueueInv, QueueTypes
  <2>3. /\ qpc'[t] = "idle" \/ (qpc'[t] = "seqE" /\ pos'[t] = enqueuePos)
        /\ \A u \in Q!Users \ {t} : qpc'[u] = qpc[u]
    BY <2>1, <2>2, QueueMoves DEF QueueInv
  <2> QED
    BY <2>2, <2>3 DEF Q!Free
<1>2. /\ sequence'[Q!Cell(k)] = k + N
      /\ \A p \in Nat : Q!Cell(p) # Q!Cell(k) => sequence'[Q!Cell(p)] = sequence[Q!Cell(p)]
  BY <1>1, QueueWon
<1>3. k < dequeuePos /\ enqueuePos <= k + N /\ k \in Nat
  BY <1>1, QueueWon
<1>4. \A u \in Q!Users \ {t} : qpc[u] \in {"take", "free"} => pos[u] # k
  BY <1>1 DEF QueueInv, TakeOK, Taking
<1> HIDE DEF k
<1>5. ASSUME NEW p \in Nat, dequeuePos <= p, p < k + N
      PROVE  sequence'[Q!Cell(p)] = sequence[Q!Cell(p)]
  <2>1. Q!Cell(k) # Q!Cell(p)
    BY <1>3, <1>5, QueueWon, QueueCellApart
  <2> QED
    BY <1>2, <2>1
<1>6. Q!EndsInOrder'
  BY <1>1 DEF QueueInv, Q!EndsInOrder
<1>7. \A u \in Q!Users : \/ u = t
                         \/ qpc'[u] = qpc[u] /\ pos'[u] = pos[u] /\ out'[u] = out[u]
  BY <1>1
<1>8. LiveOK'
  <2>1. \A p \in dequeuePos..(enqueuePos - 1) : sequence'[Q!Cell(p)] = sequence[Q!Cell(p)]
    BY <1>3, <1>5, QueueWon
  <2>2. \A u \in Q!Users, p \in Nat :
           Storing(u, p) => qpc'[u] \in {"store", "pub"} /\ pos'[u] = p
    BY <1>1 DEF Storing
  <2>3. \A p \in dequeuePos..(enqueuePos - 1) : p \in Nat
    BY QueueWon
  <2>4. \A p \in dequeuePos..(enqueuePos - 1) :
           \/ sequence'[Q!Cell(p)] = p + 1 /\ qdata[Q!Cell(p)] = log[p]
           \/ \E u \in Q!Users : qpc'[u] \in {"store", "pub"} /\ pos'[u] = p
    BY <2>1, <2>2, <2>3 DEF QueueInv, LiveOK
  <2> QED
    BY <1>1, <2>4 DEF LiveOK, Storing
<1>9. FreeOK'
  <2>1. ASSUME NEW p \in enqueuePos..(dequeuePos + N - 1)
        PROVE  \/ sequence'[Q!Cell(p)] = p
               \/ \E u \in Q!Users : qpc'[u] \in {"take", "free"} /\ pos'[u] = p - N
    <3>0. p \in Nat /\ k + N \in Nat /\ Q!Cell(k + N) = Q!Cell(k)
      BY <1>3, QueueWon, QueueCellLap
    <3>1. CASE p = k + N
      BY <1>2, <3>0, <3>1
    <3>2. CASE p # k + N
      <4>1. Q!Cell(p) # Q!Cell(k)
        <5>1. p < k + N + N /\ k + N < p + N
          BY <1>3, <3>0, QueueWon
        <5> QED
          BY <3>0, <3>2, <5>1, QueueApart
      <4>2. sequence'[Q!Cell(p)] = sequence[Q!Cell(p)]
        BY <1>2, <3>0, <4>1
      <4>3. k # p - N
        BY <1>3, <3>0, <3>2, QueueWon
      <4>4. \A u \in Q!Users : Taking(u, p - N) =>
               qpc'[u] \in {"take", "free"} /\ pos'[u] = p - N
        BY <1>7, <4>3 DEF Taking, k
      <4> QED
        BY <4>2, <4>4 DEF QueueInv, FreeOK
    <3> QED
      BY <3>1, <3>2
  <2> QED
    BY <1>1, <2>1 DEF FreeOK, Taking
<1>a. StoreOK'
  <2>1. ASSUME NEW u \in Q!Users, qpc'[u] \in {"store", "pub"}
        PROVE  /\ qpc'[u] = qpc[u] /\ pos'[u] = pos[u] /\ out'[u] = out[u]
               /\ sequence'[Q!Cell(pos[u])] = sequence[Q!Cell(pos[u])]
    <3>1. u # t /\ qpc'[u] = qpc[u] /\ pos'[u] = pos[u] /\ out'[u] = out[u]
      BY <1>1, <2>1
    <3> QED
      BY <1>3, <1>5, <2>1, <3>1, QueueWon
  <2> QED
    BY <1>1, <2>1 DEF QueueInv, StoreOK, Storing
<1>b. TakeOK'
  <2>1. ASSUME NEW u \in Q!Users, qpc'[u] \in {"take", "free"}
        PROVE  /\ qpc'[u] = qpc[u] /\ pos'[u] = pos[u]
               /\ sequence'[Q!Cell(pos[u])] = sequence[Q!Cell(pos[u])]
    <3>1. u # t /\ qpc'[u] = qpc[u] /\ pos'[u] = pos[u]
      BY <1>1, <2>1
    <3>2. /\ pos[u] # k /\ pos[u] \in Nat
          /\ pos[u] < dequeuePos /\ enqueuePos <= pos[u] + N
      BY <1>4, <2>1, <3>1, QueueWon
    <3>3. Q!Cell(pos[u]) # Q!Cell(k)
      BY <1>3, <3>2, QueueWon, QueueApart
    <3> QED
      BY <1>2, <3>1, <3>2, <3>3
  <2> QED
    BY <1>1, <2>1 DEF QueueInv, TakeOK, Taking
<1>c. SeenOK'
  <2>1. sequence[Q!Cell(enqueuePos)] = enqueuePos => sequence'[Q!Cell(enqueuePos)] = enqueuePos
    <3> SUFFICES ASSUME sequence[Q!Cell(enqueuePos)] = enqueuePos
                 PROVE  sequence'[Q!Cell(enqueuePos)] = enqueuePos
      OBVIOUS
    <3>1. enqueuePos + 1 <= k + N
      BY <1>1, FreeAtEnd DEF k
    <3> QED
      BY <1>3, <1>5, <3>1, QueueWon
  <2>2. sequence[Q!Cell(dequeuePos)] = dequeuePos + 1 =>
          sequence'[Q!Cell(dequeuePos)] = dequeuePos + 1
    <3> SUFFICES ASSUME sequence[Q!Cell(dequeuePos)] = dequeuePos + 1
                 PROVE  sequence'[Q!Cell(dequeuePos)] = dequeuePos + 1
      OBVIOUS
    <3>1. dequeuePos < k + N
      BY <1>3, PublishedAtEnd, QueueWon
    <3> QED
      BY <1>5, <3>1, QueueWon
  <2>3. ASSUME NEW u \in Q!Users
        PROVE  /\ qpc'[u] \in {"seqE", "casE"} => pos'[u] <= enqueuePos
               /\ qpc'[u] \in {"seqD", "casD"} => pos'[u] <= dequeuePos
               /\ qpc'[u] = "casE" /\ pos'[u] = enqueuePos =>
                     sequence'[Q!Cell(pos'[u])] = pos'[u]
               /\ qpc'[u] = "casD" /\ pos'[u] = dequeuePos =>
                     sequence'[Q!Cell(pos'[u])] = pos'[u] + 1
    <3>1. CASE u = t
      BY <1>1, <3>1, QueueWon
    <3>2. CASE u # t
      BY <1>7, <2>1, <2>2, <3>2 DEF QueueInv, SeenOK
    <3> QED
      BY <3>1, <3>2
  <2> QED
    BY <1>1, <2>3 DEF SeenOK
<1> QED
  BY <1>6, <1>8, <1>9, <1>a, <1>b, <1>c DEF QueueInv
-----------------------------------------------------------------------------
\* Every step of a user keeps the invariant.
LEMMA QueueStep ==
    ASSUME Roomy, QueueInv, NEW t \in Q!Users,
           \/ t \in Producers /\ Q!PushBegin(t)
           \/ t \in Consumers /\ Q!PopBegin(t)
           \/ Q!Step(t)
    PROVE  QueueInv'
<1>t. QueueTypes /\ QueueTypes'
  BY QueueTypesStep DEF QueueInv
<1>n. enqueuePos \in Nat /\ dequeuePos \in Nat /\ sequence \in [Q!Cells -> Nat]
      /\ pos \in [Q!Users -> Nat] /\ \A p \in Nat : Q!Cell(p) \in Q!Cells
  BY QueueCell DEF QueueInv, QueueTypes
<1>m. /\ \A l : Q!Go(t, l) => qpc'[t] = l /\ \A u \in Q!Users \ {t} : qpc'[u] = qpc[u]
      /\ \A p : Q!SetPos(t, p) => pos'[t] = p /\ \A u \in Q!Users \ {t} : pos'[u] = pos[u]
  BY <1>t DEF Q!Go, Q!SetPos, QueueTypes
<1>l. ASSUME UNCHANGED <<Q!queue, log>>, Looks(t),
             \A u \in Q!Users \ {t} : qpc'[u] = qpc[u] /\ pos'[u] = pos[u] /\ out'[u] = out[u]
      PROVE  QueueInv'
  <2>1. \A u \in Q!Users : Looks(u)
    BY <1>l DEF Looks
  <2> QED
    BY <1>t, <1>l, <2>1, LookKeeps
<1>1. CASE t \in Producers /\ Q!PushBegin(t)
  <2>1. /\ \A u \in Q!Users \ {t} : out'[u] = out[u]
        /\ qpc[t] = "idle" /\ UNCHANGED <<Q!queue, log>>
    BY <1>1, <1>t DEF Q!PushBegin, QueueTypes
  <2>2. Looks(t) /\ \A u \in Q!Users \ {t} : qpc'[u] = qpc[u] /\ pos'[u] = pos[u]
    BY <1>1, <1>m, <2>1 DEF Q!PushBegin, Looks
  <2> QED
    BY <1>l, <2>1, <2>2
<1>2. CASE t \in Consumers /\ Q!PopBegin(t)
  <2>1. qpc[t] = "idle" /\ UNCHANGED <<Q!queue, log, out>>
    BY <1>2 DEF Q!PopBegin
  <2>2. Looks(t) /\ \A u \in Q!Users \ {t} : qpc'[u] = qpc[u] /\ pos'[u] = pos[u]
    BY <1>2, <1>m, <2>1 DEF Q!PopBegin, Looks
  <2> QED
    BY <1>l, <2>1, <2>2
<1>3. CASE Q!ReadSeqEnqueue(t)
  <2>1. qpc[t] = "seqE" /\ UNCHANGED <<Q!queue, log, out>>
    BY <1>3 DEF Q!ReadSeqEnqueue
  <2>2. \/ /\ sequence[Q!Cell(pos[t])] - pos[t] = 0 /\ Q!Go(t, "casE") /\ pos' = pos
        \/ Q!Go(t, "seqD") /\ Q!SetPos(t, dequeuePos)
        \/ Q!SetPos(t, enqueuePos) /\ qpc' = qpc
    BY <1>3 DEF Q!ReadSeqEnqueue
  <2>3. sequence[Q!Cell(pos[t])] - pos[t] = 0 => sequence[Q!Cell(pos[t])] = pos[t]
    BY <1>n
  <2>4. pos[t] <= enqueuePos
    BY <2>1 DEF QueueInv, SeenOK
  <2>5. Looks(t) /\ \A u \in Q!Users \ {t} : qpc'[u] = qpc[u] /\ pos'[u] = pos[u]
    BY <1>m, <2>1, <2>2, <2>3, <2>4 DEF Looks
  <2> QED
    BY <1>l, <2>1, <2>5
<1>4. CASE Q!ReadSeqDequeue(t)
  <2>1. qpc[t] = "seqD" /\ UNCHANGED <<Q!queue, log, out>>
    BY <1>4 DEF Q!ReadSeqDequeue
  <2>2. \/ /\ sequence[Q!Cell(pos[t])] - (pos[t] + 1) = 0 /\ Q!Go(t, "casD") /\ pos' = pos
        \/ Q!Go(t, "seqE") /\ Q!SetPos(t, enqueuePos)
        \/ Q!Go(t, "test") /\ Q!SetPos(t, 0)
        \/ Q!SetPos(t, dequeuePos) /\ qpc' = qpc
    BY <1>4 DEF Q!ReadSeqDequeue
  <2>3. sequence[Q!Cell(pos[t])] - (pos[t] + 1) = 0 => sequence[Q!Cell(pos[t])] = pos[t] + 1
    BY <1>n
  <2>4. pos[t] <= dequeuePos
    BY <2>1 DEF QueueInv, SeenOK
  <2>5. Looks(t) /\ \A u \in Q!Users \ {t} : qpc'[u] = qpc[u] /\ pos'[u] = pos[u]
    BY <1>m, <2>1, <2>2, <2>3, <2>4 DEF Looks
  <2> QED
    BY <1>l, <2>1, <2>5
<1>5. CASE Q!CasEnqueue(t)
  <2>1. CASE enqueuePos = pos[t]
    BY <1>t, <1>5, <2>1, CasEnqueueWins
  <2>2. CASE enqueuePos # pos[t]
    <3>1. /\ qpc[t] = "casE" /\ Q!Go(t, "seqE") /\ Q!SetPos(t, enqueuePos)
          /\ UNCHANGED <<Q!queue, log, out>>
      BY <1>5, <2>2 DEF Q!CasEnqueue, Q!queue
    <3>2. Looks(t) /\ \A u \in Q!Users \ {t} : qpc'[u] = qpc[u] /\ pos'[u] = pos[u]
      BY <1>m, <3>1 DEF Looks
    <3> QED
      BY <1>l, <3>1, <3>2
  <2> QED
    BY <2>1, <2>2
<1>6. CASE Q!CasDequeue(t)
  <2>1. CASE dequeuePos = pos[t]
    BY <1>t, <1>6, <2>1, CasDequeueWins
  <2>2. CASE dequeuePos # pos[t]
    <3>1. /\ qpc[t] = "casD" /\ Q!Go(t, "seqD") /\ Q!SetPos(t, dequeuePos)
          /\ UNCHANGED <<Q!queue, log, out>>
      BY <1>6, <2>2 DEF Q!CasDequeue, Q!queue
    <3>2. Looks(t) /\ \A u \in Q!Users \ {t} : qpc'[u] = qpc[u] /\ pos'[u] = pos[u]
      BY <1>m, <3>1 DEF Looks
    <3> QED
      BY <1>l, <3>1, <3>2
  <2> QED
    BY <2>1, <2>2
<1>7. CASE Q!Test(t) \/ Q!Sleep(t) \/ Q!Deadline(t) \/ Q!TestLate(t)
  <2>1. qpc[t] \in {"test", "sleep", "asleep", "late"} /\ UNCHANGED <<Q!queue, log, out>>
    BY <1>7 DEF Q!Test, Q!Sleep, Q!Deadline, Q!TestLate
  <2>2. \/ Q!Go(t, "seqD") /\ Q!SetPos(t, dequeuePos)
        \/ /\ Q!Go(t, "sleep") \/ Q!Go(t, "asleep") \/ Q!Go(t, "late") \/ Q!Go(t, "idle")
           /\ pos' = pos
    BY <1>7 DEF Q!Test, Q!Sleep, Q!Deadline, Q!TestLate
  <2>3. Looks(t) /\ \A u \in Q!Users \ {t} : qpc'[u] = qpc[u] /\ pos'[u] = pos[u]
    BY <1>m, <2>1, <2>2 DEF Looks
  <2> QED
    BY <1>l, <2>1, <2>3
<1>8. CASE Q!Notify(t)
  <2>1. /\ qpc[t] = "notify" /\ UNCHANGED <<Q!queue, log>>
        /\ \A u \in Q!Users \ {t} : pos'[u] = pos[u] /\ out'[u] = out[u]
    BY <1>8, <1>m, <1>t DEF Q!Notify, QueueTypes
  <2>2. CASE \E c \in Consumers : /\ qpc[c] = "asleep"
                                  /\ qpc' = [qpc EXCEPT ![t] = "idle", ![c] = "test"]
    <3>1. PICK c \in Consumers :
            qpc[c] = "asleep" /\ qpc' = [qpc EXCEPT ![t] = "idle", ![c] = "test"]
      BY <2>2
    <3>2. /\ c \in Q!Users /\ c # t /\ qpc'[c] = "test" /\ qpc'[t] = "idle"
          /\ \A u \in Q!Users \ {c, t} : qpc'[u] = qpc[u]
      BY <1>t, <2>1, <3>1 DEF Q!Users, QueueTypes
    <3>3. \A u \in Q!Users : Looks(u)
      BY <2>1, <3>1, <3>2 DEF Looks
    <3> QED
      BY <1>t, <2>1, <3>3, LookKeeps
  <2>3. CASE Q!Go(t, "idle")
    <3>1. Looks(t) /\ \A u \in Q!Users \ {t} : qpc'[u] = qpc[u]
      BY <1>m, <2>1, <2>3 DEF Looks
    <3> QED
      BY <1>l, <2>1, <3>1
  <2> QED
    BY <1>8, <2>2, <2>3 DEF Q!Notify
<1> QED
  BY <1>t, <1>1, <1>2, <1>3, <1>4, <1>5, <1>6, <1>7, <1>8, StoreKeeps, PublishKeeps, TakeKeeps,
     FreeKeeps DEF Q!Step

\* Nobody has called yet, and every cell is free for its first position.
LEMMA QueueInit == Q!Init => QueueInv
<1> SUFFICES ASSUME Q!Init PROVE QueueInv
  OBVIOUS
<1>1. N \in Nat \ {0} /\ Q!Cells = 0..(N - 1)
  BY ChannelAssumption DEF Q!Cells
<1>2. QueueTypes
  <2>1. /\ sequence \in [Q!Cells -> Nat] /\ qpc \in [Q!Users -> Q!PC] /\ pos \in [Q!Users -> Nat]
        /\ DOMAIN qdata = Q!Cells /\ DOMAIN out = Q!Users
    BY <1>1 DEF Q!Init, Q!PC
  <2>2. enqueuePos = 0 /\ dequeuePos = 0 /\ DOMAIN log = 0..(0 - 1)
    BY DEF Q!Init
  <2> QED
    BY <2>1, <2>2 DEF QueueTypes
<1>3. Q!EndsInOrder /\ LiveOK
  BY <1>1 DEF Q!Init, Q!EndsInOrder, LiveOK
<1>4. FreeOK
  <2>1. ASSUME NEW p \in 0..(N - 1) PROVE Q!Cell(p) = p
    <3>1. p \in Nat /\ p < N
      BY <1>1
    <3>2. p % N = p
      BY <1>1, <3>1
    <3> QED
      BY <3>2 DEF Q!Cell
  <2>2. enqueuePos = 0 /\ dequeuePos + N - 1 = N - 1
        /\ \A p \in 0..(N - 1) : sequence[p] = p
    BY <1>1 DEF Q!Init
  <2> QED
    BY <2>1, <2>2 DEF FreeOK
<1>5. StoreOK /\ TakeOK /\ SeenOK
  BY DEF Q!Init, StoreOK, TakeOK, SeenOK
<1> QED
  BY <1>2, <1>3, <1>4, <1>5 DEF QueueInv

LEMMA QueueNext == Roomy /\ QueueInv /\ [Q!Next]_Q!vars => QueueInv'
<1> SUFFICES ASSUME Roomy, QueueInv, [Q!Next]_Q!vars PROVE QueueInv'
  OBVIOUS
<1>1. CASE UNCHANGED Q!vars
  <2>1. QueueTypes' /\ UNCHANGED <<Q!queue, log>> /\ \A u \in Q!Users : Looks(u)
    BY <1>1 DEF Q!vars, Q!queue, QueueInv, QueueTypes, Looks
  <2> QED
    BY <2>1, LookKeeps
<1>2. Producers \subseteq Q!Users /\ Consumers \subseteq Q!Users
  BY DEF Q!Users
<1> QED
  BY <1>1, <1>2, QueueStep DEF Q!Next

\* try_enqueue and try_dequeue, whoever calls them and at whatever point the others are:
\* the element taken from a position is the one pushed for it, and the ends stay in order
\* within the capacity, in a queue of two cells or more.
THEOREM ReaderQueue ==
    ASSUME Roomy
    PROVE  Q!Spec => []QueueTakenIsPushed
<1>1. QueueInv => QueueTakenIsPushed
  <2> SUFFICES ASSUME QueueInv PROVE QueueTakenIsPushed
    OBVIOUS
  <2>1. ASSUME NEW t \in Q!Users, qpc[t] = "take"
        PROVE  pos[t] \in DOMAIN log /\ qdata[Q!Cell(pos[t])] = log[pos[t]]
    <3>1. pos[t] \in 0..(enqueuePos - 1)
      BY <2>1, QueueWon
    <3> QED
      BY <2>1, <3>1 DEF QueueInv, QueueTypes, TakeOK
  <2> QED
    BY <2>1 DEF QueueInv, QueueTakenIsPushed, Q!QueueTakenIsPushed, Q!TakenIsPushed
<1>2. Q!Spec => []QueueInv
  BY QueueInit, QueueNext, PTL DEF Q!Spec
<1> QED
  BY <1>1, <1>2, PTL
-----------------------------------------------------------------------------
(***************************************************************************)
(* The reader-writer lock.  What lc_ says is what the threads do, so a     *)
(* writer that saw no reader is alone.                                     *)
(***************************************************************************)

LockInv == W!TypeOK /\ W!WordIsTrue

\* An instance counts as its module does.
LEMMA OneCount ==
    ASSUME NEW S
    PROVE  W!Cardinality(S) = Cardinality(S)
BY DEF W!Cardinality, Cardinality

\* The threads that read are finitely many: they are threads.
LEMMA ReadersFinite ==
    IsFiniteSet(W!Readers) /\ Cardinality(W!Readers) \in Nat
<1>1. W!Readers \subseteq Lockers
  BY DEF W!Readers
<1>2. IsFiniteSet(W!Readers)
  BY <1>1, ThreadsAssumption, FS_Subset
<1> QED
  BY <1>2, FS_CardinalityType

\* A step that moves no thread into or out of "reading" leaves the set alone.
LEMMA ReadersSame ==
    ASSUME W!TypeOK, NEW t \in Lockers, NEW v \in W!Places,
           lpc' = [lpc EXCEPT ![t] = v], lpc[t] # "reading", v # "reading"
    PROVE  W!Readers' = W!Readers
BY DEF W!TypeOK, W!Readers, W!Places

\* The same, of the thread that begins to read.
LEMMA ReadersGrow ==
    ASSUME W!TypeOK, NEW t \in Lockers,
           lpc' = [lpc EXCEPT ![t] = "reading"], lpc[t] # "reading"
    PROVE  Cardinality(W!Readers') = Cardinality(W!Readers) + 1
<1>1. W!Readers' = W!Readers \cup {t} /\ t \notin W!Readers
  BY DEF W!TypeOK, W!Readers, W!Places
<1> QED
  BY <1>1, ReadersFinite, FS_AddElement

\* And of the thread that ceases to.
LEMMA ReadersShrink ==
    ASSUME W!TypeOK, NEW t \in Lockers, NEW v \in W!Places, v # "reading",
           lpc' = [lpc EXCEPT ![t] = v], lpc[t] = "reading"
    PROVE  Cardinality(W!Readers') = Cardinality(W!Readers) - 1
<1>1. W!Readers' = W!Readers \ {t} /\ t \in W!Readers
  BY DEF W!TypeOK, W!Readers, W!Places
<1> QED
  BY <1>1, ReadersFinite, FS_RemoveElement

\* lc_ counts no reader only when there is none.
LEMMA NoReader ==
    ASSUME W!WordIsTrue, lc.r = 0
    PROVE  W!Readers = {}
BY OneCount, ReadersFinite, FS_EmptySet DEF W!WordIsTrue

\* Nobody has called yet.
LEMMA LockInit == W!Init => LockInv
<1> SUFFICES ASSUME W!Init PROVE LockInv
  OBVIOUS
<1>0. W!Free \in [w : BOOLEAN, r : Nat]
  BY DEF W!Free
<1>1. W!TypeOK
  <2>1. 0 \in 0 .. MaxCalls
    BY ThreadsAssumption
  <2> QED
    BY <1>0, <2>1, "out" \in W!Places DEF W!Init, W!TypeOK, W!Places
<1>2. W!Readers = {}
  BY DEF W!Init, W!Readers
<1>3. Cardinality(W!Readers) = 0
  BY <1>2, FS_EmptySet
<1> QED
  BY OneCount, <1>1, <1>3 DEF LockInv, W!WordIsTrue, W!Init, W!Free

\* A step of one thread keeps the types.
LEMMA LockTypes ==
    ASSUME LockInv, NEW t \in Lockers, W!Enter(t) \/ W!Step(t)
    PROVE  W!TypeOK'
<1> USE DEF LockInv, W!TypeOK, W!Places
<1>1. CASE W!Enter(t)
  BY <1>1, ThreadsAssumption DEF W!Enter
<1>2. CASE W!SharedWaits(t)
  BY <1>2 DEF W!SharedWaits
<1>3. CASE W!SharedCounts(t)
  BY <1>3 DEF W!SharedCounts
<1>4. CASE W!SharedFails(t)
  BY <1>4 DEF W!SharedFails
<1>5. CASE W!UnlockShared(t)
  <2>1. t \in W!Readers
    BY <1>5 DEF W!UnlockShared, W!Readers
  <2>2. lc.r # 0
    BY <2>1, NoReader
  <2> QED
    BY <1>5, <2>2 DEF W!UnlockShared
<1>6. CASE W!ExclusiveOr(t)
  BY <1>6 DEF W!ExclusiveOr
<1>7. CASE W!ReadersGone(t)
  BY <1>7 DEF W!ReadersGone
<1>8. CASE W!EmplaceUnlock(t)
  BY <1>8 DEF W!EmplaceUnlock, W!Free
<1> QED
  BY <1>1, <1>2, <1>3, <1>4, <1>5, <1>6, <1>7, <1>8 DEF W!Step

\* A step of one thread keeps what lc_ says true.
LEMMA LockWord ==
    ASSUME LockInv, NEW t \in Lockers, W!Enter(t) \/ W!Step(t)
    PROVE  W!WordIsTrue'
<1>0. W!TypeOK /\ W!WordIsTrue
  BY DEF LockInv
<1>1. CASE W!Enter(t)
  <2>1. W!Readers' = W!Readers
    BY <1>0, <1>1, ReadersSame DEF W!Enter, W!Places
  <2> QED
    BY <1>0, <1>1, <2>1 DEF W!Enter, W!WordIsTrue, W!TypeOK
<1>2. CASE W!SharedWaits(t) \/ W!SharedFails(t)
  <2>1. W!Readers' = W!Readers
    BY <1>2 DEF W!SharedWaits, W!SharedFails, W!Readers
  <2> QED
    BY <1>0, <1>2, <2>1 DEF W!SharedWaits, W!SharedFails, W!WordIsTrue
<1>3. CASE W!SharedCounts(t)
  <2>1. Cardinality(W!Readers') = Cardinality(W!Readers) + 1
    BY <1>0, <1>3, ReadersGrow DEF W!SharedCounts
  <2>2. ~lc.w /\ lc'.w = lc.w /\ lc'.r = lc.r + 1
    BY <1>0, <1>3 DEF W!SharedCounts, W!CanCount, W!TypeOK
  <2>3. \A u \in Lockers : lpc[u] \notin {"drains", "writing"}
    BY <1>0, <2>2 DEF W!WordIsTrue
  <2>4. \A u \in Lockers : lpc'[u] \notin {"drains", "writing"}
    BY <1>0, <1>3, <2>3 DEF W!SharedCounts, W!TypeOK
  <2> QED
    BY OneCount, <1>0, <2>1, <2>2, <2>4 DEF W!WordIsTrue
<1>4. CASE W!UnlockShared(t)
  <2>1. Cardinality(W!Readers') = Cardinality(W!Readers) - 1
    BY <1>0, <1>4, ReadersShrink DEF W!UnlockShared, W!Places
  <2>2. lc'.w = lc.w /\ lc'.r = lc.r - 1
    BY <1>0, <1>4 DEF W!UnlockShared, W!TypeOK
  <2>3. \A u \in Lockers :
           /\ lpc'[u] \in {"drains", "writing"} <=> lpc[u] \in {"drains", "writing"}
           /\ lpc'[u] = "writing" => lpc[u] = "writing"
    BY <1>0, <1>4 DEF W!UnlockShared, W!TypeOK
  <2>4. \A u \in Lockers : lpc[u] # "writing"
    <3>1. t \in W!Readers
      BY <1>4 DEF W!UnlockShared, W!Readers
    <3> QED
      BY <1>0, <3>1, NoReader DEF W!WordIsTrue
  <2> QED
    BY OneCount, <1>0, <2>1, <2>2, <2>3, <2>4 DEF W!WordIsTrue
<1>5. CASE W!ExclusiveOr(t)
  <2>1. W!Readers' = W!Readers
    <3>1. CASE lc = W!Free
      BY <1>0, <1>5, <3>1, ReadersSame DEF W!ExclusiveOr, W!Places
    <3>2. CASE lc # W!Free /\ ~lc.w
      BY <1>0, <1>5, <3>2, ReadersSame DEF W!ExclusiveOr, W!Places
    <3>3. CASE lc # W!Free /\ lc.w
      BY <1>0, <1>5, <3>3, ReadersSame DEF W!ExclusiveOr, W!Places
    <3> QED
      BY <3>1, <3>2, <3>3
  <2>2. lc'.w /\ lc'.r = lc.r
    BY <1>0, <1>5 DEF W!ExclusiveOr, W!TypeOK
  <2>3. CASE lc.w
    <3>1. lpc' = lpc
      BY <1>0, <1>5, <2>3 DEF W!ExclusiveOr, W!TypeOK, W!Free
    <3> QED
      BY <1>0, <2>1, <2>2, <2>3, <3>1 DEF W!WordIsTrue
  <2>4. CASE ~lc.w
    <3>1. \A u \in Lockers : lpc[u] \notin {"drains", "writing"}
      BY <1>0, <2>4 DEF W!WordIsTrue
    <3>2. lpc'[t] \in {"drains", "writing"} /\ (lpc'[t] = "writing" => lc.r = 0)
      BY <1>0, <1>5, <2>4 DEF W!ExclusiveOr, W!TypeOK, W!Free
    <3>3. \A u \in Lockers : u # t => lpc'[u] = lpc[u]
      BY <1>0, <1>5 DEF W!ExclusiveOr, W!TypeOK
    <3> QED
      BY <1>0, <2>1, <2>2, <3>1, <3>2, <3>3 DEF W!WordIsTrue
  <2> QED
    BY <2>3, <2>4
<1>6. CASE W!ReadersGone(t)
  <2>1. W!Readers' = W!Readers
    BY <1>0, <1>6, ReadersSame DEF W!ReadersGone, W!Places
  <2>2. \A u \in Lockers :
           lpc'[u] \in {"drains", "writing"} <=> lpc[u] \in {"drains", "writing"}
    BY <1>0, <1>6 DEF W!ReadersGone, W!TypeOK
  <2> QED
    BY <1>0, <1>6, <2>1, <2>2 DEF W!ReadersGone, W!WordIsTrue
<1>7. CASE W!EmplaceUnlock(t)
  <2>1. W!Readers' = W!Readers
    BY <1>0, <1>7, ReadersSame DEF W!EmplaceUnlock, W!Places
  <2>2. lc.r = 0 /\ lc'.r = 0 /\ ~lc'.w
    BY <1>0, <1>7 DEF W!EmplaceUnlock, W!WordIsTrue, W!Free
  <2>3. \A u \in Lockers : lpc'[u] \notin {"drains", "writing"}
    BY <1>0, <1>7 DEF W!EmplaceUnlock, W!WordIsTrue, W!TypeOK
  <2> QED
    BY <1>0, <2>1, <2>2, <2>3 DEF W!WordIsTrue
<1> QED
  BY <1>1, <1>2, <1>3, <1>4, <1>5, <1>6, <1>7 DEF W!Step

\* Every step keeps the invariant.
LEMMA LockNext == LockInv /\ [W!Next]_W!vars => LockInv'
<1> SUFFICES ASSUME LockInv, [W!Next]_W!vars PROVE LockInv'
  OBVIOUS
<1>1. CASE UNCHANGED W!vars
  BY <1>1 DEF W!vars, LockInv, W!TypeOK, W!WordIsTrue, W!Readers
<1>2. CASE W!Next
  <2>1. PICK t \in Lockers : W!Enter(t) \/ W!Step(t)
    BY <1>2 DEF W!Next
  <2> QED
    BY <2>1, LockTypes, LockWord DEF LockInv
<1> QED
  BY <1>1, <1>2

\* The invariant excludes.
LEMMA LockExcludes == LockInv => Exclusion
<1> SUFFICES ASSUME LockInv, NEW t \in Lockers, NEW u \in Lockers, lpc[t] = "writing", u # t
             PROVE  lpc[u] \notin {"reading", "writing"}
  BY DEF Exclusion, W!Exclusion
<1>1. lc.r = 0
  BY DEF LockInv, W!WordIsTrue
<1>2. W!Readers = {}
  BY <1>1, NoReader DEF LockInv
<1>3. lpc[u] # "reading"
  BY <1>2 DEF W!Readers
<1>4. lpc[u] # "writing"
  BY DEF LockInv, W!WordIsTrue
<1> QED
  BY <1>3, <1>4

\* lc_ always says what the threads do (rw_lock.h).
THEOREM LockWordIsTrue == W!Spec => []W!WordIsTrue
<1>1. LockInv => W!WordIsTrue
  BY DEF LockInv
<1> QED
  BY <1>1, LockInit, LockNext, PTL DEF W!Spec

\* Nobody reads or changes the map of chunk handles while a thread changes it
\* (rw_lock::lock, lock_shared; ipc.cpp chunk_storage_info), for any threads.
THEOREM LockExclusion == W!Spec => []Exclusion
BY LockInit, LockNext, LockExcludes, PTL DEF W!Spec
=============================================================================
