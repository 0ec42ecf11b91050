----------------------- MODULE BroadcastRingProofs -------------------------
(***************************************************************************)
(* Type correctness of the broadcast ring, and that a receiver less than a *)
(* ring behind is given exactly the message at its cursor, for rings of    *)
(* any length and any number of receivers and messages. Last, that without *)
(* force_push the ring implements ReliableBroadcast, but for its fairness, *)
(* and that the chunks of RouteChunks are neither freed twice, nor handed  *)
(* out while in use, nor leaked.                                           *)
(***************************************************************************)
EXTENDS RouteChunks, FiniteSetTheorems, TLAPS

-----------------------------------------------------------------------------
(***************************************************************************)
(* Arithmetic of slot indices.                                             *)
(***************************************************************************)

\* Quotient and remainder.
LEMMA DivMod ==
  ASSUME NEW N \in Nat \ {0}, NEW a \in Int
  PROVE  /\ a \div N \in Int
         /\ a % N \in 0 .. N - 1
         /\ a = N * (a \div N) + (a % N)
OBVIOUS

\* Factoring the ring length out.
LEMMA MulDistributes ==
  ASSUME NEW N \in Int, NEW k \in Int, NEW m \in Int
  PROVE  N * m - N * k = N * (m - k)
OBVIOUS

\* A non-zero multiple of the ring length is at least the ring length.
LEMMA MulGrows ==
  ASSUME NEW N \in Nat \ {0}, NEW k \in Int
  PROVE  /\ k >= 1 => N * k >= N
         /\ k <= 0 => N * k <= 0
OBVIOUS

\* A position has a slot.
LEMMA IndexType ==
  ASSUME NEW p \in Int
  PROVE  index_of(p) \in Slots
BY RingAssumption, DivMod DEF index_of, Slots

\* Positions less than a ring apart lie in different slots.
LEMMA IndexNeq ==
  ASSUME NEW p \in Int, NEW q \in Int, p < q, q < p + RingSlots
  PROVE  index_of(p) # index_of(q)
<1> DEFINE N == RingSlots
           k == p \div N
           m == q \div N
<1> SUFFICES ASSUME p % N = q % N PROVE FALSE
  BY DEF index_of
<1>1. /\ N \in Nat \ {0}
      /\ k \in Int
      /\ m \in Int
      /\ p % N \in Int
      /\ p = N * k + (p % N)
      /\ q = N * m + (q % N)
  BY RingAssumption, DivMod
<1> HIDE DEF k, m
<1>2. q - p = N * m - N * k
  BY <1>1
<1>3. q - p = N * (m - k)
  BY <1>1, <1>2, MulDistributes
<1>4. CASE m - k >= 1
  BY <1>1, <1>3, <1>4, MulGrows
<1>5. CASE m - k <= 0
  BY <1>1, <1>3, <1>5, MulGrows
<1> QED
  BY <1>1, <1>4, <1>5
-----------------------------------------------------------------------------
(***************************************************************************)
(* Types.                                                                  *)
(***************************************************************************)

\* One element of a function changes to a value of its range.
LEMMA UpdateType ==
  ASSUME NEW S, NEW T, NEW f \in [S -> T], NEW x, NEW v \in T
  PROVE  [f EXCEPT ![x] = v] \in [S -> T]
OBVIOUS

\* The initial ring is type correct.
LEMMA TypeInit == Init => TypeOK
BY RingAssumption
   DEF Init, TypeOK, Rc, WriterPC, ReaderPC, NoMsg, Bits, Slots, Readers

\* Every producer step keeps the types.
LEMMA TypeWriter == TypeOK /\ Writer => TypeOK'
<1> SUFFICES ASSUME TypeOK, Writer PROVE TypeOK'
  OBVIOUS
<1>i. index_of(wt) \in Slots
  BY IndexType DEF TypeOK
<1>r. rc[index_of(wt)] \in Rc
  BY <1>i DEF TypeOK
<1>n. ASSUME NEW b \in SUBSET Bits, NEW e \in Nat
      PROVE  [bits |-> b, ep |-> e] \in Rc
  BY DEF Rc
<1> USE DEF TypeOK, readerVars, WriterPC
<1>1. ASSUME NEW op \in Ops, SendStart(op) PROVE TypeOK'
  BY <1>1 DEF SendStart
<1>b. CASE GenPush \/ PublishLoan \/ DiscardLoan
  BY <1>b DEF GenPush, PublishLoan, DiscardLoan
<1>2. CASE PushLoad
  <2>1. wcc' \subseteq Bits /\ wrc' \in Rc /\ wpc' \in WriterPC
    BY <1>2, <1>r DEF PushLoad
  <2> QED
    BY <1>2, <2>1 DEF PushLoad
<1>c. [rc EXCEPT ![index_of(wt)] = [bits |-> wcc, ep |-> epoch]]
         \in [Slots -> Rc]
  BY <1>n, UpdateType
<1>3. CASE PushCas
  BY <1>3, <1>c DEF PushCas, ClaimSlot
<1>4. CASE WaitRetry
  BY <1>4 DEF WaitRetry
<1>5. CASE WaitTimeout
  <2>1. epoch' \in Nat /\ wpc' \in WriterPC
    BY <1>5 DEF WaitTimeout
  <2> QED
    BY <1>5, <2>1 DEF WaitTimeout
<1>6. CASE ForceLoad
  <2>1. wcc' \subseteq Bits /\ wrc' \in Rc /\ wpc' \in WriterPC
    BY <1>6, <1>r DEF ForceLoad
  <2> QED
    BY <1>6, <2>1 DEF ForceLoad
<1>7. CASE ForceCas
  BY <1>7, <1>c DEF ForceCas, ClaimSlot
<1>8. CASE PushSniffer
  <2>1. /\ [bits |-> {}, ep |-> epoch] \in Rc
        /\ [bits |-> {}, ep |-> epoch + 1] \in Rc
        /\ epoch + 1 \in Nat
    BY DEF Rc
  <2>2. wrc' \in Rc /\ rc' \in [Slots -> Rc] /\ epoch' \in Nat
    BY <1>8, <2>1 DEF PushSniffer
  <2> QED
    BY <1>8, <2>2 DEF PushSniffer
<1>9. CASE WriteBegin
  <2>1. data' \in [Slots -> Int]
    BY <1>9, Torn \in Int, UpdateType DEF WriteBegin, Torn
  <2> QED
    BY <1>9, <2>1 DEF WriteBegin
<1>10. CASE WriteEnd
  <2>1. data' \in [Slots -> Int]
    BY <1>10, wt \in Int, UpdateType DEF WriteEnd
  <2> QED
    BY <1>10, <2>1 DEF WriteEnd
<1>11. CASE Advance
  BY <1>11 DEF Advance
<1> QED
  BY <1>1, <1>b, <1>2, <1>3, <1>4, <1>5, <1>6, <1>7, <1>8, <1>9, <1>10, <1>11
     DEF Writer

\* Every step of a receiver keeps the types.
LEMMA TypeReader ==
  ASSUME TypeOK, NEW r \in Readers, Pop(r) \/ Membership(r)
  PROVE  TypeOK'
<1> USE RingAssumption DEF TypeOK, writerVars, ReaderPC
<1>i. index_of(cursor[r]) \in Slots /\ PopSlot(r) \in Slots
  BY IndexType DEF PopSlot
<1>1. CASE ConnectReceiver(r)
  BY <1>1 DEF ConnectReceiver
<1>2. CASE ConnectCursor(r)
  BY <1>2 DEF ConnectCursor
<1>3. CASE Disconnect(r)
  BY <1>3 DEF Disconnect
<1>4. CASE PopEnter(r)
  BY <1>4 DEF PopEnter
<1>5. CASE PopEmpty(r)
  BY <1>5 DEF PopEmpty
<1>6. CASE PopLoad(r)
  <2>1. cursor' \in [Readers -> Nat] /\ \A s \in Readers : cursor'[s] <= wt
    BY <1>6 DEF PopLoad
  <2>2. rpc' \in [Readers -> ReaderPC] /\ lag' \in [Readers -> Int]
    <3>1. \/ UNCHANGED <<rpc, lag>>
          \/ /\ rpc' = [rpc EXCEPT ![r] = "copy"]
             /\ lag' = [lag EXCEPT ![r] = wt - cursor[r]]
      BY <1>6 DEF PopLoad
    <3>2. /\ [rpc EXCEPT ![r] = "copy"] \in [Readers -> ReaderPC]
          /\ [lag EXCEPT ![r] = wt - cursor[r]] \in [Readers -> Int]
      BY UpdateType, wt - cursor[r] \in Int, "copy" \in ReaderPC
    <3> QED
      BY <3>1, <3>2
  <2>3. rc[index_of(cursor[r])].ep \in Nat
    BY <1>i DEF Rc
  <2>4. \/ ep0' = ep0
        \/ ep0' = [ep0 EXCEPT ![r] = rc[index_of(cursor[r])].ep]
    BY <1>6 DEF PopLoad
  <2>5. ep0' \in [Readers -> Nat]
    BY <2>3, <2>4
  <2> QED
    BY <1>6, <2>1, <2>2, <2>5 DEF PopLoad
<1>7. CASE PopCopy(r)
  BY <1>7, <1>i DEF PopCopy
<1>8. CASE PopDeliver(r)
  <2>1. rc' \in [Slots -> Rc]
    BY <1>8, <1>i DEF PopDeliver, Rc
  <2>2. log' \in [Readers -> Seq(Int)]
    BY <1>8 DEF PopDeliver
  <2> QED
    BY <1>8, <2>1, <2>2 DEF PopDeliver
<1>9. CASE PopDiscard(r)
  BY <1>9 DEF PopDiscard
<1> QED
  BY <1>1, <1>2, <1>3, <1>4, <1>5, <1>6, <1>7, <1>8, <1>9
     DEF Pop, Membership

\* Every step keeps the types.
LEMMA TypeNext == TypeOK /\ [Next]_vars => TypeOK'
<1> SUFFICES ASSUME TypeOK, [Next]_vars PROVE TypeOK'
  OBVIOUS
<1>1. CASE Writer
  BY <1>1, TypeWriter
<1>2. ASSUME NEW r \in Readers, Pop(r) \/ Membership(r) PROVE TypeOK'
  BY <1>2, TypeReader
<1>3. CASE UNCHANGED vars
  BY <1>3 DEF TypeOK, vars, writerVars, readerVars
<1> QED
  BY <1>1, <1>2, <1>3 DEF Next, Readers

\* The ring is type correct, and pop() never moves a cursor past wt_.
THEOREM TypeCorrect == Spec => []TypeOK
BY TypeInit, TypeNext, PTL DEF Spec
-----------------------------------------------------------------------------
(***************************************************************************)
(* The inductive invariant.                                                *)
(***************************************************************************)

\* The receiver is inside pop(), past the load of rc0.
Reading(r) == rpc[r] \in {"copy", "clear"}

\* While the producer holds a snapshot of cc_, a receiver missing from it has
\* joined since and cannot have found anything to read.
SnapshotOK ==
  wpc \in {"cas", "fcas"} =>
    \A r \in Readers :
      rpc[r] # "off" => \/ conn[r] \in wcc
                        \/ rpc[r] = "joining"
                        \/ rpc[r] \in {"idle", "loop"} /\ cursor[r] = wt

\* push() goes on only if nobody in the snapshot holds the slot, or the
\* slot is of an older epoch.
CasOK == wpc = "cas" => wcc \cap wrc.bits = {} \/ wrc.ep # epoch

\* Slots are never ahead of epoch_, and behind it once force_push() began.
EpochOK ==
  \A i \in Slots :
    /\ rc[i].ep <= epoch
    /\ wpc \in {"fload", "fcas"} => rc[i].ep < epoch

\* The last RingSlots - 1 messages are complete in their slots.
DataOK ==
  /\ \A p \in Nat : wt - RingSlots < p /\ p < wt => data[index_of(p)] = p
  /\ wpc = "advance" => data[index_of(wt)] = wt

\* A receiver inside pop() whose slot has kept its epoch has also kept its
\* bit and the message it came for.
ReadOKBy(r) ==
  Reading(r) =>
    /\ cursor[r] >= 1
    /\ ep0[r] <= rc[PopSlot(r)].ep
    /\ rc[PopSlot(r)].ep = ep0[r] /\ lag[r] < RingSlots =>
         /\ conn[r] \in rc[PopSlot(r)].bits
         /\ data[PopSlot(r)] = cursor[r] - 1
         /\ rpc[r] = "clear" => got[r] = cursor[r] - 1
         /\ wpc \in {"prep", "write", "advance"} => index_of(wt) # PopSlot(r)

ReadOK == \A r \in Readers : ReadOKBy(r)

IInv == TypeOK /\ ConnectedStay /\ SnapshotOK /\ CasOK /\ EpochOK /\ DataOK
          /\ ReadOK
-----------------------------------------------------------------------------
\* The inductive invariant holds initially: nobody is inside pop() or push().
LEMMA InvInit == Init => IInv
<1> SUFFICES ASSUME Init PROVE IInv
  OBVIOUS
<1>1. TypeOK
  BY TypeInit
<1>2. ConnectedStay
  BY DEF Init, ConnectedStay, Readers
<1>3. SnapshotOK /\ CasOK /\ EpochOK /\ DataOK
  BY RingAssumption DEF Init, SnapshotOK, CasOK, EpochOK, DataOK
<1>4. ReadOK
  BY DEF Init, ReadOK, ReadOKBy, Reading
<1> QED
  BY <1>1, <1>2, <1>3, <1>4 DEF IInv

\* Producer steps that touch neither the slots nor wt_.
LEMMA InvWriterLocal ==
  ASSUME IInv, TypeOK',
         \/ \E op \in Ops : SendStart(op)
         \/ GenPush \/ PublishLoan \/ DiscardLoan
         \/ PushLoad \/ WaitRetry \/ WaitTimeout \/ ForceLoad
  PROVE  IInv'
<1> USE DEF IInv, readerVars
<1>1. UNCHANGED <<cc, wt, rc, data, readerVars>>
  BY DEF SendStart, GenPush, PublishLoan, DiscardLoan,
                    PushLoad, WaitRetry, WaitTimeout, ForceLoad
<1>2. ConnectedStay'
  BY <1>1 DEF ConnectedStay
<1>3. SnapshotOK'
  BY <1>1, <1>2 DEF SnapshotOK, ConnectedStay, SendStart, GenPush, PublishLoan, DiscardLoan,
                    PushLoad, WaitRetry,
                    WaitTimeout, ForceLoad
<1>4. CasOK'
  BY DEF CasOK, Full, SendStart, GenPush, PublishLoan, DiscardLoan,
                    PushLoad, WaitRetry, WaitTimeout, ForceLoad
<1>5. EpochOK'
  <2> SUFFICES ASSUME NEW i \in Slots
               PROVE  /\ rc[i].ep <= epoch'
                      /\ wpc' \in {"fload", "fcas"} => rc[i].ep < epoch'
    BY <1>1 DEF EpochOK
  <2>1. rc[i].ep \in Nat /\ epoch \in Nat
    BY DEF TypeOK, Rc
  <2> QED
    BY <2>1 DEF EpochOK, SendStart, GenPush, PublishLoan, DiscardLoan,
                    PushLoad, WaitRetry, WaitTimeout, ForceLoad
<1>6. wpc' \notin {"prep", "write", "advance"}
  BY DEF SendStart, GenPush, PublishLoan, DiscardLoan,
                    PushLoad, WaitRetry, WaitTimeout, ForceLoad
<1>7. DataOK'
  BY <1>1, <1>6 DEF DataOK
<1>8. ReadOK'
  BY <1>1, <1>6 DEF ReadOK, ReadOKBy, Reading, PopSlot
<1> QED
  BY <1>2, <1>3, <1>4, <1>5, <1>7, <1>8

\* A slot taken by the producer gets a newer epoch than any receiver in the
\* middle of reading it has seen.
LEMMA InvClaim ==
  ASSUME IInv, TypeOK', PushCas \/ ForceCas
  PROVE  IInv'
<1> USE DEF IInv, readerVars
<1> DEFINE i == index_of(wt)
<1>0. i \in Slots
  BY IndexType DEF TypeOK
<1>1. UNCHANGED <<cc, wt, epoch, data, readerVars, wcc, wrc>>
  BY DEF PushCas, ForceCas, ClaimSlot
<1>2. ConnectedStay'
  BY <1>1 DEF ConnectedStay
<1>3. CASE rc[i] # wrc
  <2>1. UNCHANGED rc /\ wpc' = IF wpc = "cas" THEN "load" ELSE "fload"
    BY <1>3 DEF PushCas, ForceCas, ClaimSlot
  <2>2. SnapshotOK' /\ CasOK'
    BY <2>1 DEF SnapshotOK, CasOK
  <2>3. EpochOK'
    BY <1>1, <2>1 DEF EpochOK, PushCas, ForceCas
  <2>4. DataOK' /\ ReadOK'
    BY <1>1, <2>1 DEF DataOK, ReadOK, ReadOKBy, Reading,
                       PopSlot
  <2> QED
    BY <1>2, <2>2, <2>3, <2>4
<1>4. CASE rc[i] = wrc
  <2>1. /\ rc' = [rc EXCEPT ![i] = [bits |-> wcc, ep |-> epoch]]
        /\ wpc' = "prep"
    BY <1>4 DEF PushCas, ForceCas, ClaimSlot
  <2>2. SnapshotOK' /\ CasOK'
    BY <2>1 DEF SnapshotOK, CasOK
  <2>3. EpochOK'
    <3> SUFFICES ASSUME NEW j \in Slots PROVE rc'[j].ep <= epoch
      BY <1>1, <2>1 DEF EpochOK
    <3>1. epoch \in Nat
      BY DEF TypeOK
    <3>2. CASE j = i
      BY <2>1, <3>1, <3>2, <1>0 DEF TypeOK
    <3>3. CASE j # i
      BY <2>1, <3>3 DEF TypeOK, EpochOK
    <3> QED
      BY <3>2, <3>3
  <2>4. DataOK'
    BY <1>1, <2>1 DEF DataOK
  <2>5. ReadOK'
    <3> SUFFICES ASSUME NEW r \in Readers, Reading(r)
                 PROVE  ReadOKBy(r)'
      BY <1>1 DEF ReadOK, ReadOKBy, Reading
    <3> DEFINE j == PopSlot(r)
    <3>1. PopSlot(r)' = j /\ j \in Slots /\ Reading(r)'
      BY <1>1, IndexType DEF PopSlot, Reading, TypeOK
    <3>2. /\ cursor[r] >= 1
          /\ ep0[r] <= rc[j].ep
          /\ ep0[r] \in Nat /\ epoch \in Nat /\ rc[j] \in Rc
      BY <3>1 DEF ReadOK, ReadOKBy, TypeOK
    <3>3. CASE j # i
      <4>1. rc'[j] = rc[j]
        BY <2>1, <3>1, <3>3 DEF TypeOK
      <4> QED
        BY <1>1, <2>1, <3>1, <3>3, <4>1 DEF ReadOK, ReadOKBy, Reading
    <3>4. CASE j = i
      <4>1. rc'[j].ep = epoch
        BY <2>1, <3>1, <3>4 DEF TypeOK
      <4>2. rc[j].ep <= epoch
        BY <3>1 DEF EpochOK
      <4>3. CASE ep0[r] # epoch
        <5>1. ep0[r] <= rc'[j].ep /\ rc'[j].ep # ep0[r]
          BY <3>2, <4>1, <4>2, <4>3 DEF Rc
        <5> QED
          BY <1>1, <3>1, <3>2, <5>1 DEF ReadOKBy
      <4>4. CASE ep0[r] = epoch
        <5>1. rc[j].ep = epoch
          BY <3>2, <4>2, <4>4 DEF Rc
        <5>2. wpc = "cas"
          BY <3>1, <5>1, <3>2 DEF PushCas, ForceCas, EpochOK
        <5>3. conn[r] \in wcc
          BY <5>2 DEF SnapshotOK, Reading
        <5>4. conn[r] \notin wrc.bits
          BY <1>4, <3>4, <5>1, <5>2, <5>3 DEF CasOK
        <5>5. lag[r] >= RingSlots
          <6>1. lag[r] \in Int /\ RingSlots \in Int
            BY RingAssumption DEF TypeOK
          <6>2. ~(lag[r] < RingSlots)
            BY <1>4, <3>4, <4>4, <5>1, <5>4 DEF ReadOK, ReadOKBy
          <6> QED
            BY <6>1, <6>2
        <5>6. ~(lag'[r] < RingSlots) /\ ep0'[r] <= rc'[j].ep
          BY <1>1, <4>1, <4>4, <5>5, <3>2, RingAssumption DEF TypeOK
        <5> QED
          BY <1>1, <3>1, <3>2, <5>6 DEF ReadOKBy
      <4> QED
        BY <4>3, <4>4
    <3> QED
      BY <3>3, <3>4
  <2> QED
    BY <1>2, <2>2, <2>3, <2>4, <2>5
<1> QED
  BY <1>3, <1>4

\* push_sniffer() also moves its slot to a newer epoch.
LEMMA InvSniffer ==
  ASSUME IInv, TypeOK', PushSniffer
  PROVE  IInv'
<1> USE DEF IInv, readerVars
<1> DEFINE i == index_of(wt)
<1>0. i \in Slots /\ epoch \in Nat
  BY IndexType DEF TypeOK
<1>1. /\ UNCHANGED <<cc, wt, data, readerVars>>
      /\ epoch' = epoch + 1
      /\ rc' = [rc EXCEPT ![i] = [bits |-> {}, ep |-> epoch + 1]]
      /\ wpc' = "prep"
  BY DEF PushSniffer
<1>2. ConnectedStay'
  BY <1>1 DEF ConnectedStay
<1>3. SnapshotOK' /\ CasOK' /\ DataOK'
  BY <1>1 DEF SnapshotOK, CasOK, DataOK
<1>4. \A j \in Slots : /\ rc[j].ep \in Nat /\ rc[j].ep <= epoch
                       /\ j = i => rc'[j].ep = epoch + 1
                       /\ j # i => rc'[j] = rc[j]
  BY <1>1 DEF TypeOK, Rc, EpochOK
<1>5. EpochOK'
  BY <1>0, <1>1, <1>4 DEF EpochOK
<1>6. ReadOK'
  <2> SUFFICES ASSUME NEW r \in Readers, Reading(r)
               PROVE  ReadOKBy(r)'
    BY <1>1 DEF ReadOK, ReadOKBy, Reading
  <2> DEFINE j == PopSlot(r)
  <2>1. PopSlot(r)' = j /\ j \in Slots /\ Reading(r)'
    BY <1>1, IndexType DEF PopSlot, Reading, TypeOK
  <2>2. cursor[r] >= 1 /\ ep0[r] <= rc[j].ep /\ ep0[r] \in Nat
    BY DEF ReadOK, ReadOKBy, TypeOK
  <2>3. CASE j # i
    BY <1>1, <1>4, <2>1, <2>3 DEF ReadOK, ReadOKBy, Reading
  <2>4. CASE j = i
    <3>1. ep0[r] <= rc'[j].ep /\ rc'[j].ep # ep0[r]
      BY <1>0, <1>4, <2>1, <2>2, <2>4
    <3> QED
      BY <1>1, <2>1, <2>2, <3>1 DEF ReadOKBy
  <2> QED
    BY <2>3, <2>4
<1> QED
  BY <1>2, <1>3, <1>5, <1>6

\* The data of a slot is written only by the producer, and only in the slot
\* of position wt, which none of the last RingSlots - 1 messages occupies.
LEMMA InvWrite ==
  ASSUME IInv, TypeOK', WriteBegin \/ WriteEnd
  PROVE  IInv'
<1> USE DEF IInv, readerVars
<1> DEFINE i == index_of(wt)
<1>0. i \in Slots
  BY IndexType DEF TypeOK
<1>1. /\ UNCHANGED <<cc, wt, epoch, rc, readerVars>>
      /\ wpc \in {"prep", "write"}
      /\ wpc' \in {"write", "advance"}
      /\ \A j \in Slots : j # i => data'[j] = data[j]
      /\ wpc' = "advance" => data'[i] = wt
  BY <1>0 DEF WriteBegin, WriteEnd, TypeOK
<1>2. ConnectedStay'
  BY <1>1 DEF ConnectedStay
<1>3. SnapshotOK' /\ CasOK' /\ EpochOK'
  BY <1>1 DEF SnapshotOK, CasOK, EpochOK
<1>4. DataOK'
  <2>1. ASSUME NEW p \in Nat, wt - RingSlots < p, p < wt
        PROVE  index_of(p) \in Slots /\ index_of(p) # i
    <3>1. wt \in Int /\ p \in Int /\ wt < p + RingSlots
      BY <2>1, RingAssumption DEF TypeOK
    <3> QED
      BY <2>1, <3>1, IndexType, IndexNeq
  <2> QED
    BY <1>1, <2>1 DEF DataOK
<1>5. ReadOK'
  <2> SUFFICES ASSUME NEW r \in Readers, Reading(r)
               PROVE  ReadOKBy(r)'
    BY <1>1 DEF ReadOK, ReadOKBy, Reading
  <2>1. PopSlot(r)' = PopSlot(r) /\ PopSlot(r) \in Slots
    BY <1>1, IndexType DEF PopSlot, TypeOK
  <2> QED
    BY <1>1, <2>1 DEF ReadOK, ReadOKBy, Reading
<1> QED
  BY <1>2, <1>3, <1>4, <1>5

\* wt_ moves past the message just written, which is complete.
LEMMA InvAdvance ==
  ASSUME IInv, TypeOK', Advance
  PROVE  IInv'
<1> USE DEF IInv, readerVars
<1>1. /\ UNCHANGED <<cc, epoch, rc, data, readerVars>>
      /\ wpc = "advance" /\ wpc' = "idle" /\ wt' = wt + 1
  BY DEF Advance
<1>2. ConnectedStay' /\ SnapshotOK' /\ CasOK' /\ EpochOK'
  BY <1>1 DEF ConnectedStay, SnapshotOK, CasOK, EpochOK
<1>3. DataOK'
  <2>1. ASSUME NEW p \in Nat, wt + 1 - RingSlots < p, p < wt + 1
        PROVE  \/ p = wt
               \/ wt - RingSlots < p /\ p < wt
    BY <2>1, RingAssumption DEF TypeOK
  <2>2. ASSUME NEW p \in Nat, wt' - RingSlots < p, p < wt'
        PROVE  data'[index_of(p)] = p
    <3>1. wt' = wt + 1 /\ wt \in Nat /\ RingSlots \in Nat
      BY <1>1, RingAssumption DEF TypeOK
    <3>2. p = wt \/ (wt - RingSlots < p /\ p < wt)
      BY <2>1, <2>2, <3>1
    <3> QED
      BY <1>1, <3>2 DEF DataOK
  <2>3. \A p \in Nat : wt' - RingSlots < p /\ p < wt' => data'[index_of(p)] = p
    BY <2>2
  <2>4. wpc' # "advance"
    BY <1>1
  <2> QED
    BY <2>3, <2>4 DEF DataOK
<1>4. ReadOK'
  BY <1>1 DEF ReadOK, ReadOKBy, Reading, PopSlot
<1> QED
  BY <1>2, <1>3, <1>4

\* A receiver that joins holds no slot yet; one that leaves is outside pop().
LEMMA InvMembership ==
  ASSUME IInv, TypeOK', NEW r \in Readers, Membership(r)
  PROVE  IInv'
<1> USE DEF IInv, writerVars
<1>1. UNCHANGED <<wt, epoch, rc, data, writerVars, ep0, got, lag>>
  BY DEF Membership, ConnectReceiver, ConnectCursor, Disconnect
<1>2. \A s \in Readers \ {r} :
        rpc'[s] = rpc[s] /\ conn'[s] = conn[s] /\ cursor'[s] = cursor[s]
  BY DEF Membership, ConnectReceiver, ConnectCursor, Disconnect, TypeOK
<1>3. CasOK' /\ EpochOK' /\ DataOK'
  BY <1>1 DEF CasOK, EpochOK, DataOK
<1>4. rpc'[r] \in {"joining", "idle", "off"}
  BY DEF Membership, ConnectReceiver, ConnectCursor, Disconnect, TypeOK
<1>5. ReadOK'
  <2> SUFFICES ASSUME NEW s \in Readers, Reading(s)'
               PROVE  ReadOKBy(s)'
    BY DEF ReadOK, ReadOKBy
  <2>1. s # r
    BY <1>4 DEF Reading
  <2>2. Reading(s) /\ PopSlot(s)' = PopSlot(s)
    BY <1>2, <2>1 DEF Reading, PopSlot
  <2> QED
    BY <1>1, <1>2, <2>1, <2>2 DEF ReadOK, ReadOKBy
<1>6. SnapshotOK'
  BY <1>1, <1>2, wpc' = wpc, wcc' = wcc
     DEF SnapshotOK, Membership, ConnectReceiver, ConnectCursor, Disconnect,
         TypeOK
<1>7. ConnectedStay'
  <2>1. CASE ConnectReceiver(r)
    BY <2>1 DEF ConnectReceiver, ConnectedStay, TypeOK
  <2>2. CASE ConnectCursor(r)
    BY <2>2 DEF ConnectCursor, ConnectedStay, TypeOK
  <2>3. CASE Disconnect(r)
    BY <2>3 DEF Disconnect, ConnectedStay, TypeOK
  <2> QED
    BY <2>1, <2>2, <2>3 DEF Membership
<1> QED
  BY <1>3, <1>5, <1>6, <1>7

\* The steps of pop() disturb only the receiver's own state and its own bit.
LEMMA InvPop ==
  ASSUME IInv, TypeOK', NEW r \in Readers, Pop(r)
  PROVE  IInv'
<1> USE DEF IInv, writerVars
<1>1. UNCHANGED <<cc, wt, epoch, data, writerVars, conn>>
  BY DEF Pop, PopEnter, PopEmpty, PopLoad, PopCopy, PopDeliver, PopDiscard
<1>2. \A s \in Readers \ {r} :
        /\ rpc'[s] = rpc[s] /\ cursor'[s] = cursor[s] /\ ep0'[s] = ep0[s]
        /\ got'[s] = got[s] /\ lag'[s] = lag[s]
  BY DEF Pop, PopEnter, PopEmpty, PopLoad, PopCopy, PopDeliver, PopDiscard,
         TypeOK
<1>3. rpc[r] \notin {"off", "joining"} /\ rpc'[r] \notin {"off", "joining"}
  BY DEF Pop, PopEnter, PopEmpty, PopLoad, PopCopy, PopDeliver, PopDiscard,
         Delivers, TypeOK
<1>4. ConnectedStay'
  BY <1>1, <1>2, <1>3 DEF ConnectedStay
<1>5. CasOK' /\ DataOK'
  BY <1>1 DEF CasOK, DataOK
<1>c. \/ UNCHANGED rc
      \/ rc' = [rc EXCEPT ![PopSlot(r)] =
                  [bits |-> rc[PopSlot(r)].bits \ {conn[r]},
                   ep |-> rc[PopSlot(r)].ep]]
  BY DEF Pop, PopEnter, PopEmpty, PopLoad, PopCopy, PopDeliver, PopDiscard
<1>6. \A i \in Slots : rc'[i].ep = rc[i].ep
  <2>1. rc \in [Slots -> Rc]
    BY DEF TypeOK
  <2> QED
    BY <1>c, <2>1
<1>7. EpochOK'
  BY <1>1, <1>6 DEF EpochOK
<1>8. SnapshotOK'
  <2>1. ASSUME rpc[r] \in {"idle", "loop"}, cursor[r] = wt
        PROVE  rpc'[r] \in {"idle", "loop"} /\ cursor'[r] = wt
    BY <2>1, RingAssumption
       DEF Pop, PopEnter, PopEmpty, PopLoad, PopCopy, PopDeliver, PopDiscard,
           Delivers, TypeOK
  <2> QED
    BY <1>1, <1>2, <1>3, <2>1 DEF SnapshotOK
<1>9. ASSUME NEW s \in Readers, s # r PROVE ReadOKBy(s)'
  <2> SUFFICES ASSUME Reading(s)' PROVE ReadOKBy(s)'
    BY DEF ReadOKBy
  <2>1. Reading(s) /\ PopSlot(s)' = PopSlot(s) /\ PopSlot(s) \in Slots
    <3>1. rpc'[s] = rpc[s] /\ cursor'[s] = cursor[s]
      BY <1>2, <1>9
    <3>2. cursor[s] \in Nat
      BY DEF TypeOK
    <3>3. cursor[s] - 1 \in Int
      BY <3>2
    <3> QED
      BY <3>1, <3>3, IndexType DEF Reading, PopSlot
  <2>2. conn[s] # conn[r]
    BY <1>3, <1>9, <2>1 DEF ConnectedStay, Reading
  <2>3. conn[s] \in rc[PopSlot(s)].bits => conn[s] \in rc'[PopSlot(s)].bits
    <3>1. rc \in [Slots -> Rc]
      BY DEF TypeOK
    <3> QED
      BY <1>c, <2>1, <2>2, <3>1
  <2> QED
    BY <1>1, <1>2, <1>6, <1>9, <2>1, <2>3 DEF ReadOK, ReadOKBy
<1>10. ReadOKBy(r)'
  <2>1. CASE PopLoad(r)
    <3> SUFFICES ASSUME Reading(r)' PROVE ReadOKBy(r)'
      BY DEF ReadOKBy
    <3> DEFINE i == index_of(cursor[r])
    <3>1. /\ i \in Slots /\ cursor[r] \in Nat /\ wt \in Nat
          /\ cursor[r] < wt
      BY <2>1, IndexType DEF PopLoad, TypeOK
    <3>2. /\ cursor'[r] = cursor[r] + 1
          /\ conn[r] \in rc[i].bits
          /\ rpc'[r] = "copy"
          /\ ep0'[r] = rc[i].ep
          /\ lag'[r] = wt - cursor[r]
          /\ UNCHANGED rc
      BY <2>1 DEF PopLoad, TypeOK, Reading
    <3>3. PopSlot(r)' = i
      BY <3>1, <3>2 DEF PopSlot
    <3>4. ASSUME lag'[r] < RingSlots
          PROVE  data[i] = cursor[r] /\ index_of(wt) # i
      <4>1. wt < cursor[r] + RingSlots /\ wt - RingSlots < cursor[r]
        BY <3>1, <3>2, <3>4, RingAssumption
      <4> QED
        BY <3>1, <4>1, IndexNeq DEF DataOK
    <3>5. rc[i].ep \in Nat
      BY <3>1 DEF TypeOK, Rc
    <3> QED
      BY <1>1, <3>1, <3>2, <3>3, <3>4, <3>5 DEF ReadOKBy
  <2>2. CASE PopCopy(r)
    <3>1. /\ rpc[r] = "copy" /\ rpc'[r] = "clear"
          /\ got'[r] = data[PopSlot(r)]
          /\ UNCHANGED <<rc, cursor, ep0, lag>>
      BY <2>2 DEF PopCopy, TypeOK
    <3>2. PopSlot(r)' = PopSlot(r)
      BY <3>1 DEF PopSlot
    <3> QED
      BY <1>1, <3>1, <3>2 DEF ReadOK, ReadOKBy, Reading
  <2>3. CASE PopEnter(r) \/ PopEmpty(r) \/ PopDeliver(r) \/ PopDiscard(r)
    BY <2>3 DEF ReadOKBy, Reading, PopEnter, PopEmpty, PopDeliver, PopDiscard,
                TypeOK
  <2> QED
    BY <2>1, <2>2, <2>3 DEF Pop
<1>11. ReadOK'
  BY <1>9, <1>10 DEF ReadOK
<1> QED
  BY <1>4, <1>5, <1>7, <1>8, <1>11

\* Every step preserves the inductive invariant.
LEMMA InvNext == IInv /\ [Next]_vars => IInv'
<1> SUFFICES ASSUME IInv, [Next]_vars PROVE IInv'
  OBVIOUS
<1>0. TypeOK'
  BY TypeNext DEF IInv
<1>1. CASE Writer
  BY <1>0, <1>1, InvWriterLocal, InvClaim, InvSniffer, InvWrite, InvAdvance
     DEF Writer
<1>2. ASSUME NEW r \in Readers, Pop(r) PROVE IInv'
  BY <1>0, <1>2, InvPop
<1>3. ASSUME NEW r \in Readers, Membership(r) PROVE IInv'
  BY <1>0, <1>3, InvMembership
<1>4. CASE UNCHANGED vars
  BY <1>0, <1>4
     DEF IInv, vars, writerVars, readerVars, ConnectedStay, SnapshotOK, CasOK,
         EpochOK, DataOK, ReadOK, ReadOKBy, Reading, PopSlot
<1> QED
  BY <1>1, <1>2, <1>3, <1>4 DEF Next, Readers

\* The strengthening under which the two theorems below are inductive: what a
\* producer between two accesses and a receiver inside pop() can rely on.
THEOREM Invariance == Spec => []IInv
BY InvInit, InvNext, PTL DEF Spec

\* pop() hands out exactly the message at its cursor, for every receiver that
\* was less than a ring behind at the load of rc0: whatever push, force_push
\* and push_sniffer overwrite and whoever connects or disconnects meanwhile.
THEOREM WithinLapIntact == Spec => []IntactWithinLap
<1>1. IInv => IntactWithinLap
  BY DEF IInv, ReadOK, ReadOKBy, Reading, Delivers, IntactWithinLap
<1> QED
  BY <1>1, Invariance, PTL

\* Connected receivers own distinct bits of cc_ until they disconnect.
THEOREM ReceiversStayConnected == Spec => []ConnectedStay
<1>1. IInv => ConnectedStay
  BY DEF IInv
<1> QED
  BY <1>1, Invariance, PTL
-----------------------------------------------------------------------------
(***************************************************************************)
(* With try_send() alone and receivers that stay, the ring is a bounded    *)
(* broadcast buffer.                                                       *)
(***************************************************************************)

\* The buffer whose contents are what was published and what was handed out.
Reliable == INSTANCE ReliableBroadcast
              WITH Receivers <- Static, Capacity <- RingSlots,
                   MaxPub <- MaxWt, pub <- wt, recd <- log

\* The slot of the next message is taken for it.
Claimed == wpc \in {"prep", "write", "advance"}

\* The position p still lies in the ring.
InRing(p) == p < wt /\ wt - RingSlots <= p /\ (p = wt - RingSlots => ~Claimed)

\* How many messages a receiver was given.
Given(r) == Len(log[r])

\* Nothing is overwritten: no epoch begins.
TryOK ==
  /\ epoch = 0 /\ wop = "try_send"
  /\ \A i \in Slots : rc[i].ep = 0
  /\ wpc \notin {"begun", "fload", "fcas", "sniff"}
  /\ wpc = "cas" => wcc = cc
  /\ wpc # "idle" => wt < MaxWt

\* A receiver is at most a ring behind, stands at the first message it was not given,
\* and its bit is in the slots of those it was not given, and of no others.
TurnOK(r) ==
  /\ rpc[r] \notin {"off", "joining"}
  /\ cursor[r] = Given(r) + IF Reading(r) THEN 1 ELSE 0
  /\ Reading(r) => ep0[r] = 0
  /\ rpc[r] = "clear" => got[r] = Given(r)
  /\ wt - Given(r) <= RingSlots
  /\ Claimed => wt - Given(r) < RingSlots /\ conn[r] \in rc[index_of(wt)].bits
  /\ \A p \in Nat : InRing(p) => (conn[r] \in rc[index_of(p)].bits <=> Given(r) <= p)

\* What lies in the ring lies there whole, the oldest message included.
OldestOK == \A p \in Nat : InRing(p) => data[index_of(p)] = p

RInv == IInv /\ TryOK /\ (\A r \in Readers : TurnOK(r)) /\ OldestOK

TryOnly == Ops = {"try_send"} /\ Dynamic = {}

\* Positions a ring apart lie in one slot.
LEMMA IndexShift ==
  ASSUME NEW p \in Int
  PROVE  index_of(p - RingSlots) = index_of(p)
<1> DEFINE N == RingSlots
           q == p - N
           k == q \div N
           m == p \div N
<1>1. /\ N \in Nat \ {0} /\ k \in Int /\ m \in Int
      /\ q % N \in 0 .. N - 1 /\ p % N \in 0 .. N - 1
      /\ q = N * k + (q % N) /\ p = N * m + (p % N) /\ q \in Int
  BY RingAssumption, DivMod
<1> HIDE DEF k, m
<1>2. N * m - N * k = N * (m - k)
  BY <1>1, MulDistributes
<1>3. N * (m - k) = N + (q % N) - (p % N)
  BY <1>1, <1>2
<1>4. CASE m - k <= 0
  <2>1. N * (m - k) <= 0
    BY <1>1, <1>4, MulGrows
  <2> QED
    BY <1>1, <1>3, <2>1
<1>5. CASE m - k >= 2
  <2>1. N * (m - k) - N * 1 = N * (m - k - 1)
    BY <1>1, MulDistributes
  <2>2. N * (m - k - 1) >= N
    BY <1>1, <1>5, MulGrows
  <2> QED
    BY <1>1, <1>3, <2>1, <2>2
<1>6. CASE m - k = 1
  BY <1>1, <1>3, <1>6 DEF index_of
<1> QED
  BY <1>1, <1>4, <1>5, <1>6

\* What the steps below use of types.
LEMMA TryTypes ==
  ASSUME IInv
  PROVE  /\ wt \in Nat /\ RingSlots \in Nat \ {0} /\ index_of(wt) \in Slots
         /\ \A p \in Nat : index_of(p) \in Slots
         /\ \A r \in Readers :
              Given(r) \in Nat /\ cursor[r] \in Nat /\ conn[r] \in Bits \cup {NoBit}
                               /\ cursor[r] <= wt
<1>1. wt \in Nat /\ RingSlots \in Nat \ {0} /\ \A p \in Nat : index_of(p) \in Slots
  BY RingAssumption, IndexType DEF IInv, TypeOK
<1>2. ASSUME NEW r \in Readers
      PROVE  /\ Given(r) \in Nat /\ cursor[r] \in Nat /\ conn[r] \in Bits \cup {NoBit}
             /\ cursor[r] <= wt
  <2>1. log[r] \in Seq(Int)
    BY DEF IInv, TypeOK
  <2> QED
    BY <2>1 DEF IInv, TypeOK, Given
<1> QED
  BY <1>1, <1>2

\* Two positions that lie in the ring, or wait to, lie in different slots.
LEMMA InRingApart ==
  ASSUME wt \in Nat, NEW p \in Int, NEW q \in Int, p # q, InRing(p),
         InRing(q) \/ (q = wt /\ Claimed)
  PROVE  index_of(p) # index_of(q)
<1>1. RingSlots \in Nat \ {0}
  BY RingAssumption
<1>2. CASE p < q
  BY <1>1, <1>2, IndexNeq DEF InRing
<1>3. CASE q < p
  BY <1>1, <1>3, IndexNeq DEF InRing
<1> QED
  BY <1>2, <1>3

LEMMA TryInit ==
  ASSUME TryOnly, Init
  PROVE  RInv
<1>1. IInv
  BY InvInit
<1>2. Readers = Static
  BY DEF TryOnly, Readers
<1>3. TryOK /\ OldestOK
  BY RingAssumption DEF Init, TryOnly, TryOK, OldestOK, InRing
<1>4. ASSUME NEW r \in Readers PROVE TurnOK(r)
  BY <1>2, RingAssumption DEF Init, TurnOK, Given, Reading, Claimed, InRing
<1> QED
  BY <1>1, <1>3, <1>4 DEF RInv

\* Steps of the producer that touch no slot.
LEMMA TryLocal ==
  ASSUME TryOnly, RInv, IInv',
         (\E op \in Ops : SendStart(op)) \/ PushLoad \/ WaitRetry \/ WaitTimeout
  PROVE  RInv'
<1>1. UNCHANGED <<cc, wt, rc, data, readerVars>>
  BY DEF SendStart, PushLoad, WaitRetry, WaitTimeout
<1>2. ~Claimed /\ ~Claimed'
  BY DEF SendStart, PushLoad, WaitRetry, WaitTimeout, Claimed, TryOnly
<1>3. TryOK'
  BY <1>1 DEF SendStart, PushLoad, WaitRetry, WaitTimeout, TryOnly, RInv, TryOK
<1>4. OldestOK'
  BY <1>1, <1>2 DEF RInv, OldestOK, InRing
<1>5. ASSUME NEW r \in Readers PROVE TurnOK(r)'
  <2>1. TurnOK(r)
    BY DEF RInv
  <2> QED
    BY <1>1, <1>2, <2>1 DEF TurnOK, Given, Reading, InRing, readerVars
<1> QED
  BY <1>3, <1>4, <1>5 DEF RInv

\* push() takes the slot of the next message only when every receiver was given the one
\* that lies there.
LEMMA TryClaim ==
  ASSUME TryOnly, RInv, IInv', PushCas
  PROVE  RInv'
<1> DEFINE i == index_of(wt)
<1>0. UNCHANGED <<cc, wt, epoch, wop, data, readerVars, wcc, wrc>> /\ wpc = "cas"
  BY DEF PushCas, ClaimSlot
<1>i. i \in Slots /\ rc \in [Slots -> Rc]
  BY TryTypes DEF RInv, IInv, TypeOK
<1>1. CASE rc[i] # wrc
  <2>1. rc' = rc /\ wpc' = "load"
    BY <1>1 DEF PushCas, ClaimSlot
  <2>2. ~Claimed /\ ~Claimed'
    BY <1>0, <2>1 DEF Claimed
  <2>3. TryOK' /\ OldestOK'
    BY <1>0, <2>1, <2>2 DEF RInv, TryOK, OldestOK, InRing
  <2>4. ASSUME NEW r \in Readers PROVE TurnOK(r)'
    <3>1. TurnOK(r)
      BY DEF RInv
    <3> QED
      BY <1>0, <2>1, <2>2, <3>1 DEF TurnOK, Given, Reading, InRing, readerVars
  <2> QED
    BY <2>3, <2>4 DEF RInv
<1>2. CASE rc[i] = wrc
  <2>1. rc' = [rc EXCEPT ![i] = [bits |-> wcc, ep |-> epoch]] /\ wpc' = "prep"
    BY <1>2 DEF PushCas, ClaimSlot
  <2>2. Claimed' /\ ~Claimed /\ wcc = cc /\ epoch = 0
    BY <1>0, <2>1 DEF Claimed, RInv, TryOK
  <2>3. wcc \cap rc[i].bits = {}
    BY <1>0, <1>2, <1>i, <2>2 DEF RInv, IInv, CasOK, TryOK
  <2>4. TryOK'
    BY <1>0, <1>i, <2>1, <2>2 DEF RInv, TryOK
  <2>5. ASSUME NEW p \in Nat, InRing(p)' PROVE InRing(p) /\ index_of(p) # i /\ index_of(p) \in Slots
    <3>1. InRing(p) /\ p # wt - RingSlots
      BY <1>0, <2>2, <2>5 DEF InRing
    <3>2. wt < p + RingSlots /\ p < wt /\ p \in Int /\ wt \in Int
      BY <3>1, TryTypes DEF InRing, RInv
    <3> QED
      BY <3>1, <3>2, IndexNeq, IndexType
  <2>6. OldestOK'
    BY <1>0, <2>5 DEF RInv, OldestOK
  <2>7. ASSUME NEW r \in Readers PROVE TurnOK(r)'
    <3>1. TurnOK(r) /\ conn[r] \in cc
      BY DEF RInv, IInv, ConnectedStay, TurnOK
    <3>2. wt - Given(r) < RingSlots
      <4>1. SUFFICES ASSUME Given(r) = wt - RingSlots PROVE FALSE
        BY <3>1, TryTypes DEF TurnOK, RInv
      <4>2. Given(r) \in Nat /\ InRing(Given(r)) /\ index_of(Given(r)) = i
        <5>1. wt \in Nat /\ RingSlots \in Nat \ {0} /\ Given(r) \in Nat
          BY TryTypes DEF RInv
        <5>2. index_of(wt - RingSlots) = i
          BY <5>1, IndexShift
        <5> QED
          BY <2>2, <4>1, <5>1, <5>2 DEF InRing
      <4>3. conn[r] \in rc[i].bits
        BY <3>1, <4>2 DEF TurnOK
      <4> QED
        BY <2>2, <2>3, <3>1, <4>3
    <3>3. conn[r] \in rc'[i].bits
      BY <1>i, <2>1, <2>2, <3>1
    <3>4. \A p \in Nat : InRing(p)' => (conn[r] \in rc'[index_of(p)].bits <=> Given(r) <= p)
      BY <1>i, <2>1, <2>5, <3>1 DEF TurnOK
    <3> QED
      BY <1>0, <3>1, <3>2, <3>3, <3>4 DEF TurnOK, Given, Reading, readerVars
  <2> QED
    BY <2>4, <2>6, <2>7 DEF RInv
<1> QED
  BY <1>1, <1>2

\* The message is written where the oldest one lay that all have been given.
LEMMA TryWrite ==
  ASSUME TryOnly, RInv, IInv', WriteBegin \/ WriteEnd
  PROVE  RInv'
<1> DEFINE i == index_of(wt)
<1>0. /\ UNCHANGED <<cc, wt, epoch, rc, wop, wcc, wrc, readerVars>>
      /\ Claimed /\ Claimed' /\ wpc' # "cas" /\ wpc' \in {"write", "advance"} /\ wpc # "idle"
      /\ \E v : data' = [data EXCEPT ![i] = v]
  BY DEF WriteBegin, WriteEnd, Claimed
<1>1. TryOK'
  BY <1>0 DEF RInv, TryOK
<1>2. OldestOK'
  <2>1. SUFFICES ASSUME NEW p \in Nat, InRing(p)' PROVE data'[index_of(p)] = p
    BY DEF OldestOK
  <2>2. InRing(p)
    BY <1>0, <2>1 DEF InRing
  <2>3. wt \in Nat /\ p # wt
    BY <2>2, TryTypes DEF InRing, RInv
  <2>4. index_of(p) # i
    BY <1>0, <2>2, <2>3, InRingApart
  <2>5. index_of(p) \in Slots /\ data \in [Slots -> Int]
    BY TryTypes DEF RInv, IInv, TypeOK
  <2> QED
    BY <1>0, <2>2, <2>4, <2>5 DEF RInv, OldestOK
<1>3. ASSUME NEW r \in Readers PROVE TurnOK(r)'
  <2>1. TurnOK(r)
    BY DEF RInv
  <2> QED
    BY <1>0, <2>1 DEF TurnOK, Given, Reading, InRing, readerVars
<1> QED
  BY <1>1, <1>2, <1>3 DEF RInv

LEMMA TryAdvance ==
  ASSUME TryOnly, RInv, IInv', Advance
  PROVE  RInv'
<1>0. /\ UNCHANGED <<cc, epoch, rc, data, wop, wcc, wrc, readerVars>>
      /\ wt' = wt + 1 /\ wpc = "advance" /\ wpc' = "idle" /\ Claimed /\ ~Claimed'
  BY DEF Advance, Claimed
<1>1. wt \in Nat /\ RingSlots \in Nat \ {0}
  BY TryTypes DEF RInv
<1>2. TryOK'
  BY <1>0 DEF RInv, TryOK
<1>3. ASSUME NEW p \in Nat, InRing(p)' PROVE p = wt \/ (InRing(p) /\ p # wt)
  BY <1>0, <1>1, <1>3 DEF InRing
<1>4. OldestOK'
  <2>1. data[index_of(wt)] = wt
    BY <1>0 DEF RInv, IInv, DataOK
  <2> QED
    BY <1>0, <1>3, <2>1 DEF RInv, OldestOK
<1>5. ASSUME NEW r \in Readers PROVE TurnOK(r)'
  <2>1. TurnOK(r) /\ Given(r) \in Nat /\ Given(r) <= wt
    BY TryTypes DEF RInv, TurnOK
  <2>2. \A p \in Nat : InRing(p)' => (conn[r] \in rc[index_of(p)].bits <=> Given(r) <= p)
    BY <1>0, <1>3, <2>1 DEF TurnOK
  <2>3. wt + 1 - Given(r) <= RingSlots
    BY <1>0, <1>1, <2>1 DEF TurnOK
  <2>4. Given(r)' = Given(r) /\ Reading(r)' = Reading(r)
    BY <1>0 DEF Given, Reading, readerVars
  <2>5. UNCHANGED <<rpc, cursor, ep0, got, conn, rc>>
    BY <1>0 DEF readerVars
  <2>6. \A p \in Nat : InRing(p)' => (conn'[r] \in rc'[index_of(p)].bits <=> Given(r)' <= p)
    BY <2>2, <2>4, <2>5
  <2>7. wt' - Given(r)' <= RingSlots
    BY <1>0, <1>1, <2>1, <2>3, <2>4
  <2> QED
    BY <1>0, <2>1, <2>4, <2>5, <2>6, <2>7 DEF TurnOK
<1> QED
  BY <1>2, <1>4, <1>5 DEF RInv

\* What no step of pop() changes.
LEMMA PopLeaves ==
  ASSUME TypeOK, NEW r \in Readers, Pop(r)
  PROVE  /\ UNCHANGED <<cc, wt, epoch, data, writerVars, conn>>
         /\ \A s \in Readers \ {r} :
              /\ rpc'[s] = rpc[s] /\ cursor'[s] = cursor[s] /\ ep0'[s] = ep0[s]
              /\ got'[s] = got[s] /\ log'[s] = log[s]
BY DEF Pop, PopEnter, PopEmpty, PopLoad, PopCopy, PopDeliver, PopDiscard, TypeOK, writerVars

\* A receiver that has something to read finds its bit, and finds the epoch it saw.
LEMMA TryFinds ==
  ASSUME TryOnly, RInv, NEW r \in Readers
  PROVE  /\ PopEnter(r) => cursor' = cursor
         /\ PopLoad(r) => /\ cursor'[r] = cursor[r] + 1 /\ rpc'[r] = "copy" /\ ep0'[r] = 0
                          /\ Given(r) = cursor[r]
         /\ PopCopy(r) => got'[r] = Given(r)
         /\ Reading(r) => /\ PopSlot(r) = index_of(Given(r)) /\ Given(r) < wt
                          /\ InRing(Given(r)) /\ cursor[r] = Given(r) + 1
         /\ ~PopDiscard(r)
<1>1. /\ TurnOK(r) /\ TypeOK /\ wt \in Nat /\ RingSlots \in Nat \ {0}
      /\ Given(r) \in Nat /\ cursor[r] \in Nat /\ cursor[r] <= wt
  BY TryTypes DEF RInv, IInv
<1>2. wt - Given(r) <= RingSlots /\ (wt - Given(r) = RingSlots => ~Claimed)
  BY <1>1 DEF TurnOK
<1>3. ASSUME Given(r) < wt PROVE InRing(Given(r))
  BY <1>1, <1>2, <1>3 DEF InRing
<1>4. ASSUME Reading(r)
      PROVE  /\ PopSlot(r) = index_of(Given(r)) /\ Given(r) < wt
             /\ InRing(Given(r)) /\ cursor[r] = Given(r) + 1
  <2>1. cursor[r] = Given(r) + 1
    BY <1>1, <1>4 DEF TurnOK
  <2>2. Given(r) < wt /\ cursor[r] - 1 = Given(r)
    BY <1>1, <2>1
  <2> QED
    BY <1>3, <2>1, <2>2 DEF PopSlot
<1>5. ASSUME PopEnter(r) PROVE cursor' = cursor
  <2>1. rpc[r] = "idle"
    BY <1>5 DEF PopEnter
  <2>2. cursor[r] = Given(r)
    BY <1>1, <2>1 DEF TurnOK, Reading
  <2>3. ~(wt - cursor[r] > RingSlots)
    BY <1>1, <1>2, <2>2
  <2> QED
    BY <1>1, <1>5, <2>3 DEF PopEnter, TypeOK
<1>6. ASSUME PopLoad(r)
      PROVE  /\ cursor'[r] = cursor[r] + 1 /\ rpc'[r] = "copy" /\ ep0'[r] = 0
             /\ Given(r) = cursor[r]
  <2>1. rpc[r] = "loop" /\ cursor[r] # wt
    BY <1>6 DEF PopLoad
  <2>2. Given(r) = cursor[r] /\ Given(r) < wt
    BY <1>1, <2>1 DEF TurnOK, Reading
  <2>3. conn[r] \in rc[index_of(cursor[r])].bits
    BY <1>1, <1>3, <2>2 DEF TurnOK
  <2>4. rc[index_of(cursor[r])].ep = 0
    BY <1>1, TryTypes DEF RInv, TryOK
  <2> QED
    BY <1>1, <1>6, <2>2, <2>3, <2>4 DEF PopLoad, TypeOK
<1>7. ASSUME PopCopy(r) PROVE got'[r] = Given(r)
  <2>1. Reading(r) /\ got'[r] = data[PopSlot(r)]
    BY <1>1, <1>7 DEF PopCopy, Reading, TypeOK
  <2> QED
    BY <1>1, <1>4, <2>1 DEF RInv, OldestOK
<1>8. ~PopDiscard(r)
  <2>1. SUFFICES ASSUME PopDiscard(r) PROVE FALSE
    OBVIOUS
  <2>2. rpc[r] = "clear" /\ Reading(r) /\ ~Delivers(r)
    BY <2>1 DEF PopDiscard, Reading
  <2>3. rc[PopSlot(r)].ep = 0 /\ ep0[r] = 0
    BY <1>1, <1>4, <2>2, TryTypes DEF RInv, TryOK, TurnOK
  <2> QED
    BY <2>2, <2>3 DEF Delivers
<1> QED
  BY <1>4, <1>5, <1>6, <1>7, <1>8

LEMMA TryPop ==
  ASSUME TryOnly, RInv, IInv', NEW r \in Readers, Pop(r)
  PROVE  RInv'
<1>0. /\ UNCHANGED <<cc, wt, epoch, data, writerVars, conn>>
      /\ \A s \in Readers \ {r} :
           /\ rpc'[s] = rpc[s] /\ cursor'[s] = cursor[s] /\ ep0'[s] = ep0[s]
           /\ got'[s] = got[s] /\ log'[s] = log[s]
  BY PopLeaves DEF RInv, IInv
<1>1. /\ TurnOK(r) /\ TypeOK /\ wt \in Nat /\ Given(r) \in Nat /\ cursor[r] \in Nat
      /\ \A p \in Nat : index_of(p) \in Slots
  BY TryTypes DEF RInv, IInv
<1>2. Claimed' = Claimed /\ \A p : InRing(p)' = InRing(p)
  BY <1>0 DEF Claimed, InRing, writerVars
<1>3. OldestOK'
  BY <1>0, <1>2 DEF RInv, OldestOK
<1>4. CASE PopEnter(r) \/ PopEmpty(r) \/ PopLoad(r) \/ PopCopy(r)
  <2>1. rc' = rc /\ log' = log
    BY <1>4 DEF PopEnter, PopEmpty, PopLoad, PopCopy
  <2>2. TryOK'
    BY <1>0, <2>1 DEF RInv, TryOK, writerVars
  <2>3. ASSUME NEW s \in Readers \ {r} PROVE TurnOK(s)'
    <3>1. TurnOK(s)
      BY DEF RInv
    <3> QED
      BY <1>0, <1>2, <2>1, <3>1 DEF TurnOK, Given, Reading
  <2>4. Given(r)' = Given(r)
    BY <2>1 DEF Given
  <2>5. /\ rpc'[r] \notin {"off", "joining"}
        /\ cursor'[r] = Given(r) + IF Reading(r)' THEN 1 ELSE 0
        /\ Reading(r)' => ep0'[r] = 0
        /\ rpc'[r] = "clear" => got'[r] = Given(r)
    <3>1. CASE PopEnter(r) \/ PopEmpty(r)
      <4>1. rpc'[r] \in {"loop", "idle"} /\ cursor' = cursor /\ rpc[r] \in {"loop", "idle"}
        BY <1>1, <3>1, TryFinds DEF PopEnter, PopEmpty, TypeOK
      <4> QED
        BY <1>1, <4>1 DEF TurnOK, Reading
    <3>2. CASE PopLoad(r)
      <4>1. rpc'[r] = "copy" /\ cursor'[r] = Given(r) + 1 /\ ep0'[r] = 0
        BY <3>2, TryFinds
      <4> QED
        BY <4>1 DEF Reading
    <3>3. CASE PopCopy(r)
      <4>1. rpc[r] = "copy" /\ rpc'[r] = "clear" /\ cursor' = cursor /\ ep0' = ep0
            /\ got'[r] = Given(r)
        BY <1>1, <3>3, TryFinds DEF PopCopy, TypeOK
      <4> QED
        BY <1>1, <4>1 DEF TurnOK, Reading
    <3> QED
      BY <1>4, <3>1, <3>2, <3>3
  <2>6. TurnOK(r)'
    BY <1>0, <1>1, <1>2, <2>1, <2>4, <2>5 DEF TurnOK
  <2> QED
    BY <1>3, <2>2, <2>3, <2>6 DEF RInv
\* Handing out the message takes the receiver's bit from the slot of that message, and from
\* no other slot that it has yet to read.
<1>5. CASE PopDeliver(r)
  <2> DEFINE g == Given(r)
  <2>1. /\ rpc[r] = "clear" /\ rpc'[r] = "idle" /\ cursor' = cursor /\ ep0' = ep0 /\ got' = got
        /\ rc' = [rc EXCEPT ![PopSlot(r)] =
                    [bits |-> rc[PopSlot(r)].bits \ {conn[r]}, ep |-> rc[PopSlot(r)].ep]]
        /\ log' = [log EXCEPT ![r] = Append(log[r], got[r])]
    BY <1>1, <1>5 DEF PopDeliver, Delivers, TypeOK
  <2>2. PopSlot(r) = index_of(g) /\ g < wt /\ InRing(g) /\ cursor[r] = g + 1 /\ g \in Nat
    BY <1>1, <2>1, TryFinds DEF Reading
  <2>3. rc \in [Slots -> Rc] /\ index_of(g) \in Slots /\ log \in [Readers -> Seq(Int)]
        /\ got[r] \in Int
    BY <1>1, <2>2 DEF TypeOK
  <2>4. \A i \in Slots : /\ rc'[i].ep = rc[i].ep
                         /\ i # index_of(g) => rc'[i].bits = rc[i].bits
                         /\ i = index_of(g) => rc'[i].bits = rc[i].bits \ {conn[r]}
    BY <2>1, <2>2, <2>3
  <2>5. TryOK'
    BY <1>0, <2>4 DEF RInv, TryOK, writerVars
  <2>6. Given(r)' = g + 1
    BY <2>1, <2>3 DEF Given
  <2>7. ASSUME NEW s \in Readers \ {r} PROVE TurnOK(s)'
    <3>1. TurnOK(s) /\ conn[s] # conn[r]
      BY <1>1 DEF RInv, IInv, ConnectedStay, TurnOK
    <3>2. \A i \in Slots : conn[s] \in rc'[i].bits <=> conn[s] \in rc[i].bits
      BY <2>4, <3>1
    <3>3. Given(s)' = Given(s) /\ Reading(s)' = Reading(s) /\ index_of(wt) \in Slots
      BY <1>0, <1>1 DEF Given, Reading
    <3> QED
      BY <1>0, <1>1, <1>2, <3>1, <3>2, <3>3 DEF TurnOK
  <2>8. ASSUME NEW p \in Nat, InRing(p)
        PROVE  conn[r] \in rc'[index_of(p)].bits <=> g + 1 <= p
    <3>1. CASE p = g
      BY <2>3, <2>4, <3>1
    <3>2. CASE p # g
      <4>1. index_of(p) # index_of(g) /\ index_of(p) \in Slots
        BY <1>1, <2>2, <2>8, <3>2, InRingApart
      <4> QED
        BY <1>1, <2>2, <2>4, <2>8, <3>2, <4>1 DEF TurnOK
    <3> QED
      BY <3>1, <3>2
  <2>9. ASSUME Claimed PROVE conn[r] \in rc'[index_of(wt)].bits
    <3>1. index_of(g) # index_of(wt) /\ index_of(wt) \in Slots
      BY <1>1, <2>2, <2>9, InRingApart
    <3> QED
      BY <1>1, <2>4, <2>9, <3>1 DEF TurnOK
  <2>10. wt - (g + 1) <= RingSlots /\ (Claimed => wt - (g + 1) < RingSlots)
    BY <1>1, RingAssumption DEF TurnOK
  <2>11. ~Reading(r)' /\ rpc'[r] # "clear" /\ cursor'[r] = g + 1
    BY <2>1, <2>2 DEF Reading
  <2>12. TurnOK(r)'
    BY <1>0, <1>1, <1>2, <2>1, <2>2, <2>6, <2>8, <2>9, <2>10, <2>11 DEF TurnOK
  <2> QED
    BY <1>3, <2>5, <2>7, <2>12 DEF RInv
<1>6. ~PopDiscard(r)
  BY TryFinds
<1> QED
  BY <1>4, <1>5, <1>6 DEF Pop

\* The steps there are, with try_send() and without membership.
LEMMA TrySteps ==
  ASSUME TryOnly, RInv, [Next]_vars
  PROVE  \/ (\E op \in Ops : SendStart(op)) \/ PushLoad \/ WaitRetry \/ WaitTimeout
         \/ PushCas \/ WriteBegin \/ WriteEnd \/ Advance
         \/ \E r \in Readers : Pop(r)
         \/ UNCHANGED vars
<1>1. ~GenPush /\ ~PublishLoan /\ ~DiscardLoan /\ ~ForceLoad /\ ~ForceCas /\ ~PushSniffer
  BY DEF RInv, TryOK, GenPush, PublishLoan, DiscardLoan, ForceLoad, ForceCas, PushSniffer
<1> QED
  BY <1>1 DEF Next, Writer, TryOnly

LEMMA TryNext ==
  ASSUME TryOnly, RInv, [Next]_vars
  PROVE  RInv'
<1>1. IInv'
  BY InvNext DEF RInv
<1>2. CASE UNCHANGED vars
  <2>1. TryOK' /\ OldestOK'
    BY <1>2 DEF RInv, TryOK, OldestOK, InRing, Claimed, vars, writerVars
  <2>2. ASSUME NEW r \in Readers PROVE TurnOK(r)'
    <3>1. TurnOK(r)
      BY DEF RInv
    <3> QED
      BY <1>2, <3>1 DEF TurnOK, Given, Reading, InRing, Claimed, vars, writerVars, readerVars
  <2> QED
    BY <1>1, <2>1, <2>2 DEF RInv
<1> QED
  BY <1>1, <1>2, TrySteps, TryLocal, TryClaim, TryWrite, TryAdvance, TryPop

\* Advance publishes; a receiver that leaves pop() with a message delivers; nothing else is
\* visible.
LEMMA TryRefines ==
  ASSUME TryOnly, RInv, [Next]_vars
  PROVE  [Reliable!Next]_(Reliable!vars)
<1> USE DEF Reliable!Next, Reliable!vars, Reliable!Publish, Reliable!Deliver
<1>0. Readers = Static
  BY DEF TryOnly, Readers
<1>1. CASE Advance
  <2>1. wt' = wt + 1 /\ log' = log /\ wpc = "advance"
    BY <1>1 DEF Advance, readerVars
  <2>2. wt < MaxWt /\ \A r \in Readers : wt - Given(r) < RingSlots
    BY <2>1 DEF RInv, TryOK, TurnOK, Claimed
  <2> QED
    BY <1>0, <2>1, <2>2 DEF Given
<1>2. ASSUME NEW r \in Readers, Pop(r) PROVE [Reliable!Next]_(Reliable!vars)
  <2>1. CASE PopDeliver(r)
    <3>1. Reading(r) /\ wt' = wt /\ log' = [log EXCEPT ![r] = Append(log[r], got[r])]
      BY <2>1 DEF PopDeliver, Delivers, Reading
    <3>2. Given(r) < wt /\ got[r] = Given(r)
      BY <2>1, <3>1, TryFinds DEF RInv, TurnOK, PopDeliver, Delivers
    <3> QED
      BY <1>0, <3>1, <3>2 DEF Given
  <2>2. CASE ~PopDeliver(r)
    BY <1>2, <2>2 DEF Pop, PopEnter, PopEmpty, PopLoad, PopCopy, PopDiscard
  <2> QED
    BY <2>1, <2>2
<1>3. CASE \/ (\E op \in Ops : SendStart(op)) \/ PushLoad \/ WaitRetry \/ WaitTimeout
           \/ PushCas \/ WriteBegin \/ WriteEnd \/ UNCHANGED vars
  BY <1>3 DEF SendStart, PushLoad, WaitRetry, WaitTimeout, PushCas, ClaimSlot, WriteBegin,
              WriteEnd, vars, readerVars
<1> QED
  BY <1>1, <1>2, <1>3, TrySteps

\* With try_send() alone and receivers that stay, push() and pop() hand every message to
\* every receiver at most once, in the order of publication, whole and without a gap, and the
\* producer is never more than a ring ahead of the slowest receiver.
THEOREM TrySendIsReliable ==
  ASSUME Ops = {"try_send"}, Dynamic = {}
  PROVE  Spec => Reliable!Safety
<1>0. TryOnly
  BY DEF TryOnly
<1>1. Init => RInv /\ Reliable!Init
  <2>1. Init => RInv
    BY <1>0, TryInit
  <2>2. Init => Reliable!Init
    BY <1>0 DEF Init, Reliable!Init, TryOnly, Readers
  <2> QED
    BY <2>1, <2>2
<1>2. RInv /\ [Next]_vars => RInv' /\ [Reliable!Next]_(Reliable!vars)
  BY <1>0, TryNext, TryRefines
<1> QED
  BY <1>1, <1>2, PTL DEF Spec, Reliable!Safety
-----------------------------------------------------------------------------
(***************************************************************************)
(* The natural numbers up to a bound.                                      *)
(***************************************************************************)

\* A set of numbers has a smallest one.
LEMMA Least ==
  ASSUME NEW T \in SUBSET Nat, T # {}
  PROVE  \E x \in T : \A y \in T : x <= y
<1> DEFINE R == {ss \in Nat \X Nat : ss[1] < ss[2]}
<1>1. IsWellFoundedOn(R, Nat)
  BY NatLessThanWellFounded DEF OpToRel
<1> HIDE DEF R
<1>2. PICK x \in T : \A y \in T : ~(<<y, x>> \in R)
  BY <1>1, WFMin
<1>3. \A y \in T : <<y, x>> \in Nat \X Nat /\ <<y, x>>[1] = y /\ <<y, x>>[2] = x
  OBVIOUS
<1>4. \A y \in T : ~(y < x)
  BY <1>2, <1>3 DEF R
<1> QED
  BY <1>4

\* Induction up to n, over a set
LEMMA UpTo ==
  ASSUME NEW n \in Nat, NEW T, 0 \in T, \A k \in 0 .. n - 1 : k \in T => k + 1 \in T
  PROVE  \A k \in 0 .. n : k \in T
<1> DEFINE Out == {k \in 0 .. n : k \notin T}
<1>1. SUFFICES ASSUME Out # {} PROVE FALSE
  OBVIOUS
<1>2. PICK x \in Out : \A y \in Out : x <= y
  <2>1. Out \in SUBSET Nat
    OBVIOUS
  <2> HIDE DEF Out
  <2> QED
    BY <1>1, <2>1, Least
<1>3. x # 0 /\ x \in 1 .. n /\ x - 1 \in 0 .. n - 1
  OBVIOUS
<1>4. x - 1 \in T
  BY <1>2, <1>3
<1> QED
  BY <1>3, <1>4
-----------------------------------------------------------------------------
(***************************************************************************)
(* The ring under a pool of chunks: who still waits for which message.     *)
(***************************************************************************)

Connected(r) == rpc[r] \notin {"off", "joining"}

\* The message whose slot the next one takes, until clear_message() has seen it
Leaving(m) == m = wt - RingSlots /\ wpc = "prep"

\* The bits of the receivers that have yet to take message m from the ring
Owed(m) ==
  IF m = wt THEN IF Claimed THEN rc[index_of(wt)].bits ELSE {}
  ELSE IF Leaving(m) THEN wrc.bits
  ELSE IF InRing(m) THEN rc[index_of(m)].bits
  ELSE {}

\* Receiver r will come to message m, or is reading it.
Awaits(r, m) == cursor[r] <= m \/ (Reading(r) /\ cursor[r] = m + 1)

\* The connection bitmap has the bits of those who are connected.
MemberOK ==
  /\ cc = {conn[r] : r \in {s \in Readers : rpc[s] # "off"}}
  /\ \A r \in Readers : rpc[r] = "off" => conn[r] = NoBit
  /\ \A r \in Readers : rpc[r] = "joining" => wpc = "idle"

\* The bitmap stays as the producer read it.
SendOK ==
  /\ wt <= MaxWt /\ (wpc # "idle" => wt < MaxWt)
  /\ wpc \in {"cas", "fcas"} => wcc = cc /\ cc # {}
  /\ wpc = "sniff" => cc = {}

\* What lies in the ring lies there whole, the oldest message included, and the other
\* slots were never written.
SlotsOK ==
  /\ \A p \in Nat : InRing(p) \/ Leaving(p) => data[index_of(p)] = p
  /\ \A i \in Slots : i >= wt =>
       \/ data[i] = NoMsg
       \/ i = wt /\ wpc = "write" /\ data[i] = Torn
       \/ i = wt /\ wpc = "advance"

\* Every bit that is set is that of somebody who will come to the message, or of somebody
\* the producer is about to strike out; and who will come to it finds its bit.
OwedOK ==
  /\ \A m \in Int : Owed(m) \subseteq cc
  /\ \A r \in Readers : rpc[r] = "joining" => \A m \in Int : conn[r] \notin Owed(m)
AwaitsOK(r) ==
  Connected(r) =>
    /\ \A m \in Int : conn[r] \in Owed(m) => Leaving(m) \/ Awaits(r, m)
    /\ \A m \in Nat : (InRing(m) \/ Leaving(m)) /\ Awaits(r, m) => conn[r] \in Owed(m)
    /\ Claimed => conn[r] \in rc[index_of(wt)].bits

\* What a receiver reads lies in the ring as long as the slot keeps its epoch.
StandsOK(r) == Reading(r) => (InRing(cursor[r] - 1) <=> rc[PopSlot(r)].ep = ep0[r])

QuietInv ==
  IInv /\ MemberOK /\ SendOK /\ SlotsOK /\ OwedOK /\ \A r \in Readers : AwaitsOK(r) /\ StandsOK(r)

-----------------------------------------------------------------------------
(***************************************************************************)
(* What the ring owes its receivers.                                       *)
(***************************************************************************)

LEMMA RingTypes ==
  ASSUME TypeOK
  PROVE  /\ wt \in Nat /\ RingSlots \in Nat \ {0} /\ index_of(wt) \in Slots
         /\ index_of(wt - RingSlots) = index_of(wt)
         /\ \A m \in Int : index_of(m) \in Slots
         /\ rc \in [Slots -> Rc] /\ wrc \in Rc /\ cc \subseteq Bits
         /\ \A i \in Slots : rc[i].bits \subseteq Bits /\ rc[i].ep \in Nat
         /\ \A r \in Readers : /\ conn[r] \in Bits \cup {NoBit} /\ cursor[r] \in Nat
                               /\ cursor[r] <= wt /\ rpc[r] \in ReaderPC
<1>1. wt \in Nat /\ RingSlots \in Nat \ {0} /\ rc \in [Slots -> Rc] /\ wrc \in Rc /\ cc \subseteq Bits
  BY RingAssumption DEF TypeOK
<1>2. \A m \in Int : index_of(m) \in Slots
  BY IndexType
<1>3. index_of(wt - RingSlots) = index_of(wt) /\ index_of(wt) \in Slots
  BY <1>1, IndexType, IndexShift
<1>4. \A i \in Slots : rc[i].bits \subseteq Bits /\ rc[i].ep \in Nat
  BY <1>1 DEF Rc
<1>5. \A r \in Readers : /\ conn[r] \in Bits \cup {NoBit} /\ cursor[r] \in Nat
                          /\ cursor[r] <= wt /\ rpc[r] \in ReaderPC
  BY DEF TypeOK
<1> QED
  BY <1>1, <1>2, <1>3, <1>4, <1>5

\* Steps that touch no slot
LEMMA OwedStays ==
  ASSUME NEW m, UNCHANGED <<wt, rc>>,
         UNCHANGED <<wpc, wrc>> \/ (~Claimed /\ ~Claimed')
  PROVE  Owed(m)' = Owed(m) /\ (InRing(m)' <=> InRing(m)) /\ (Leaving(m)' <=> Leaving(m))
BY DEF Owed, Leaving, InRing, Claimed

\* push() and force_push() have taken the slot: what the old message still owes is in
\* rem_cc, and the new one is owed to those in the snapshot.
Claims == (PushCas \/ ForceCas) /\ wpc' = "prep"
LEMMA OwedClaimed ==
  ASSUME TypeOK, Claims, NEW m \in Int
  PROVE  /\ Owed(m)' = IF m = wt THEN wcc ELSE Owed(m)
         /\ (InRing(m)' \/ Leaving(m)' <=> InRing(m)) /\ (Leaving(m)' <=> m = wt - RingSlots)
<1> DEFINE i == index_of(wt)
<1>1. /\ ~Claimed /\ Claimed' /\ wpc' = "prep" /\ UNCHANGED <<wt, wrc>>
      /\ rc[i] = wrc /\ rc' = [rc EXCEPT ![i] = [bits |-> wcc, ep |-> epoch]]
  BY DEF Claims, PushCas, ForceCas, ClaimSlot, Claimed
<1>2. wt \in Nat /\ RingSlots \in Nat \ {0} /\ i \in Slots /\ index_of(m) \in Slots
      /\ index_of(wt - RingSlots) = i /\ rc \in [Slots -> Rc]
  BY RingTypes
<1> HIDE DEF i
<1>3. rc'[i].bits = wcc
  BY <1>1, <1>2
<1>4. CASE m = wt
  BY <1>1, <1>2, <1>3, <1>4 DEF Owed, Leaving, InRing, i
<1>5. CASE m = wt - RingSlots
  BY <1>1, <1>2, <1>5 DEF Owed, Leaving, InRing
<1>6. CASE m # wt /\ m # wt - RingSlots
  <2>1. wt - RingSlots < m /\ m < wt => index_of(m) # i
    BY <1>2, IndexNeq DEF i
  <2>2. wt - RingSlots < m /\ m < wt => rc'[index_of(m)] = rc[index_of(m)]
    BY <1>1, <1>2, <2>1
  <2> QED
    BY <1>1, <1>2, <1>6, <2>2 DEF Owed, Leaving, InRing
<1> QED
  BY <1>4, <1>5, <1>6

\* clear_message() has seen the old message.
LEMMA OwedCleared ==
  ASSUME TypeOK, WriteBegin, NEW m \in Int
  PROVE  /\ Owed(m)' = IF m = wt - RingSlots THEN {} ELSE Owed(m)
         /\ (InRing(m)' <=> InRing(m)) /\ ~Leaving(m)' /\ (Leaving(m) <=> m = wt - RingSlots)
         /\ m = wt - RingSlots => Owed(m) = wrc.bits
<1>1. wpc = "prep" /\ wpc' = "write" /\ UNCHANGED <<wt, rc, wrc>>
  BY DEF WriteBegin
<1>2. wt \in Nat /\ RingSlots \in Nat \ {0}
  BY RingTypes
<1> QED
  BY <1>1, <1>2 DEF Owed, Leaving, InRing, Claimed

LEMMA OwedWritten ==
  ASSUME TypeOK, WriteEnd, NEW m \in Int
  PROVE  Owed(m)' = Owed(m) /\ (InRing(m)' <=> InRing(m)) /\ ~Leaving(m)' /\ ~Leaving(m)
<1>1. wpc = "write" /\ wpc' = "advance" /\ UNCHANGED <<wt, rc, wrc>>
  BY DEF WriteEnd
<1> QED
  BY <1>1 DEF Owed, Leaving, InRing, Claimed

\* The new message joins those in the ring.
LEMMA OwedPublished ==
  ASSUME TypeOK, Advance, NEW m \in Int
  PROVE  Owed(m)' = Owed(m) /\ (InRing(m)' <=> InRing(m) \/ m = wt) /\ ~Leaving(m)' /\ ~Leaving(m)
<1>1. wpc = "advance" /\ wpc' = "idle" /\ wt' = wt + 1 /\ UNCHANGED <<rc, wrc>>
  BY DEF Advance
<1>2. wt \in Nat /\ RingSlots \in Nat \ {0}
  BY RingTypes
<1>3. Claimed /\ ~Claimed' /\ ~Leaving(m) /\ ~Leaving(m)'
  BY <1>1 DEF Claimed, Leaving
<1>4. InRing(m) <=> m < wt /\ wt - RingSlots < m
  BY <1>2, <1>3 DEF InRing
<1>5. InRing(m)' <=> m < wt + 1 /\ wt + 1 - RingSlots <= m
  BY <1>1, <1>2, <1>3 DEF InRing
<1>6. InRing(m)' <=> InRing(m) \/ m = wt
  BY <1>2, <1>4, <1>5
<1>7. CASE m = wt
  BY <1>1, <1>2, <1>7 DEF Owed, Leaving, InRing, Claimed
<1>8. CASE m = wt + 1
  BY <1>1, <1>2, <1>8 DEF Owed, Leaving, InRing, Claimed
<1>9. CASE m # wt /\ m # wt + 1
  BY <1>1, <1>2, <1>9 DEF Owed, Leaving, InRing, Claimed
<1> QED
  BY <1>6, <1>7, <1>8, <1>9, <1>3

\* A receiver takes a message: its bit goes, no other.
LEMMA OwedTaken ==
  ASSUME QuietInv, NEW r \in Readers, PopDeliver(r), lag[r] < RingSlots
  PROVE  /\ InRing(cursor[r] - 1) /\ cursor[r] - 1 \in Nat /\ got[r] = cursor[r] - 1
         /\ conn[r] \in Owed(cursor[r] - 1)
         /\ \A m \in Int : /\ (InRing(m)' <=> InRing(m)) /\ (Leaving(m)' <=> Leaving(m))
                           /\ Owed(m)' = IF m = cursor[r] - 1 THEN Owed(m) \ {conn[r]} ELSE Owed(m)
<1> DEFINE p == cursor[r] - 1
           i == index_of(p)
<1>1. Delivers(r) /\ UNCHANGED <<wt, wpc, wrc, conn, cursor>>
      /\ rc' = [rc EXCEPT ![i] = [bits |-> rc[i].bits \ {conn[r]}, ep |-> rc[i].ep]]
  BY DEF PopDeliver, PopSlot, writerVars
<1>2. Reading(r) /\ rpc[r] = "clear" /\ rc[PopSlot(r)].ep = ep0[r]
  BY <1>1 DEF Delivers, Reading
<1>3. ReadOKBy(r) /\ StandsOK(r) /\ TypeOK
  BY DEF QuietInv, IInv, ReadOK
<1>4. InRing(p) /\ cursor[r] >= 1 /\ got[r] = p /\ conn[r] \in rc[PopSlot(r)].bits
  BY <1>2, <1>3 DEF ReadOKBy, StandsOK
<1>5. /\ wt \in Nat /\ RingSlots \in Nat \ {0} /\ \A m \in Int : index_of(m) \in Slots
      /\ rc \in [Slots -> Rc] /\ cursor[r] \in Nat
  BY <1>3, RingTypes
<1>6. p \in Nat /\ i \in Slots
  BY <1>4, <1>5
<1>7. conn[r] \in Owed(p)
  <2>1. p # wt /\ ~Leaving(p)
    BY <1>4, <1>5, <1>6 DEF InRing, Leaving, Claimed
  <2> QED
    BY <1>4, <2>1 DEF Owed, PopSlot
<1> HIDE DEF p, i
<1>8. ASSUME NEW m \in Int
      PROVE  /\ (InRing(m)' <=> InRing(m)) /\ (Leaving(m)' <=> Leaving(m))
             /\ Owed(m)' = IF m = p THEN Owed(m) \ {conn[r]} ELSE Owed(m)
  <2>1. (InRing(m)' <=> InRing(m)) /\ (Leaving(m)' <=> Leaving(m)) /\ (Claimed' <=> Claimed)
    BY <1>1 DEF InRing, Leaving, Claimed
  <2>2. index_of(m) \in Slots
    BY <1>5
  <2>3. CASE m = p
    <3>1. p # wt /\ ~Leaving(p)
      BY <1>4, <1>5, <1>6 DEF InRing, Leaving, Claimed
    <3>2. rc'[i].bits = rc[i].bits \ {conn[r]}
      BY <1>1, <1>5, <1>6
    <3> QED
      BY <1>1, <1>4, <2>1, <2>3, <3>1, <3>2 DEF Owed, i
  <2>4. CASE m # p
    <3>1. InRing(m) \/ (m = wt /\ Claimed) => index_of(m) # i
      BY <1>4, <1>5, <1>6, <2>4, InRingApart DEF i
    <3>2. InRing(m) \/ (m = wt /\ Claimed) => rc'[index_of(m)] = rc[index_of(m)]
      BY <1>1, <1>5, <2>2, <3>1
    <3> QED
      BY <1>1, <2>1, <2>4, <3>2 DEF Owed
  <2> QED
    BY <2>1, <2>3, <2>4
<1> QED
  BY <1>4, <1>6, <1>7, <1>8 DEF p

-----------------------------------------------------------------------------
(***************************************************************************)
(* The ring while receivers come and go in quiet moments.                  *)
(***************************************************************************)

LEMMA QuietInit == Init => QuietInv
<1> SUFFICES ASSUME Init PROVE QuietInv
  OBVIOUS
<1>1. IInv /\ TypeOK
  BY InvInit DEF IInv
<1>2. /\ wt = 0 /\ wpc = "idle" /\ RingSlots \in Nat \ {0} /\ ~Claimed
      /\ rc = [i \in Slots |-> [bits |-> {}, ep |-> 0]] /\ data = [i \in Slots |-> NoMsg]
      /\ rpc = [r \in Readers |-> IF r \in Static THEN "idle" ELSE "off"]
      /\ cc = {conn[r] : r \in Static}
  BY RingAssumption DEF Init, Claimed
<1>3. MemberOK
  <2>1. {s \in Readers : rpc[s] # "off"} = Static
    BY <1>2 DEF Readers
  <2>2. \A r \in Readers : rpc[r] = "off" => conn[r] = NoBit
    BY <1>2 DEF Init
  <2> QED
    BY <1>2, <2>1, <2>2 DEF MemberOK
<1>4. SendOK
  BY <1>2, RingAssumption DEF SendOK
<1>5. \A m \in Int : Owed(m) = {}
  <2> SUFFICES ASSUME NEW m \in Int PROVE Owed(m) = {}
    OBVIOUS
  <2>1. rc[index_of(m)].bits = {}
    BY <1>1, <1>2, RingTypes
  <2> QED
    BY <1>2, <2>1 DEF Owed, Leaving
<1>6. \A m \in Nat : ~InRing(m) /\ ~Leaving(m)
  BY <1>2 DEF InRing, Leaving
<1>7. SlotsOK
  BY <1>2, <1>6 DEF SlotsOK
<1>8. OwedOK
  BY <1>5 DEF OwedOK
<1>9. \A r \in Readers : AwaitsOK(r) /\ StandsOK(r)
  BY <1>2, <1>5, <1>6 DEF AwaitsOK, StandsOK, Reading
<1> QED
  BY <1>1, <1>3, <1>4, <1>7, <1>8, <1>9 DEF QuietInv

\* Steps of the producer that touch no slot
Still == /\ UNCHANGED <<cc, wt, rc, data, readerVars>>
         /\ UNCHANGED <<wpc, wrc>> \/ (~Claimed /\ ~Claimed')
LEMMA QuietStill ==
  ASSUME QuietInv, IInv', Still, MemberOK', SendOK'
  PROVE  QuietInv'
<1>1. UNCHANGED <<cc, wt, rc, data, rpc, conn, cursor, ep0, got, lag>>
  BY DEF Still, readerVars
<1>2. (Claimed' <=> Claimed) /\ (wpc' = wpc \/ (~Claimed /\ ~Claimed'))
  BY DEF Still, Claimed
<1>3. \A m : Owed(m)' = Owed(m) /\ (InRing(m)' <=> InRing(m)) /\ (Leaving(m)' <=> Leaving(m))
  BY OwedStays DEF Still
<1>4. SlotsOK'
  <2>1. \A p \in Nat : InRing(p) \/ Leaving(p) => data[index_of(p)] = p
    BY DEF QuietInv, SlotsOK
  <2>2. \A i \in Slots : i >= wt =>
          data[i] = NoMsg \/ (i = wt /\ wpc = "write" /\ data[i] = Torn) \/ (i = wt /\ wpc = "advance")
    BY DEF QuietInv, SlotsOK
  <2>3. wpc # wpc' => wpc \notin {"write", "advance"}
    BY <1>2 DEF Claimed
  <2> QED
    BY <1>1, <1>3, <2>1, <2>2, <2>3 DEF SlotsOK
<1>5. OwedOK'
  BY <1>1, <1>3 DEF QuietInv, OwedOK
<1>6. ASSUME NEW r \in Readers
      PROVE  (AwaitsOK(r) /\ StandsOK(r))'
  <2>1. AwaitsOK(r) /\ StandsOK(r)
    BY DEF QuietInv
  <2>2. (Connected(r)' <=> Connected(r)) /\ (Reading(r)' <=> Reading(r)) /\ PopSlot(r)' = PopSlot(r)
        /\ \A m : Awaits(r, m)' <=> Awaits(r, m)
    BY <1>1 DEF Connected, Reading, PopSlot, Awaits
  <2>3. AwaitsOK(r)'
    BY <1>1, <1>2, <1>3, <2>1, <2>2 DEF AwaitsOK
  <2>4. StandsOK(r)'
    BY <1>1, <1>3, <2>1, <2>2 DEF StandsOK
  <2> QED
    BY <2>3, <2>4
<1> QED
  BY <1>4, <1>5, <1>6 DEF QuietInv

\* Nobody joins during a send.
LEMMA MembersStay ==
  ASSUME MemberOK, QuietMembership, UNCHANGED <<cc, readerVars>>
  PROVE  MemberOK'
BY DEF MemberOK, QuietMembership, readerVars

Local ==
  \/ \E op \in Ops : SendStart(op)
  \/ GenPush \/ PublishLoan \/ DiscardLoan \/ PushLoad \/ WaitRetry \/ WaitTimeout \/ ForceLoad
  \/ (PushCas \/ ForceCas) /\ wpc' # "prep"

LEMMA LocalStill ==
  ASSUME Local
  PROVE  Still /\ ~Claimed /\ ~Claimed'
<1>1. CASE (PushCas \/ ForceCas) /\ wpc' # "prep"
  BY <1>1 DEF PushCas, ForceCas, ClaimSlot, Still, Claimed
<1>2. CASE \E op \in Ops : SendStart(op)
  BY <1>2 DEF SendStart, Still, Claimed
<1>3. CASE GenPush \/ PublishLoan \/ DiscardLoan \/ PushLoad \/ WaitRetry \/ WaitTimeout \/ ForceLoad
  BY <1>3 DEF GenPush, PublishLoan, DiscardLoan, PushLoad, WaitRetry, WaitTimeout, ForceLoad,
              Still, Claimed
<1> QED
  BY <1>1, <1>2, <1>3 DEF Local

LEMMA QuietLocal ==
  ASSUME QuietInv, IInv', QuietMembership, Local
  PROVE  QuietInv'
<1>1. Still
  BY LocalStill
<1>2. MemberOK'
  BY <1>1, MembersStay DEF QuietInv, Still
<1>3. SendOK'
  <2>1. SendOK /\ cc' = cc /\ wt' = wt /\ wt \in Nat /\ MaxWt \in Nat
    BY <1>1, RingAssumption DEF Still, QuietInv, IInv, TypeOK
  <2>2. CASE (PushCas \/ ForceCas) /\ wpc' # "prep"
    BY <2>1, <2>2 DEF PushCas, ForceCas, ClaimSlot, SendOK
  <2>3. CASE \E op \in Ops : SendStart(op)
    BY <2>1, <2>3 DEF SendStart, SendOK
  <2>4. CASE GenPush \/ PublishLoan \/ DiscardLoan \/ WaitRetry \/ WaitTimeout
    BY <2>1, <2>4 DEF GenPush, PublishLoan, DiscardLoan, WaitRetry, WaitTimeout, SendOK
  <2>5. CASE PushLoad \/ ForceLoad
    BY <2>1, <2>5 DEF PushLoad, ForceLoad, SendOK, Full
  <2> QED
    BY <2>2, <2>3, <2>4, <2>5 DEF Local
<1> QED
  BY <1>1, <1>2, <1>3, QuietStill

\* The slot is taken for the next message: owed to all who are connected.
LEMMA QuietClaim ==
  ASSUME QuietInv, IInv', NeverLapped', QuietMembership, Claims
  PROVE  QuietInv'
<1> DEFINE i == index_of(wt)
<1>1. /\ ~Claimed /\ Claimed' /\ wpc' = "prep" /\ UNCHANGED <<cc, wt, epoch, data, wrc, readerVars>>
      /\ wcc = cc /\ cc # {} /\ rc' = [rc EXCEPT ![i] = [bits |-> wcc, ep |-> epoch]]
      /\ wt <= MaxWt /\ wt < MaxWt
  BY DEF Claims, PushCas, ForceCas, ClaimSlot, Claimed, QuietInv, SendOK
<1>2. TypeOK
  BY DEF QuietInv, IInv
<1>3. wt \in Nat /\ RingSlots \in Nat \ {0} /\ i \in Slots /\ rc \in [Slots -> Rc]
  BY <1>2, RingTypes
<1> HIDE DEF i
<1>4. \A m \in Int : /\ Owed(m)' = IF m = wt THEN cc ELSE Owed(m)
                     /\ ((InRing(m)' \/ Leaving(m)') <=> InRing(m)) /\ (Leaving(m)' <=> m = wt - RingSlots)
  BY <1>1, <1>2, OwedClaimed
<1>5. MemberOK'
  BY <1>1, MembersStay DEF QuietInv
<1>6. SendOK'
  BY <1>1 DEF SendOK
<1>7. SlotsOK'
  <2>1. \A p \in Nat : (InRing(p) \/ Leaving(p))' => data'[index_of(p)] = p
    <3> SUFFICES ASSUME NEW p \in Nat, InRing(p)' \/ Leaving(p)' PROVE data'[index_of(p)] = p
      OBVIOUS
    <3>1. InRing(p)
      BY <1>4
    <3>2. data[index_of(p)] = p
      BY <3>1 DEF QuietInv, SlotsOK
    <3> QED
      BY <1>1, <3>2
  <2>2. \A j \in Slots : j >= wt => data[j] = NoMsg
    BY <1>1 DEF QuietInv, SlotsOK, Claimed
  <2> QED
    BY <1>1, <2>1, <2>2 DEF SlotsOK
<1>8. OwedOK'
  BY <1>1, <1>4, <1>5 DEF QuietInv, OwedOK, MemberOK
<1>9. ASSUME NEW r \in Readers
      PROVE  (AwaitsOK(r) /\ StandsOK(r))'
  <2>1. /\ AwaitsOK(r) /\ StandsOK(r) /\ cursor[r] \in Nat /\ cursor[r] <= wt
        /\ UNCHANGED <<rpc, conn, cursor, ep0, got, lag>>
    BY <1>1, <1>2, RingTypes DEF QuietInv, readerVars
  <2>2. (Connected(r)' <=> Connected(r)) /\ (Reading(r)' <=> Reading(r)) /\ PopSlot(r)' = PopSlot(r)
        /\ \A m : Awaits(r, m)' <=> Awaits(r, m)
    BY <2>1 DEF Connected, Reading, PopSlot, Awaits
  <2>3. AwaitsOK(r)'
    <3> SUFFICES ASSUME Connected(r) PROVE AwaitsOK(r)'
      BY <2>2 DEF AwaitsOK
    <3>1. conn[r] \in cc /\ Awaits(r, wt)
      BY <2>1, <1>1 DEF QuietInv, MemberOK, Connected, Awaits
    <3>2. \A m \in Int : conn'[r] \in Owed(m)' => Leaving(m)' \/ Awaits(r, m)'
      <4> SUFFICES ASSUME NEW m \in Int, conn'[r] \in Owed(m)' PROVE Leaving(m)' \/ Awaits(r, m)'
        OBVIOUS
      <4>1. CASE m = wt
        BY <3>1, <4>1, <2>2
      <4>2. CASE m # wt
        <5>1. conn[r] \in Owed(m)
          BY <1>4, <2>1, <4>2
        <5>2. Leaving(m) \/ Awaits(r, m)
          BY <2>1, <5>1 DEF AwaitsOK
        <5>3. ~Leaving(m)
          BY <1>1 DEF Leaving, Claimed
        <5> QED
          BY <2>2, <5>2, <5>3
      <4> QED
        BY <4>1, <4>2
    <3>3. \A m \in Nat : (InRing(m) \/ Leaving(m))' /\ Awaits(r, m)' => conn'[r] \in Owed(m)'
      <4> SUFFICES ASSUME NEW m \in Nat, InRing(m)' \/ Leaving(m)', Awaits(r, m)'
                   PROVE  conn'[r] \in Owed(m)'
        OBVIOUS
      <4>1. InRing(m) /\ Awaits(r, m) /\ m # wt
        BY <1>3, <1>4, <2>2 DEF InRing
      <4> QED
        BY <1>4, <2>1, <4>1 DEF AwaitsOK
    <3>4. conn'[r] \in rc'[index_of(wt)].bits
      BY <1>1, <1>3, <2>1, <3>1 DEF i
    <3> QED
      BY <1>1, <3>2, <3>3, <3>4 DEF AwaitsOK
  <2>4. StandsOK(r)'
    <3> SUFFICES ASSUME Reading(r) PROVE StandsOK(r)'
      BY <2>2 DEF StandsOK
    <3> DEFINE p == cursor[r] - 1
    <3>1. p \in Int /\ PopSlot(r) = index_of(p) /\ PopSlot(r) \in Slots
      BY <2>1, <1>2, RingTypes DEF PopSlot
    <3>2. ReadOKBy(r)'
      BY DEF IInv, ReadOK
    <3>3. CASE PopSlot(r) = i
      <4>1. lag'[r] < RingSlots /\ Reading(r)' /\ index_of(wt)' = PopSlot(r)'
        BY <1>1, <2>2, <3>3 DEF NeverLapped, i
      <4>2. (rc[PopSlot(r)].ep # ep0[r])'
        BY <1>1, <3>2, <4>1 DEF ReadOKBy
      <4>3. ~InRing(p)'
        <5>1. ASSUME InRing(p)' PROVE wt - RingSlots < p /\ p < wt
          BY <1>1, <1>3, <2>1, <3>1, <5>1 DEF InRing
        <5> QED
          BY <1>3, <2>1, <3>1, <3>3, <5>1, IndexNeq DEF i
      <4> QED
        BY <2>1, <4>2, <4>3 DEF StandsOK
    <3>4. CASE PopSlot(r) # i
      <4>1. rc'[PopSlot(r)] = rc[PopSlot(r)]
        BY <1>1, <1>3, <3>1, <3>4
      <4>2. index_of(wt - RingSlots) = i
        BY <1>2, RingTypes DEF i
      <4>3. p # wt - RingSlots
        BY <3>1, <3>4, <4>2
      <4>4. InRing(p)' <=> InRing(p)
        BY <1>1, <2>1, <4>3 DEF InRing
      <4>5. rc'[PopSlot(r)'].ep = rc[PopSlot(r)].ep /\ ep0'[r] = ep0[r] /\ cursor'[r] = cursor[r]
        BY <2>1, <2>2, <4>1
      <4> QED
        BY <2>1, <4>4, <4>5 DEF StandsOK
    <3> QED
      BY <3>3, <3>4
  <2> QED
    BY <2>3, <2>4
<1> QED
  BY <1>5, <1>6, <1>7, <1>8, <1>9 DEF QuietInv

\* Small positions lie in the slot of their number.
LEMMA IndexSmall ==
  ASSUME NEW m \in Slots
  PROVE  m \in Int /\ index_of(m) = m
<1> DEFINE N == RingSlots
           k == m \div N
<1>1. /\ N \in Nat \ {0} /\ k \in Int /\ m \in Int /\ 0 <= m /\ m < N
      /\ m % N \in 0 .. N - 1 /\ m = N * k + (m % N)
  BY RingAssumption, DivMod DEF Slots
<1> HIDE DEF k
<1>2. CASE k <= -1
  <2>1. N * k - N * (-1) = N * (k - (-1))
    BY <1>1, MulDistributes
  <2>2. N * (k - (-1)) <= 0
    BY <1>1, <1>2, MulGrows
  <2> QED
    BY <1>1, <2>1, <2>2
<1>3. CASE k >= 1
  <2>1. N * k >= N
    BY <1>1, <1>3, MulGrows
  <2> QED
    BY <1>1, <2>1
<1>4. CASE k = 0
  BY <1>1, <1>4 DEF index_of
<1> QED
  BY <1>1, <1>2, <1>3, <1>4

\* push_sniffer: nobody is connected, and nothing is owed.
LEMMA QuietSniff ==
  ASSUME QuietInv, IInv', QuietMembership, PushSniffer
  PROVE  QuietInv'
<1> DEFINE i == index_of(wt)
<1>1. /\ wpc = "sniff" /\ wpc' = "prep" /\ UNCHANGED <<cc, wt, data, readerVars>> /\ cc = {}
      /\ rc' = [rc EXCEPT ![i] = [bits |-> {}, ep |-> epoch + 1]] /\ wrc'.bits = {}
      /\ ~Claimed /\ Claimed' /\ wt <= MaxWt /\ wt < MaxWt
  BY DEF PushSniffer, Claimed, QuietInv, SendOK
<1>2. TypeOK
  BY DEF QuietInv, IInv
<1>3. wt \in Nat /\ RingSlots \in Nat \ {0} /\ i \in Slots /\ rc \in [Slots -> Rc]
      /\ \A m \in Int : index_of(m) \in Slots
  BY <1>2, RingTypes
<1> HIDE DEF i
<1>4. \A r \in Readers : rpc[r] = "off"
  BY <1>1 DEF QuietInv, MemberOK
<1>5. ASSUME NEW m \in Int
      PROVE  Owed(m)' = {} /\ (InRing(m)' \/ Leaving(m)' => InRing(m))
  <2>1. InRing(m)' <=> InRing(m) /\ m # wt - RingSlots
    BY <1>1, <1>3 DEF InRing
  <2>2. Leaving(m)' <=> m = wt - RingSlots
    BY <1>1 DEF Leaving
  <2>3. wt - RingSlots < wt
    BY <1>3
  <2>4. InRing(m)' \/ Leaving(m)' => InRing(m)
    BY <1>1, <1>3, <2>1, <2>2, <2>3 DEF InRing
  <2>5. CASE m = wt
    <3>1. rc'[i].bits = {}
      BY <1>1, <1>3
    <3> QED
      BY <1>1, <2>4, <2>5, <3>1 DEF Owed, i
  <2>6. CASE m # wt /\ InRing(m)'
    <3>1. m < wt /\ wt - RingSlots < m
      BY <1>1, <1>3, <2>6 DEF InRing
    <3>2. index_of(m) # i
      BY <1>3, <3>1, IndexNeq DEF i
    <3>3. rc'[index_of(m)].bits = rc[index_of(m)].bits
      BY <1>1, <1>3, <3>2
    <3>4. Owed(m) = rc[index_of(m)].bits
      BY <1>1, <2>4, <2>6 DEF Owed, Leaving
    <3>5. Owed(m) = {}
      BY <1>1 DEF QuietInv, OwedOK
    <3> QED
      BY <1>1, <2>4, <2>6, <3>3, <3>4, <3>5 DEF Owed
  <2>7. CASE m # wt /\ ~InRing(m)'
    BY <1>1, <2>4, <2>7 DEF Owed
  <2> QED
    BY <2>4, <2>5, <2>6, <2>7
<1>6. MemberOK'
  BY <1>1, MembersStay DEF QuietInv
<1>7. SendOK'
  BY <1>1 DEF SendOK
<1>8. SlotsOK'
  <2>1. \A p \in Nat : (InRing(p) \/ Leaving(p))' => data'[index_of(p)] = p
    <3> SUFFICES ASSUME NEW p \in Nat, InRing(p)' \/ Leaving(p)' PROVE data'[index_of(p)] = p
      OBVIOUS
    <3>1. InRing(p)
      BY <1>5
    <3>2. data[index_of(p)] = p
      BY <3>1 DEF QuietInv, SlotsOK
    <3> QED
      BY <1>1, <3>2
  <2>2. \A j \in Slots : j >= wt => data[j] = NoMsg
    BY <1>1 DEF QuietInv, SlotsOK
  <2> QED
    BY <1>1, <2>1, <2>2 DEF SlotsOK
<1>9. OwedOK'
  BY <1>5 DEF OwedOK
<1>10. \A r \in Readers : (AwaitsOK(r) /\ StandsOK(r))'
  BY <1>1, <1>4 DEF readerVars, AwaitsOK, StandsOK, Connected, Reading
<1> QED
  BY <1>6, <1>7, <1>8, <1>9, <1>10 DEF QuietInv

LEMMA QuietWriteBegin ==
  ASSUME QuietInv, IInv', QuietMembership, WriteBegin
  PROVE  QuietInv'
<1> DEFINE i == index_of(wt)
<1>1. /\ wpc = "prep" /\ wpc' = "write" /\ UNCHANGED <<cc, wt, rc, readerVars>>
      /\ data' = [data EXCEPT ![i] = Torn] /\ Claimed /\ Claimed' /\ wt <= MaxWt /\ wt < MaxWt
  BY DEF WriteBegin, Claimed, QuietInv, SendOK
<1>2. TypeOK
  BY DEF QuietInv, IInv
<1>3. wt \in Nat /\ RingSlots \in Nat \ {0} /\ i \in Slots /\ data \in [Slots -> Int]
      /\ \A m \in Int : index_of(m) \in Slots
  BY <1>2, RingTypes DEF TypeOK
<1>4. \A m \in Int : /\ Owed(m)' = IF m = wt - RingSlots THEN {} ELSE Owed(m)
                     /\ (InRing(m)' <=> InRing(m)) /\ ~Leaving(m)' /\ (Leaving(m) <=> m = wt - RingSlots)
  BY <1>2, OwedCleared
<1>5. MemberOK'
  BY <1>1, MembersStay DEF QuietInv
<1>6. SendOK'
  BY <1>1 DEF SendOK
<1>7. SlotsOK'
  <2>1. ASSUME NEW p \in Nat, InRing(p) PROVE data'[index_of(p)] = p
    <3>1. index_of(p) # index_of(wt)
      BY <1>1, <1>3, <2>1, InRingApart DEF InRing
    <3>2. data[index_of(p)] = p
      BY <2>1 DEF QuietInv, SlotsOK
    <3> QED
      BY <1>1, <1>3, <3>1, <3>2
  <2>2. ASSUME NEW j \in Slots, j >= wt PROVE data'[j] = NoMsg \/ (j = wt /\ data'[j] = Torn)
    <3>1. data[j] = NoMsg
      BY <1>1, <2>2 DEF QuietInv, SlotsOK
    <3>2. CASE j = i
      <4>1. i >= wt /\ wt \in Slots
        BY <1>3, <2>2, <3>2, RingAssumption DEF Slots
      <4>2. i = wt
        BY <4>1, IndexSmall
      <4> QED
        BY <1>1, <1>3, <3>2, <4>2
    <3>3. CASE j # i
      BY <1>1, <1>3, <3>1, <3>3
    <3> QED
      BY <3>2, <3>3
  <2>3. \A p \in Nat : (InRing(p) \/ Leaving(p))' => data'[index_of(p)] = p
    BY <1>4, <2>1
  <2> QED
    BY <1>1, <2>2, <2>3 DEF SlotsOK
<1>8. OwedOK'
  <2>1. \A m \in Int : Owed(m) \subseteq cc
    BY DEF QuietInv, OwedOK
  <2>2. \A r \in Readers : rpc[r] # "joining"
    BY <1>1 DEF QuietInv, MemberOK
  <2> QED
    BY <1>1, <1>4, <2>1, <2>2 DEF OwedOK, readerVars
<1>9. ASSUME NEW r \in Readers
      PROVE  (AwaitsOK(r) /\ StandsOK(r))'
  <2>1. /\ AwaitsOK(r) /\ StandsOK(r) /\ cursor[r] \in Nat
        /\ UNCHANGED <<rpc, conn, cursor, ep0, got, lag>>
    BY <1>1, <1>2, RingTypes DEF QuietInv, readerVars
  <2>2. (Connected(r)' <=> Connected(r)) /\ (Reading(r)' <=> Reading(r)) /\ PopSlot(r)' = PopSlot(r)
        /\ \A m : Awaits(r, m)' <=> Awaits(r, m)
    BY <2>1 DEF Connected, Reading, PopSlot, Awaits
  <2>3. AwaitsOK(r)'
    <3> SUFFICES ASSUME Connected(r) PROVE AwaitsOK(r)'
      BY <2>2 DEF AwaitsOK
    <3>1. \A m \in Int : conn'[r] \in Owed(m)' => Leaving(m)' \/ Awaits(r, m)'
      BY <1>4, <2>1, <2>2 DEF AwaitsOK
    <3>2. \A m \in Nat : (InRing(m) \/ Leaving(m))' /\ Awaits(r, m)' => conn'[r] \in Owed(m)'
      <4> SUFFICES ASSUME NEW m \in Nat, InRing(m)' \/ Leaving(m)', Awaits(r, m)'
                   PROVE  conn'[r] \in Owed(m)'
        OBVIOUS
      <4>1. InRing(m) /\ Awaits(r, m) /\ m # wt - RingSlots
        BY <1>1, <1>4, <2>2 DEF InRing
      <4> QED
        BY <1>4, <2>1, <4>1 DEF AwaitsOK
    <3>3. conn'[r] \in rc'[index_of(wt')].bits
      BY <1>1, <2>1 DEF AwaitsOK
    <3> QED
      BY <3>1, <3>2, <3>3 DEF AwaitsOK
  <2>4. StandsOK(r)'
    <3>1. InRing(cursor[r] - 1)' <=> InRing(cursor[r] - 1)
      BY <1>1, <2>1 DEF InRing
    <3> QED
      BY <1>1, <2>1, <2>2, <3>1 DEF StandsOK
  <2> QED
    BY <2>3, <2>4
<1> QED
  BY <1>5, <1>6, <1>7, <1>8, <1>9 DEF QuietInv

LEMMA QuietWriteEnd ==
  ASSUME QuietInv, IInv', QuietMembership, WriteEnd
  PROVE  QuietInv'
<1> DEFINE i == index_of(wt)
<1>1. /\ wpc = "write" /\ wpc' = "advance" /\ UNCHANGED <<cc, wt, rc, readerVars>>
      /\ data' = [data EXCEPT ![i] = wt] /\ Claimed /\ Claimed' /\ wt <= MaxWt /\ wt < MaxWt
  BY DEF WriteEnd, Claimed, QuietInv, SendOK
<1>2. TypeOK
  BY DEF QuietInv, IInv
<1>3. wt \in Nat /\ RingSlots \in Nat \ {0} /\ i \in Slots /\ data \in [Slots -> Int]
      /\ \A m \in Int : index_of(m) \in Slots
  BY <1>2, RingTypes DEF TypeOK
<1>4. \A m \in Int : Owed(m)' = Owed(m) /\ (InRing(m)' <=> InRing(m)) /\ ~Leaving(m)' /\ ~Leaving(m)
  BY <1>2, OwedWritten
<1>5. MemberOK'
  BY <1>1, MembersStay DEF QuietInv
<1>6. SendOK'
  BY <1>1 DEF SendOK
<1>7. SlotsOK'
  <2>1. ASSUME NEW p \in Nat, InRing(p) PROVE data'[index_of(p)] = p
    <3>1. index_of(p) # index_of(wt)
      BY <1>1, <1>3, <2>1, InRingApart DEF InRing
    <3>2. data[index_of(p)] = p
      BY <2>1 DEF QuietInv, SlotsOK
    <3> QED
      BY <1>1, <1>3, <3>1, <3>2
  <2>2. ASSUME NEW j \in Slots, j >= wt PROVE data'[j] = NoMsg \/ j = wt
    <3>1. data[j] = NoMsg \/ j = wt
      BY <1>1, <2>2 DEF QuietInv, SlotsOK
    <3>2. j = i => j = wt
      <4>1. j = i => i >= wt /\ wt \in Slots
        BY <1>3, <2>2, RingAssumption DEF Slots
      <4> QED
        BY <4>1, IndexSmall
    <3> QED
      BY <1>1, <1>3, <3>1, <3>2
  <2>3. \A p \in Nat : (InRing(p) \/ Leaving(p))' => data'[index_of(p)] = p
    BY <1>4, <2>1
  <2> QED
    BY <1>1, <2>2, <2>3 DEF SlotsOK
<1>8. OwedOK'
  BY <1>1, <1>4 DEF QuietInv, OwedOK, readerVars
<1>9. ASSUME NEW r \in Readers
      PROVE  (AwaitsOK(r) /\ StandsOK(r))'
  <2>1. /\ AwaitsOK(r) /\ StandsOK(r) /\ cursor[r] \in Nat
        /\ UNCHANGED <<rpc, conn, cursor, ep0, got, lag>>
    BY <1>1, <1>2, RingTypes DEF QuietInv, readerVars
  <2>2. (Connected(r)' <=> Connected(r)) /\ (Reading(r)' <=> Reading(r)) /\ PopSlot(r)' = PopSlot(r)
        /\ \A m : Awaits(r, m)' <=> Awaits(r, m)
    BY <2>1 DEF Connected, Reading, PopSlot, Awaits
  <2>3. AwaitsOK(r)'
    BY <1>1, <1>4, <2>1, <2>2 DEF AwaitsOK
  <2>4. StandsOK(r)'
    <3>1. InRing(cursor[r] - 1)' <=> InRing(cursor[r] - 1)
      BY <1>1, <2>1 DEF InRing
    <3> QED
      BY <1>1, <2>1, <2>2, <3>1 DEF StandsOK
  <2> QED
    BY <2>3, <2>4
<1> QED
  BY <1>5, <1>6, <1>7, <1>8, <1>9 DEF QuietInv

LEMMA QuietAdvance ==
  ASSUME QuietInv, IInv', QuietMembership, Advance
  PROVE  QuietInv'
<1>1. /\ wpc = "advance" /\ wpc' = "idle" /\ wt' = wt + 1 /\ UNCHANGED <<cc, rc, data, readerVars>>
      /\ Claimed /\ ~Claimed' /\ wt <= MaxWt /\ wt < MaxWt
  BY DEF Advance, Claimed, QuietInv, SendOK
<1>2. TypeOK
  BY DEF QuietInv, IInv
<1>3. wt \in Nat /\ RingSlots \in Nat \ {0} /\ MaxWt \in Nat
  BY <1>2, RingTypes, RingAssumption
<1>4. \A m \in Int : /\ Owed(m)' = Owed(m) /\ (InRing(m)' <=> InRing(m) \/ m = wt)
                     /\ ~Leaving(m)' /\ ~Leaving(m)
  BY <1>2, OwedPublished
<1>5. MemberOK'
  BY <1>1, MembersStay DEF QuietInv
<1>6. SendOK'
  BY <1>1, <1>3 DEF SendOK
<1>7. SlotsOK'
  <2>1. data[index_of(wt)] = wt
    BY <1>1 DEF QuietInv, IInv, DataOK
  <2>2. \A p \in Nat : (InRing(p) \/ Leaving(p))' => data'[index_of(p)] = p
    BY <1>1, <1>4, <2>1 DEF QuietInv, SlotsOK
  <2>3. \A j \in Slots : j >= wt + 1 => data[j] = NoMsg
    BY <1>1, <1>3, RingAssumption DEF QuietInv, SlotsOK, Slots
  <2> QED
    BY <1>1, <2>2, <2>3 DEF SlotsOK
<1>8. OwedOK'
  BY <1>1, <1>4 DEF QuietInv, OwedOK, readerVars
<1>9. ASSUME NEW r \in Readers
      PROVE  (AwaitsOK(r) /\ StandsOK(r))'
  <2>1. /\ AwaitsOK(r) /\ StandsOK(r) /\ cursor[r] \in Nat /\ cursor[r] <= wt
        /\ UNCHANGED <<rpc, conn, cursor, ep0, got, lag>>
    BY <1>1, <1>2, RingTypes DEF QuietInv, readerVars
  <2>2. (Connected(r)' <=> Connected(r)) /\ (Reading(r)' <=> Reading(r)) /\ PopSlot(r)' = PopSlot(r)
        /\ \A m : Awaits(r, m)' <=> Awaits(r, m)
    BY <2>1 DEF Connected, Reading, PopSlot, Awaits
  <2>3. AwaitsOK(r)'
    <3> SUFFICES ASSUME Connected(r) PROVE AwaitsOK(r)'
      BY <2>2 DEF AwaitsOK
    <3>1. \A m \in Int : conn'[r] \in Owed(m)' => Leaving(m)' \/ Awaits(r, m)'
      BY <1>4, <2>1, <2>2 DEF AwaitsOK
    <3>2. conn[r] \in Owed(wt)
      BY <1>1, <2>1 DEF AwaitsOK, Owed
    <3>3. \A m \in Nat : (InRing(m) \/ Leaving(m))' /\ Awaits(r, m)' => conn'[r] \in Owed(m)'
      BY <1>4, <2>1, <2>2, <3>2 DEF AwaitsOK
    <3> QED
      BY <1>1, <3>1, <3>3 DEF AwaitsOK
  <2>4. StandsOK(r)'
    <3>1. InRing(cursor[r] - 1)' <=> InRing(cursor[r] - 1)
      BY <1>1, <1>3, <2>1 DEF InRing
    <3> QED
      BY <1>1, <2>1, <2>2, <3>1 DEF StandsOK
  <2> QED
    BY <2>3, <2>4
<1> QED
  BY <1>5, <1>6, <1>7, <1>8, <1>9 DEF QuietInv

\* A receiver moves: nothing changes in the ring, nor for the others.
Moves(r) ==
  /\ UNCHANGED <<cc, wt, rc, data, writerVars, conn>>
  /\ rpc[r] \notin {"off", "joining"} /\ rpc'[r] \notin {"off", "joining"}
  /\ \A s \in Readers \ {r} : rpc'[s] = rpc[s] /\ cursor'[s] = cursor[s] /\ ep0'[s] = ep0[s]
LEMMA QuietMoves ==
  ASSUME QuietInv, IInv', NEW r \in Readers, Moves(r), AwaitsOK(r)', StandsOK(r)'
  PROVE  QuietInv'
<1>1. /\ UNCHANGED <<cc, wt, rc, data, wpc, wcc, wrc, conn>> /\ (Claimed' <=> Claimed)
      /\ \A s \in Readers : /\ rpc'[s] = "off" <=> rpc[s] = "off"
                            /\ rpc'[s] = "joining" <=> rpc[s] = "joining"
  BY DEF Moves, writerVars, Claimed
<1>2. \A m : Owed(m)' = Owed(m) /\ (InRing(m)' <=> InRing(m)) /\ (Leaving(m)' <=> Leaving(m))
  BY <1>1, OwedStays
<1>3. MemberOK'
  <2>1. {s \in Readers : rpc'[s] # "off"} = {s \in Readers : rpc[s] # "off"}
    BY <1>1
  <2> QED
    BY <1>1, <2>1 DEF QuietInv, MemberOK
<1>4. SendOK'
  BY <1>1 DEF QuietInv, SendOK
<1>5. SlotsOK'
  BY <1>1, <1>2 DEF QuietInv, SlotsOK
<1>6. OwedOK'
  BY <1>1, <1>2 DEF QuietInv, OwedOK
<1>7. ASSUME NEW s \in Readers
      PROVE  (AwaitsOK(s) /\ StandsOK(s))'
  <2>1. CASE s = r
    BY <2>1
  <2>2. CASE s # r
    <3>1. rpc'[s] = rpc[s] /\ cursor'[s] = cursor[s] /\ ep0'[s] = ep0[s] /\ AwaitsOK(s) /\ StandsOK(s)
      BY <2>2 DEF Moves, QuietInv
    <3>2. (Connected(s)' <=> Connected(s)) /\ (Reading(s)' <=> Reading(s)) /\ PopSlot(s)' = PopSlot(s)
          /\ \A m : Awaits(s, m)' <=> Awaits(s, m)
      BY <3>1 DEF Connected, Reading, PopSlot, Awaits
    <3>3. AwaitsOK(s)'
      BY <1>1, <1>2, <3>1, <3>2 DEF AwaitsOK
    <3>4. StandsOK(s)'
      BY <1>1, <1>2, <3>1, <3>2 DEF StandsOK
    <3> QED
      BY <3>3, <3>4
  <2> QED
    BY <2>1, <2>2
<1> QED
  BY <1>3, <1>4, <1>5, <1>6, <1>7 DEF QuietInv

\* What a receiver sees of its own steps
LEMMA MovesStay ==
  ASSUME NEW r \in Readers, Moves(r), NEW m
  PROVE  /\ Owed(m)' = Owed(m) /\ (InRing(m)' <=> InRing(m)) /\ (Leaving(m)' <=> Leaving(m))
         /\ (Claimed' <=> Claimed) /\ Connected(r) /\ Connected(r)' /\ conn'[r] = conn[r]
         /\ rc' = rc /\ wt' = wt
BY OwedStays DEF Moves, writerVars, Claimed, Connected

LEMMA QuietEnter ==
  ASSUME QuietInv, IInv', NEW r \in Readers, PopEnter(r)
  PROVE  QuietInv'
<1>1. TypeOK /\ AwaitsOK(r)
  BY DEF QuietInv, IInv
<1>2. wt \in Nat /\ RingSlots \in Nat \ {0} /\ cursor[r] \in Nat /\ cursor[r] <= wt
      /\ cursor \in [Readers -> Nat] /\ rpc \in [Readers -> ReaderPC]
  BY <1>1, RingTypes DEF TypeOK
<1>3. /\ Moves(r) /\ rpc[r] = "idle" /\ rpc'[r] = "loop"
      /\ cursor'[r] = IF wt - cursor[r] > RingSlots THEN wt - RingSlots ELSE cursor[r]
  BY <1>2 DEF PopEnter, Moves
<1>4. ~Reading(r) /\ ~Reading(r)' /\ cursor[r] <= cursor'[r]
  BY <1>2, <1>3 DEF Reading
<1>5. \A m \in Int : Owed(m) # {} => wt - RingSlots <= m
  BY <1>2 DEF Owed, InRing, Leaving
<1>6. \A m \in Int : conn'[r] \in Owed(m)' => Leaving(m)' \/ Awaits(r, m)'
  <2> SUFFICES ASSUME NEW m \in Int, conn'[r] \in Owed(m)', ~Leaving(m)' PROVE Awaits(r, m)'
    OBVIOUS
  <2>1. conn[r] \in Owed(m) /\ ~Leaving(m)
    BY <1>3, MovesStay
  <2>2. cursor[r] <= m /\ wt - RingSlots <= m
    BY <1>1, <1>3, <1>4, <1>5, <2>1, MovesStay DEF AwaitsOK, Awaits
  <2> QED
    BY <1>2, <1>3, <2>2 DEF Awaits
<1>7. \A m \in Nat : (InRing(m) \/ Leaving(m))' /\ Awaits(r, m)' => conn'[r] \in Owed(m)'
  <2> SUFFICES ASSUME NEW m \in Nat, InRing(m)' \/ Leaving(m)', Awaits(r, m)'
               PROVE  conn'[r] \in Owed(m)'
    OBVIOUS
  <2>1. InRing(m) \/ Leaving(m)
    BY <1>3, MovesStay
  <2>2. cursor'[r] <= m
    BY <1>4 DEF Awaits
  <2>3. Awaits(r, m)
    BY <1>2, <1>3, <1>4, <2>2 DEF Awaits
  <2> QED
    BY <1>1, <1>3, <2>1, <2>3, MovesStay DEF AwaitsOK
<1>8. AwaitsOK(r)'
  BY <1>1, <1>3, <1>6, <1>7, MovesStay DEF AwaitsOK
<1>9. StandsOK(r)'
  BY <1>4 DEF StandsOK
<1> QED
  BY <1>3, <1>8, <1>9, QuietMoves

LEMMA QuietEmptyCopy ==
  ASSUME QuietInv, IInv', NEW r \in Readers, PopEmpty(r) \/ PopCopy(r)
  PROVE  QuietInv'
<1>1. TypeOK /\ AwaitsOK(r) /\ StandsOK(r)
  BY DEF QuietInv, IInv
<1>2. /\ Moves(r) /\ cursor'[r] = cursor[r] /\ ep0'[r] = ep0[r]
      /\ rpc[r] \in {"loop", "copy"} /\ rpc'[r] = IF rpc[r] = "loop" THEN "idle" ELSE "clear"
  <2>1. rpc \in [Readers -> ReaderPC]
    BY <1>1 DEF TypeOK
  <2>2. CASE PopEmpty(r)
    BY <2>1, <2>2 DEF PopEmpty, Moves
  <2>3. CASE PopCopy(r)
    BY <2>1, <2>3 DEF PopCopy, Moves
  <2> QED
    BY <2>2, <2>3
<1>3. (Reading(r)' <=> Reading(r)) /\ PopSlot(r)' = PopSlot(r) /\ \A m : Awaits(r, m)' <=> Awaits(r, m)
  BY <1>2 DEF Reading, PopSlot, Awaits
<1>4. AwaitsOK(r)'
  BY <1>1, <1>2, <1>3, MovesStay DEF AwaitsOK
<1>5. StandsOK(r)'
  BY <1>1, <1>2, <1>3, MovesStay DEF StandsOK
<1> QED
  BY <1>2, <1>4, <1>5, QuietMoves

LEMMA QuietLoad ==
  ASSUME QuietInv, IInv', NeverLapped', NEW r \in Readers, PopLoad(r)
  PROVE  QuietInv'
<1> DEFINE p == cursor[r]
           i == index_of(p)
<1>1. TypeOK /\ AwaitsOK(r)
  BY DEF QuietInv, IInv
<1>2. wt \in Nat /\ RingSlots \in Nat \ {0} /\ p \in Nat /\ p <= wt
      /\ cursor \in [Readers -> Nat] /\ rpc \in [Readers -> ReaderPC]
      /\ ep0 \in [Readers -> Nat] /\ lag \in [Readers -> Int]
  BY <1>1, RingTypes DEF TypeOK
<1>3. /\ Moves(r) /\ rpc[r] = "loop" /\ p < wt /\ cursor'[r] = p + 1
      /\ \/ conn[r] \notin rc[i].bits /\ rpc'[r] = "loop"
         \/ conn[r] \in rc[i].bits /\ rpc'[r] = "copy" /\ ep0'[r] = rc[i].ep /\ lag'[r] = wt - p
  BY <1>2 DEF PopLoad, Moves
<1>4. ~Reading(r) /\ (Reading(r)' <=> rpc'[r] = "copy")
  BY <1>3 DEF Reading
<1>5. \A m \in Int : Awaits(r, m) <=> p <= m
  BY <1>4 DEF Awaits
<1>6. \A m \in Int : Awaits(r, m)' <=> p < m \/ (rpc'[r] = "copy" /\ m = p)
  BY <1>2, <1>3, <1>4 DEF Awaits
<1> HIDE DEF p, i
<1>7. rpc'[r] = "loop" => conn[r] \notin Owed(p) \/ Leaving(p)
  <2>1. rpc'[r] = "loop" => conn[r] \notin rc[i].bits
    BY <1>3
  <2>2. p # wt
    BY <1>2, <1>3
  <2> QED
    BY <2>1, <2>2 DEF Owed, i
<1>8. \A m \in Int : conn'[r] \in Owed(m)' => Leaving(m)' \/ Awaits(r, m)'
  <2> SUFFICES ASSUME NEW m \in Int, conn'[r] \in Owed(m)', ~Leaving(m)' PROVE Awaits(r, m)'
    OBVIOUS
  <2>1. conn[r] \in Owed(m) /\ ~Leaving(m)
    BY <1>3, MovesStay
  <2>2. p <= m
    BY <1>1, <1>3, <1>5, <2>1, MovesStay DEF AwaitsOK
  <2>3. m = p => rpc'[r] = "copy"
    BY <1>3, <1>7, <2>1
  <2> QED
    BY <1>2, <1>6, <2>2, <2>3
<1>9. \A m \in Nat : (InRing(m) \/ Leaving(m))' /\ Awaits(r, m)' => conn'[r] \in Owed(m)'
  <2> SUFFICES ASSUME NEW m \in Nat, InRing(m)' \/ Leaving(m)', Awaits(r, m)'
               PROVE  conn'[r] \in Owed(m)'
    OBVIOUS
  <2>1. InRing(m) \/ Leaving(m)
    BY <1>3, MovesStay
  <2>2. Awaits(r, m)
    BY <1>2, <1>5, <1>6
  <2> QED
    BY <1>1, <1>3, <2>1, <2>2, MovesStay DEF AwaitsOK
<1>10. AwaitsOK(r)'
  BY <1>1, <1>3, <1>8, <1>9, MovesStay DEF AwaitsOK
<1>11. StandsOK(r)'
  <2> SUFFICES ASSUME rpc'[r] = "copy" PROVE StandsOK(r)'
    BY <1>4 DEF StandsOK
  <2>1. wt - p < RingSlots /\ ep0'[r] = rc[i].ep
    BY <1>3 DEF NeverLapped
  <2>2. wt - RingSlots < p
    BY <1>2, <2>1
  <2>3. cursor'[r] - 1 = p /\ rc' = rc /\ wt' = wt
    BY <1>2, <1>3 DEF Moves
  <2>4. InRing(cursor[r] - 1)'
    BY <1>2, <1>3, <2>2, <2>3 DEF InRing
  <2>5. (rc[PopSlot(r)].ep = ep0[r])'
    BY <2>1, <2>3 DEF PopSlot, i
  <2> QED
    BY <2>4, <2>5 DEF StandsOK
<1> QED
  BY <1>3, <1>10, <1>11, QuietMoves

LEMMA QuietDiscard ==
  ASSUME QuietInv, IInv', NEW r \in Readers, PopDiscard(r)
  PROVE  QuietInv'
<1> DEFINE p == cursor[r] - 1
<1>1. TypeOK /\ AwaitsOK(r) /\ StandsOK(r)
  BY DEF QuietInv, IInv
<1>2. wt \in Nat /\ cursor[r] \in Nat /\ cursor[r] <= wt /\ rpc \in [Readers -> ReaderPC]
  BY <1>1, RingTypes DEF TypeOK
<1>3. /\ Moves(r) /\ rpc[r] = "clear" /\ rpc'[r] = "loop" /\ cursor'[r] = cursor[r]
      /\ rc[PopSlot(r)].ep # ep0[r]
  BY <1>2 DEF PopDiscard, Moves, Delivers
<1>4. Reading(r) /\ ~Reading(r)' /\ ~InRing(p)
  BY <1>1, <1>3 DEF Reading, StandsOK
<1>5. Owed(p) = {} \/ Leaving(p)
  BY <1>2, <1>4 DEF Owed
<1>6. \A m \in Int : Awaits(r, m) <=> cursor[r] <= m \/ m = p
  BY <1>2, <1>4 DEF Awaits
<1>7. \A m \in Int : Awaits(r, m)' <=> cursor[r] <= m
  BY <1>3, <1>4 DEF Awaits
<1> HIDE DEF p
<1>8. \A m \in Int : conn'[r] \in Owed(m)' => Leaving(m)' \/ Awaits(r, m)'
  <2> SUFFICES ASSUME NEW m \in Int, conn'[r] \in Owed(m)', ~Leaving(m)' PROVE Awaits(r, m)'
    OBVIOUS
  <2>1. conn[r] \in Owed(m) /\ ~Leaving(m)
    BY <1>3, MovesStay
  <2>2. Awaits(r, m) /\ m # p
    BY <1>1, <1>3, <1>5, <2>1, MovesStay DEF AwaitsOK
  <2> QED
    BY <1>6, <1>7, <2>2
<1>9. \A m \in Nat : (InRing(m) \/ Leaving(m))' /\ Awaits(r, m)' => conn'[r] \in Owed(m)'
  <2> SUFFICES ASSUME NEW m \in Nat, InRing(m)' \/ Leaving(m)', Awaits(r, m)'
               PROVE  conn'[r] \in Owed(m)'
    OBVIOUS
  <2>1. (InRing(m) \/ Leaving(m)) /\ Awaits(r, m)
    BY <1>3, <1>6, <1>7, MovesStay
  <2> QED
    BY <1>1, <1>3, <2>1, MovesStay DEF AwaitsOK
<1>10. AwaitsOK(r)'
  BY <1>1, <1>3, <1>8, <1>9, MovesStay DEF AwaitsOK
<1>11. StandsOK(r)'
  BY <1>4 DEF StandsOK
<1> QED
  BY <1>3, <1>10, <1>11, QuietMoves

LEMMA QuietDeliver ==
  ASSUME QuietInv, IInv', NeverLapped, NEW r \in Readers, PopDeliver(r)
  PROVE  QuietInv'
<1> DEFINE p == cursor[r] - 1
           i == index_of(p)
<1>1. TypeOK /\ ConnectedStay
  BY DEF QuietInv, IInv
<1>2. /\ wt \in Nat /\ RingSlots \in Nat \ {0} /\ rc \in [Slots -> Rc] /\ rpc \in [Readers -> ReaderPC]
      /\ \A m \in Int : index_of(m) \in Slots
      /\ \A s \in Readers : cursor[s] \in Nat
  BY <1>1, RingTypes DEF TypeOK
<1>3. /\ UNCHANGED <<cc, wt, data, wpc, wcc, wrc, conn, cursor, ep0, lag>> /\ rpc[r] = "clear"
      /\ rc' = [rc EXCEPT ![i] = [bits |-> rc[i].bits \ {conn[r]}, ep |-> rc[i].ep]]
      /\ rpc' = [rpc EXCEPT ![r] = "idle"]
  BY DEF PopDeliver, PopSlot, writerVars, Delivers
<1>4. /\ InRing(p) /\ p \in Nat /\ conn[r] \in Owed(p)
      /\ \A m \in Int : /\ (InRing(m)' <=> InRing(m)) /\ (Leaving(m)' <=> Leaving(m))
                        /\ Owed(m)' = IF m = p THEN Owed(m) \ {conn[r]} ELSE Owed(m)
  BY OwedTaken DEF NeverLapped
<1>5. i \in Slots
  BY <1>2, <1>4
<1>6. cursor[r] = p + 1
  BY <1>2
<1>7. Claimed => index_of(wt) # i
  BY <1>2, <1>4, InRingApart DEF InRing
<1> HIDE DEF p, i
<1>8. MemberOK'
  <2>1. \A s \in Readers : rpc'[s] = "off" <=> rpc[s] = "off"
    BY <1>2, <1>3
  <2>2. \A s \in Readers : rpc'[s] = "joining" <=> rpc[s] = "joining"
    BY <1>2, <1>3
  <2>3. {s \in Readers : rpc'[s] # "off"} = {s \in Readers : rpc[s] # "off"}
    BY <2>1
  <2> QED
    BY <1>3, <2>1, <2>2, <2>3 DEF QuietInv, MemberOK
<1>9. SendOK'
  BY <1>3 DEF QuietInv, SendOK
<1>10. SlotsOK'
  BY <1>3, <1>4 DEF QuietInv, SlotsOK
<1>11. OwedOK'
  <2>1. \A s \in Readers : rpc'[s] = "joining" => rpc[s] = "joining"
    BY <1>2, <1>3
  <2>2. \A m \in Int : Owed(m)' \subseteq Owed(m)
    BY <1>4
  <2>3. OwedOK
    BY DEF QuietInv
  <2> QED
    BY <1>3, <2>1, <2>2, <2>3 DEF OwedOK
<1>12. ASSUME NEW s \in Readers
       PROVE  (AwaitsOK(s) /\ StandsOK(s))'
  <2>1. AwaitsOK(s) /\ StandsOK(s)
    BY DEF QuietInv
  <2>2. rc'[index_of(wt)] = rc[index_of(wt)] \/ ~Claimed
    BY <1>2, <1>3, <1>7
  <2>3. \A j \in Slots : rc'[j].ep = rc[j].ep
    BY <1>2, <1>3, <1>5
  <2>4. (Connected(s)' <=> Connected(s)) /\ PopSlot(s)' = PopSlot(s) /\ PopSlot(s) \in Slots
        /\ (Claimed' <=> Claimed)
    BY <1>2, <1>3 DEF Connected, PopSlot, Claimed
  <2>5. Reading(s)' <=> Reading(s) /\ s # r
    BY <1>2, <1>3 DEF Reading
  <2>6. \A m \in Int : Awaits(s, m)' <=> Awaits(s, m) /\ (s # r \/ m # p)
    <3> SUFFICES ASSUME NEW m \in Int PROVE Awaits(s, m)' <=> Awaits(s, m) /\ (s # r \/ m # p)
      OBVIOUS
    <3>1. Reading(r)
      BY <1>3 DEF Reading
    <3>2. cursor'[s] = cursor[s] /\ cursor[s] \in Nat
      BY <1>2, <1>3
    <3> QED
      BY <1>4, <1>6, <2>5, <3>1, <3>2 DEF Awaits
  <2>7. ASSUME Connected(s)
        PROVE  \A m \in Int : conn'[s] \in Owed(m)' <=> conn[s] \in Owed(m) /\ (s # r \/ m # p)
    <3>1. s # r => conn[s] # conn[r]
      BY <1>1, <1>3, <2>7 DEF ConnectedStay, Connected
    <3> QED
      BY <1>3, <1>4, <3>1
  <2>8. AwaitsOK(s)'
    <3> SUFFICES ASSUME Connected(s) PROVE AwaitsOK(s)'
      BY <2>4 DEF AwaitsOK
    <3>1. \A m \in Int : conn'[s] \in Owed(m)' => Leaving(m)' \/ Awaits(s, m)'
      BY <1>4, <2>1, <2>6, <2>7 DEF AwaitsOK
    <3>2. \A m \in Nat : (InRing(m) \/ Leaving(m))' /\ Awaits(s, m)' => conn'[s] \in Owed(m)'
      BY <1>4, <2>1, <2>6, <2>7 DEF AwaitsOK
    <3> QED
      BY <1>3, <2>1, <2>2, <2>4, <3>1, <3>2 DEF AwaitsOK
  <2>9. StandsOK(s)'
    <3>1. InRing(cursor[s] - 1)' <=> InRing(cursor[s] - 1)
      BY <1>3 DEF InRing, Claimed
    <3> QED
      BY <1>3, <2>1, <2>3, <2>4, <2>5, <3>1 DEF StandsOK
  <2> QED
    BY <2>8, <2>9
<1> QED
  BY <1>8, <1>9, <1>10, <1>11, <1>12 DEF QuietInv

\* Receivers come between two sends and leave when nothing is owed to them.
LEMMA QuietMember ==
  ASSUME QuietInv, IInv', QuietMembership, NEW r \in Dynamic, Membership(r)
  PROVE  QuietInv'
<1>1. TypeOK /\ ConnectedStay /\ r \in Readers /\ AwaitsOK(r) /\ MemberOK /\ OwedOK
  BY DEF QuietInv, IInv, Readers
<1>2. /\ wt \in Nat /\ RingSlots \in Nat \ {0} /\ rpc \in [Readers -> ReaderPC]
      /\ conn \in [Readers -> Bits \cup {NoBit}] /\ cursor \in [Readers -> Nat]
      /\ cc \subseteq Bits
  BY <1>1, RingTypes DEF TypeOK
<1>3. /\ UNCHANGED <<wt, rc, data, wpc, wcc, wrc, ep0>> /\ (Claimed' <=> Claimed)
      /\ rpc' = [rpc EXCEPT ![r] = rpc'[r]]
      /\ rpc[r] \in {"off", "joining", "idle"} /\ rpc'[r] \in {"off", "joining", "idle"}
  BY <1>1, <1>2 DEF Membership, ConnectReceiver, ConnectCursor, Disconnect, writerVars, Claimed
<1>4. \A m : Owed(m)' = Owed(m) /\ (InRing(m)' <=> InRing(m)) /\ (Leaving(m)' <=> Leaving(m))
  BY <1>3, OwedStays
<1>5. \A s \in Readers \ {r} : rpc'[s] = rpc[s]
  BY <1>2, <1>3
<1>6. ~Reading(r) /\ ~Reading(r)'
  BY <1>3 DEF Reading
\* The others keep what they have.
<1>7. ASSUME NEW s \in Readers, s # r, conn'[s] = conn[s], cursor'[s] = cursor[s]
      PROVE  (AwaitsOK(s) /\ StandsOK(s))'
  <2>1. AwaitsOK(s) /\ StandsOK(s) /\ rpc'[s] = rpc[s] /\ ep0'[s] = ep0[s]
    BY <1>3, <1>5, <1>7 DEF QuietInv
  <2>2. (Connected(s)' <=> Connected(s)) /\ (Reading(s)' <=> Reading(s)) /\ PopSlot(s)' = PopSlot(s)
        /\ \A m : Awaits(s, m)' <=> Awaits(s, m)
    BY <1>7, <2>1 DEF Connected, Reading, PopSlot, Awaits
  <2>3. AwaitsOK(s)'
    BY <1>3, <1>4, <1>7, <2>1, <2>2 DEF AwaitsOK
  <2>4. StandsOK(s)'
    BY <1>3, <1>4, <1>7, <2>1, <2>2 DEF StandsOK
  <2> QED
    BY <2>3, <2>4
<1>8. SlotsOK'
  BY <1>3, <1>4 DEF QuietInv, SlotsOK
<1>9. StandsOK(r)'
  BY <1>6 DEF StandsOK
<1>10. CASE ConnectReceiver(r)
  <2>1. PICK b \in Bits \ cc : cc' = cc \cup {b} /\ conn' = [conn EXCEPT ![r] = b]
    BY <1>10 DEF ConnectReceiver
  <2>2. /\ rpc[r] = "off" /\ rpc'[r] = "joining" /\ cursor' = cursor /\ wpc = "idle" /\ conn'[r] = b
        /\ \A s \in Readers \ {r} : conn'[s] = conn[s]
    BY <1>1, <1>2, <1>10, <2>1 DEF ConnectReceiver, QuietMembership
  <2>3. MemberOK'
    <3>1. cc' = {conn'[s] : s \in {t \in Readers : rpc'[t] # "off"}}
      <4>1. \A x \in cc' : \E s \in Readers : rpc'[s] # "off" /\ conn'[s] = x
        BY <1>1, <1>5, <2>1, <2>2 DEF MemberOK
      <4>2. \A s \in Readers : rpc'[s] # "off" => conn'[s] \in cc'
        BY <1>1, <1>5, <2>1, <2>2 DEF MemberOK
      <4> QED
        BY <4>1, <4>2
    <3> QED
      BY <1>1, <1>3, <1>5, <2>2, <3>1 DEF MemberOK
  <2>4. SendOK'
    BY <1>3, <2>2 DEF QuietInv, SendOK
  <2>5. OwedOK'
    <3>1. \A m \in Int : Owed(m)' \subseteq cc'
      BY <1>1, <1>4, <2>1 DEF OwedOK
    <3>2. \A m \in Int : b \notin Owed(m)
      BY <1>1, <2>1 DEF OwedOK
    <3>3. ASSUME NEW s \in Readers, rpc'[s] = "joining", NEW m \in Int
          PROVE  conn'[s] \notin Owed(m)'
      <4>1. CASE s = r
        BY <1>4, <2>2, <3>2, <4>1
      <4>2. CASE s # r
        BY <1>1, <1>4, <1>5, <2>2, <3>3, <4>2 DEF OwedOK
      <4> QED
        BY <4>1, <4>2
    <3> QED
      BY <3>1, <3>3 DEF OwedOK
  <2>6. AwaitsOK(r)'
    BY <2>2 DEF AwaitsOK, Connected
  <2>7. \A s \in Readers : (AwaitsOK(s) /\ StandsOK(s))'
    BY <1>7, <1>9, <2>2, <2>6
  <2> QED
    BY <1>8, <2>3, <2>4, <2>5, <2>7 DEF QuietInv
<1>11. CASE ConnectCursor(r)
  <2>1. /\ rpc[r] = "joining" /\ rpc'[r] = "idle" /\ UNCHANGED <<cc, conn>> /\ wpc = "idle"
        /\ cursor'[r] = wt /\ \A s \in Readers \ {r} : cursor'[s] = cursor[s]
    BY <1>1, <1>2, <1>11 DEF ConnectCursor, QuietMembership, writerVars
  <2>2. MemberOK'
    <3>1. {s \in Readers : rpc'[s] # "off"} = {s \in Readers : rpc[s] # "off"}
      BY <1>5, <2>1
    <3> QED
      BY <1>1, <1>3, <1>5, <2>1, <3>1 DEF MemberOK
  <2>3. SendOK'
    BY <1>3, <2>1 DEF QuietInv, SendOK
  <2>4. OwedOK'
    BY <1>1, <1>4, <1>5, <2>1 DEF OwedOK
  <2>5. AwaitsOK(r)'
    <3>1. \A m \in Int : conn'[r] \notin Owed(m)'
      BY <1>1, <1>4, <2>1 DEF OwedOK
    <3>2. \A m \in Int : ~Leaving(m) /\ (InRing(m) => m < wt)
      BY <2>1 DEF Leaving, InRing
    <3>3. \A m \in Int : Awaits(r, m)' => wt <= m
      BY <1>6, <2>1 DEF Awaits
    <3>4. \A m \in Int : ~((InRing(m) \/ Leaving(m))' /\ Awaits(r, m)')
      BY <1>2, <1>4, <3>2, <3>3
    <3> QED
      BY <1>3, <2>1, <3>1, <3>4 DEF AwaitsOK, Claimed
  <2>6. \A s \in Readers : (AwaitsOK(s) /\ StandsOK(s))'
    BY <1>7, <1>9, <2>1, <2>5
  <2> QED
    BY <1>8, <2>2, <2>3, <2>4, <2>6 DEF QuietInv
<1>12. CASE Disconnect(r)
  <2>1. /\ rpc[r] = "idle" /\ rpc'[r] = "off" /\ cc' = cc \ {conn[r]} /\ cursor' = cursor
        /\ conn'[r] = NoBit /\ \A s \in Readers \ {r} : conn'[s] = conn[s]
        /\ wpc \in {"idle", "load", "full", "fload", "begun"} /\ cursor[r] = wt
    BY <1>1, <1>2, <1>12 DEF Disconnect, QuietMembership
  <2>2. ~Claimed /\ \A m : ~Leaving(m)
    BY <2>1 DEF Claimed, Leaving
  <2>3. \A m \in Int : conn[r] \notin Owed(m)
    <3> SUFFICES ASSUME NEW m \in Int, conn[r] \in Owed(m) PROVE FALSE
      OBVIOUS
    <3>1. wt <= m
      BY <1>1, <1>6, <2>1, <2>2 DEF AwaitsOK, Connected, Awaits
    <3> QED
      BY <1>2, <2>2, <3>1 DEF Owed, InRing
  <2>4. MemberOK'
    <3>1. cc' = {conn'[s] : s \in {t \in Readers : rpc'[t] # "off"}}
      <4>1. \A x \in cc' : \E s \in Readers : rpc'[s] # "off" /\ conn'[s] = x
        <5> SUFFICES ASSUME NEW x \in cc' PROVE \E s \in Readers : rpc'[s] # "off" /\ conn'[s] = x
          OBVIOUS
        <5>1. PICK s \in Readers : rpc[s] # "off" /\ conn[s] = x
          BY <1>1, <2>1 DEF MemberOK
        <5> QED
          BY <1>5, <2>1, <5>1
      <4>2. ASSUME NEW s \in Readers, rpc'[s] # "off" PROVE conn'[s] \in cc'
        <5>1. s # r /\ rpc[s] # "off"
          BY <1>5, <2>1, <4>2
        <5>2. conn[s] \in cc /\ conn[s] # conn[r]
          BY <1>1, <2>1, <5>1 DEF ConnectedStay
        <5> QED
          BY <2>1, <5>1, <5>2
      <4> QED
        BY <4>1, <4>2
    <3> QED
      BY <1>1, <1>3, <1>5, <2>1, <3>1 DEF MemberOK
  <2>5. SendOK'
    BY <1>3, <2>1 DEF QuietInv, SendOK
  <2>6. OwedOK'
    <3>1. \A m \in Int : Owed(m)' \subseteq cc'
      BY <1>1, <1>4, <2>1, <2>3 DEF OwedOK
    <3>2. \A s \in Readers : rpc'[s] = "joining" => rpc[s] = "joining" /\ conn'[s] = conn[s]
      BY <1>5, <2>1
    <3> QED
      BY <1>1, <1>4, <3>1, <3>2 DEF OwedOK
  <2>7. AwaitsOK(r)'
    BY <2>1 DEF AwaitsOK, Connected
  <2>8. \A s \in Readers : (AwaitsOK(s) /\ StandsOK(s))'
    BY <1>7, <1>9, <2>1, <2>7
  <2> QED
    BY <1>8, <2>4, <2>5, <2>6, <2>8 DEF QuietInv
<1> QED
  BY <1>10, <1>11, <1>12 DEF Membership

\* Every step of the ring, under the two conditions
LEMMA QuietNext ==
  ASSUME QuietInv, NeverLapped, NeverLapped', QuietMembership, [Next]_vars
  PROVE  QuietInv'
<1>1. IInv'
  BY InvNext DEF QuietInv
<1>2. CASE Writer
  <2>1. CASE Local
    BY <1>1, <2>1, QuietLocal
  <2>2. CASE Claims
    BY <1>1, <2>2, QuietClaim
  <2>3. CASE PushSniffer \/ WriteBegin \/ WriteEnd \/ Advance
    BY <1>1, <2>3, QuietSniff, QuietWriteBegin, QuietWriteEnd, QuietAdvance
  <2> QED
    BY <1>2, <2>1, <2>2, <2>3 DEF Writer, Local, Claims
<1>3. ASSUME NEW r \in Readers, Pop(r) PROVE QuietInv'
  BY <1>1, <1>3, QuietEnter, QuietEmptyCopy, QuietLoad, QuietDiscard, QuietDeliver DEF Pop
<1>4. ASSUME NEW r \in Dynamic, Membership(r) PROVE QuietInv'
  BY <1>1, <1>4, QuietMember
<1>5. CASE UNCHANGED vars
  <2>1. Still /\ UNCHANGED <<wpc, wcc, wrc>>
    BY <1>5 DEF vars, writerVars, Still
  <2>2. MemberOK' /\ SendOK'
    BY <2>1, MembersStay DEF Still, QuietInv, SendOK
  <2> QED
    BY <1>1, <2>1, <2>2, QuietStill
<1> QED
  BY <1>2, <1>3, <1>4, <1>5 DEF Next

-----------------------------------------------------------------------------
(***************************************************************************)
(* The free list.                                                          *)
(***************************************************************************)

\* A path over n chunks, numbered from its end, whose last link is NoChunk.
Path(n, fl) ==
  /\ n \in Nat /\ fl \in [0 .. n -> Chunks \cup {NoChunk}] /\ fl[0] = NoChunk /\ head = fl[n]
  /\ \A k \in 1 .. n : fl[k] \in Chunks /\ next[fl[k]] = fl[k - 1]
  /\ \A j, k \in 1 .. n : fl[j] = fl[k] => j = k

On(n, fl) == {fl[k] : k \in 1 .. n}

\* F is the set of the free chunks.
PoolOK(F) == \E n, fl : Path(n, fl) /\ On(n, fl) = F

\* What the definitions of sizes say
LEMMA PoolTypes ==
  /\ NChunks \in Nat /\ NoChunk = NChunks /\ NoChunk \notin Chunks /\ Chunks = 0 .. NChunks - 1
  /\ IsFiniteSet(Chunks) /\ Cardinality(Chunks) = NChunks
BY ChunkAssumption, FS_Interval DEF Chunks, NoChunk

\* Sequences are what they are at each place.
LEMMA SameSeq ==
  ASSUME NEW D, NEW s \in Seq(D), NEW t \in Seq(D), Len(s) = Len(t), \A j \in 1 .. Len(s) : s[j] = t[j]
  PROVE  s = t
OBVIOUS

\* acquire() takes the first chunk of the list.
LEMMA PoolTake ==
  ASSUME NEW F, PoolOK(F), NEW c, c = head, c # NoChunk, head' = next[c], next' = next
  PROVE  c \in F /\ c \in Chunks /\ PoolOK(F \ {c})'
<1>1. PICK n, fl : Path(n, fl) /\ On(n, fl) = F
  BY DEF PoolOK
<1>2. /\ n \in Nat /\ fl \in [0 .. n -> Chunks \cup {NoChunk}] /\ fl[0] = NoChunk /\ head = fl[n]
      /\ \A k \in 1 .. n : fl[k] \in Chunks /\ next[fl[k]] = fl[k - 1]
      /\ \A j, k \in 1 .. n : fl[j] = fl[k] => j = k
  BY <1>1 DEF Path
<1>3. n # 0 /\ n \in 1 .. n /\ n - 1 \in Nat
  BY <1>2
<1> DEFINE gl == [k \in 0 .. n - 1 |-> fl[k]]
<1>4. head' = gl[n - 1] /\ gl \in [0 .. n - 1 -> Chunks \cup {NoChunk}] /\ gl[0] = NoChunk
  BY <1>2, <1>3
<1>5. \A k \in 1 .. n - 1 : k \in 1 .. n /\ gl[k] = fl[k] /\ gl[k - 1] = fl[k - 1]
  BY <1>2
<1>6. On(n - 1, gl) = F \ {c}
  <2>1. ASSUME NEW x PROVE x \in On(n - 1, gl) <=> x \in F /\ x # c
    <3>1. x \in On(n - 1, gl) <=> \E k \in 1 .. n - 1 : fl[k] = x
      BY <1>5 DEF On
    <3>2. x \in F <=> \E k \in 1 .. n : fl[k] = x
      BY <1>1 DEF On
    <3>3. \A k \in 1 .. n : k \in 1 .. n - 1 <=> fl[k] # c
      BY <1>2, <1>3
    <3> QED
      BY <1>5, <3>1, <3>2, <3>3
  <2> QED
    BY <2>1
<1> HIDE DEF gl
<1>7. Path(n - 1, gl)'
  BY <1>2, <1>3, <1>4, <1>5 DEF Path
<1>8. c \in F /\ c \in Chunks
  BY <1>1, <1>2, <1>3 DEF On
<1>9. \E m, hl : Path(m, hl)' /\ On(m, hl) = F \ {c}
  BY <1>6, <1>7
<1> QED
  BY <1>8, <1>9 DEF PoolOK

\* release() puts a chunk in front of the list, where it is not yet.
LEMMA PoolGive ==
  ASSUME NEW F, PoolOK(F), NEW c \in Chunks, c \notin F, Release(c),
         next \in [Chunks -> Chunks \cup {NoChunk}]
  PROVE  PoolOK(F \cup {c})'
<1>1. PICK n, fl : Path(n, fl) /\ On(n, fl) = F
  BY DEF PoolOK
<1>2. /\ n \in Nat /\ fl \in [0 .. n -> Chunks \cup {NoChunk}] /\ fl[0] = NoChunk /\ head = fl[n]
      /\ \A k \in 1 .. n : fl[k] \in Chunks /\ next[fl[k]] = fl[k - 1]
      /\ \A j, k \in 1 .. n : fl[j] = fl[k] => j = k
  BY <1>1 DEF Path
<1>3. head' = c /\ next'[c] = fl[n] /\ \A d \in Chunks \ {c} : next'[d] = next[d]
  BY <1>2 DEF Release
<1>4. \A k \in 1 .. n : fl[k] # c
  BY <1>1 DEF On
<1> DEFINE gl == [k \in 0 .. n + 1 |-> IF k = n + 1 THEN c ELSE fl[k]]
<1>5. /\ gl[n + 1] = c /\ \A k \in 0 .. n : gl[k] = fl[k]
      /\ gl \in [0 .. n + 1 -> Chunks \cup {NoChunk}]
  BY <1>2
<1> HIDE DEF gl
<1>6. \A k \in 1 .. n + 1 : k = n + 1 \/ k \in 1 .. n
  BY <1>2
<1>7. \A k \in 1 .. n : k \in 0 .. n /\ k - 1 \in 0 .. n
  BY <1>2
<1>8. \A k \in 1 .. n + 1 : gl[k] \in Chunks /\ next'[gl[k]] = gl[k - 1]
  <2> SUFFICES ASSUME NEW k \in 1 .. n + 1 PROVE gl[k] \in Chunks /\ next'[gl[k]] = gl[k - 1]
    OBVIOUS
  <2>1. CASE k = n + 1
    <3>1. k - 1 = n /\ n \in 0 .. n
      BY <1>2, <2>1
    <3> QED
      BY <1>3, <1>5, <2>1, <3>1
  <2>2. CASE k \in 1 .. n
    BY <1>2, <1>3, <1>4, <1>5, <1>7, <2>2
  <2> QED
    BY <1>6, <2>1, <2>2
<1>9. \A j, k \in 1 .. n + 1 : gl[j] = gl[k] => j = k
  BY <1>2, <1>4, <1>5, <1>6, <1>7
<1>10. Path(n + 1, gl)'
  BY <1>2, <1>3, <1>5, <1>8, <1>9 DEF Path
<1>11. On(n + 1, gl) = F \cup {c}
  <2>1. ASSUME NEW x PROVE x \in On(n + 1, gl) <=> x \in F \/ x = c
    <3>1. x \in On(n + 1, gl) <=> \E k \in 1 .. n + 1 : gl[k] = x
      BY DEF On
    <3>2. x \in F <=> \E k \in 1 .. n : fl[k] = x
      BY <1>1 DEF On
    <3>3. n + 1 \in 1 .. n + 1 /\ \A k \in 1 .. n : k \in 1 .. n + 1
      BY <1>2
    <3> QED
      BY <1>5, <1>6, <1>7, <3>1, <3>2, <3>3
  <2> QED
    BY <2>1
<1>12. \E m, hl : Path(m, hl)' /\ On(m, hl) = F \cup {c}
  BY <1>10, <1>11
<1> QED
  BY <1>12 DEF PoolOK

\* Who walks a path from head on comes to its end.
LEMMA PoolWalk ==
  ASSUME NEW F, PoolOK(F)
  PROVE  FreeListSound /\ Free = F
<1>1. PICK n, fl : Path(n, fl) /\ On(n, fl) = F
  BY DEF PoolOK
<1>2. /\ n \in Nat /\ fl \in [0 .. n -> Chunks \cup {NoChunk}] /\ fl[0] = NoChunk /\ head = fl[n]
      /\ \A k \in 1 .. n : fl[k] \in Chunks /\ next[fl[k]] = fl[k - 1]
      /\ \A j, k \in 1 .. n : fl[j] = fl[k] => j = k
  BY <1>1 DEF Path
<1> DEFINE N == NChunks
<1>3. n <= N /\ N \in Nat
  <2> DEFINE gl == [k \in 1 .. n |-> fl[k]]
  <2>1. gl \in Injection(1 .. n, Chunks)
    <3>1. gl \in [1 .. n -> Chunks] /\ \A k \in 1 .. n : gl[k] = fl[k]
      BY <1>2
    <3> HIDE DEF gl
    <3>2. \A j, k \in 1 .. n : gl[j] = gl[k] => j = k
      BY <1>2, <3>1
    <3> QED
      BY <3>1, <3>2 DEF Injection, IsInjective
  <2>2. Cardinality(1 .. n) <= Cardinality(Chunks)
    BY <2>1, PoolTypes, FS_Injection
  <2>3. Cardinality(1 .. n) = n
    <3>1. n \in Nat /\ n \in Int /\ 1 \in Int
      BY <1>2
    <3>2. Cardinality(1 .. n) = IF 1 > n THEN 0 ELSE n - 1 + 1
      BY ONLY <3>1, FS_Interval
    <3> QED
      BY ONLY <3>1, <3>2
  <2> QED
    BY <2>2, <2>3, PoolTypes
\* The walk after m steps
<1> DEFINE Steps(m) == (IF m <= n THEN m ELSE n) + 1
           W == [m \in 0 .. N |-> [j \in 1 .. Steps(m) |-> fl[n - j + 1]]]
           Body(V) == [m \in 0 .. N |->
                         IF m = 0 THEN <<head>>
                         ELSE LET w == V[m - 1]
                                  l == w[Len(w)]
                              IN  IF l = NoChunk THEN w ELSE Append(w, next[l])]
<1>4. ASSUME NEW m \in 0 .. N
      PROVE  /\ Steps(m) \in 1 .. n + 1 /\ W[m] \in Seq(Chunks \cup {NoChunk}) /\ Len(W[m]) = Steps(m)
             /\ \A j \in 1 .. Steps(m) : n - j + 1 \in 0 .. n /\ W[m][j] = fl[n - j + 1]
  <2>1. Steps(m) \in 1 .. n + 1
    BY <1>2, <1>3
  <2>2. \A j \in 1 .. Steps(m) : n - j + 1 \in 0 .. n
    BY <1>2, <2>1
  <2>3. W[m] = [j \in 1 .. Steps(m) |-> fl[n - j + 1]]
    OBVIOUS
  <2> HIDE DEF W, Steps
  <2>4. W[m] \in [1 .. Steps(m) -> Chunks \cup {NoChunk}]
    BY <1>2, <2>2, <2>3
  <2>5. Steps(m) \in Nat
    BY <1>2, <2>1
  <2>6. W[m] \in Seq(Chunks \cup {NoChunk}) /\ Len(W[m]) = Steps(m)
    BY <2>4, <2>5
  <2> QED
    BY <2>1, <2>2, <2>3, <2>6
<1>5. ASSUME NEW m \in 1 .. N
      PROVE  W[m] = LET w == W[m - 1]
                        l == w[Len(w)]
                    IN  IF l = NoChunk THEN w ELSE Append(w, next[l])
  <2>1. m - 1 \in 0 .. N /\ m \in 0 .. N
    BY <1>3
  <2> DEFINE w == W[m - 1]
             k == Steps(m - 1)
             l == w[Len(w)]
  <2>2. /\ k \in 1 .. n + 1 /\ w \in Seq(Chunks \cup {NoChunk}) /\ Len(w) = k
        /\ \A j \in 1 .. k : n - j + 1 \in 0 .. n /\ w[j] = fl[n - j + 1]
    BY <1>4, <2>1
  <2>3. l = fl[n - k + 1] /\ n - k + 1 \in 0 .. n
    <3> HIDE DEF W, w, k
    <3>1. k \in 1 .. k
      BY <1>2, <2>2
    <3> QED
      BY <2>2, <3>1
  <2>4. CASE m > n
    <3>1. Steps(m) = n + 1 /\ k = n + 1
      BY <1>2, <2>1, <2>4
    <3>2. l = NoChunk
      BY <1>2, <2>3, <3>1
    <3>3. W[m] = [j \in 1 .. Steps(m) |-> fl[n - j + 1]] /\ w = [j \in 1 .. k |-> fl[n - j + 1]]
      BY <2>1
    <3> QED
      BY <3>1, <3>2, <3>3
  <2>5. CASE m <= n
    <3>1. Steps(m) = m + 1 /\ k = m
      BY <1>2, <2>1, <2>5
    <3>2. n - m + 1 \in 1 .. n /\ (n - m + 1) - 1 = n - m
      BY <1>2, <2>5, <1>3
    <3>3. l \in Chunks /\ next[l] = fl[n - m]
      BY <1>2, <2>3, <3>1, <3>2
    <3>4. l # NoChunk
      BY <3>3, PoolTypes
    <3>5. Append(w, next[l]) \in Seq(Chunks \cup {NoChunk}) /\ Len(Append(w, next[l])) = m + 1
          /\ Append(w, next[l])[m + 1] = fl[n - m]
          /\ \A j \in 1 .. m : Append(w, next[l])[j] = w[j]
      <4>1. fl[n - m] \in Chunks \cup {NoChunk}
        BY <1>2, <1>3, <2>5
      <4> HIDE DEF w, l, k
      <4> QED
        BY <2>2, <3>1, <3>3, <4>1, <1>3
    <3>6. W[m] \in Seq(Chunks \cup {NoChunk}) /\ Len(W[m]) = m + 1
          /\ \A j \in 1 .. m + 1 : W[m][j] = fl[n - j + 1]
      BY <1>4, <2>1, <3>1
    <3>7. \A j \in 1 .. m + 1 : W[m][j] = Append(w, next[l])[j]
      <4> SUFFICES ASSUME NEW j \in 1 .. m + 1 PROVE W[m][j] = Append(w, next[l])[j]
        OBVIOUS
      <4>1. CASE j = m + 1
        <5>1. n - j + 1 = n - m
          BY <1>2, <1>3, <4>1
        <5> QED
          BY <3>5, <3>6, <4>1, <5>1
      <4>2. CASE j # m + 1
        <5>1. j \in 1 .. m
          BY <1>3, <4>2
        <5> QED
          BY <2>2, <3>1, <3>5, <3>6, <5>1
      <4> QED
        BY <4>1, <4>2
    <3>8. W[m] = Append(w, next[l])
      <4> HIDE DEF W, w, l, k, Steps
      <4>1. \A j \in 1 .. Len(W[m]) : W[m][j] = Append(w, next[l])[j]
        BY <3>6, <3>7
      <4> QED
        BY <3>5, <3>6, <4>1, SameSeq
    <3> HIDE DEF W, k, Steps
    <3> QED
      BY <3>4, <3>8
  <2> QED
    BY <1>2, <1>3, <2>4, <2>5
<1>6. W[0] = <<head>>
  <2>1. 0 \in 0 .. N /\ Steps(0) = 1
    BY <1>2, <1>3
  <2>2. W[0] \in Seq(Chunks \cup {NoChunk}) /\ Len(W[0]) = 1 /\ W[0][1] = fl[n - 1 + 1]
    BY <1>4, <2>1
  <2>3. n - 1 + 1 = n
    BY <1>2
  <2> HIDE DEF W, Steps
  <2> QED
    BY <1>2, <2>2, <2>3
<1>7. W = Body(W)
  <2>1. \A m \in 0 .. N : m = 0 \/ m \in 1 .. N
    BY <1>3
  <2>2. W = [m \in 0 .. N |-> W[m]]
    OBVIOUS
  <2> HIDE DEF W, Steps
  <2> QED
    BY <1>5, <1>6, <2>1, <2>2
\* Whatever satisfies the equation of Walk is W.
<1>8. ASSUME NEW V, V = Body(V)
      PROVE  V = W
  <2> DEFINE T == {m \in 0 .. N : V[m] = W[m]}
  <2>1. V[0] = <<head>> /\ 0 \in 0 .. N
    BY <1>3, <1>8
  <2>2. 0 \in T
    BY <1>6, <2>1
  <2>3. ASSUME NEW m \in 0 .. N - 1, m \in T
        PROVE  m + 1 \in T
    <3>1. m + 1 \in 1 .. N /\ m + 1 \in 0 .. N /\ m + 1 # 0 /\ (m + 1) - 1 = m
      BY <1>3
    <3>2. V[m] = W[m]
      BY <2>3
    <3>3. V[m + 1] = LET w == V[m]
                         l == w[Len(w)]
                     IN  IF l = NoChunk THEN w ELSE Append(w, next[l])
      BY <1>8, <3>1
    <3> HIDE DEF W
    <3>4. W[m + 1] = LET w == W[m]
                         l == w[Len(w)]
                     IN  IF l = NoChunk THEN w ELSE Append(w, next[l])
      BY <1>5, <3>1
    <3> QED
      BY <3>1, <3>2, <3>3, <3>4
  <2> HIDE DEF W, T
  <2>4. \A m \in 0 .. N : m \in T
    BY <1>3, <2>2, <2>3, UpTo
  <2>5. \A m \in 0 .. N : V[m] = W[m]
    BY <2>4 DEF T
  <2>6. V = [m \in 0 .. N |-> V[m]]
    BY <1>8
  <2>7. W = [m \in 0 .. N |-> W[m]]
    BY DEF W
  <2> QED
    BY <2>5, <2>6, <2>7
<1>9. Walk = W
  <2>1. Walk = CHOOSE V : V = Body(V)
    BY DEF Walk
  <2> HIDE DEF W, Body
  <2>2. Walk = Body(Walk)
    BY <1>7, <2>1
  <2> QED
    BY <1>8, <2>2
<1>10. /\ Len(FreeList) = n + 1
       /\ \A j \in 1 .. n + 1 : n - j + 1 \in 0 .. n /\ FreeList[j] = fl[n - j + 1]
  <2>1. N \in 0 .. N /\ Steps(N) = n + 1
    BY <1>2, <1>3
  <2> HIDE DEF W, Steps
  <2> QED
    BY <1>4, <1>9, <2>1 DEF FreeList
<1> HIDE DEF W, Steps, Body
<1>11. \A k \in 1 .. n : fl[k] # NoChunk
  BY <1>2, PoolTypes
<1>12. FreeListSound
  <2>1. FreeList[n + 1] = NoChunk
    <3>1. n + 1 \in 1 .. n + 1 /\ n - (n + 1) + 1 = 0
      BY <1>2
    <3> QED
      BY <1>2, <1>10, <3>1
  <2>2. ASSUME NEW j \in 1 .. n + 1, NEW k \in 1 .. n + 1, FreeList[j] = FreeList[k]
        PROVE  j = k
    <3>1. fl[n - j + 1] = fl[n - k + 1]
      BY <1>10, <2>2
    <3>2. \A i \in 1 .. n + 1 : n - i + 1 = 0 \/ n - i + 1 \in 1 .. n
      BY <1>2
    <3>3. n - j + 1 = n - k + 1
      BY <1>2, <1>11, <3>1, <3>2
    <3> QED
      BY <1>2, <3>3
  <2> QED
    BY <1>10, <2>1, <2>2 DEF FreeListSound
<1>13. Free = F
  <2>1. ASSUME NEW x PROVE x \in Free <=> x \in F
    <3>1. x \in Free <=> x # NoChunk /\ \E j \in 1 .. n + 1 : FreeList[j] = x
      BY <1>10 DEF Free
    <3>2. x \in F <=> \E k \in 1 .. n : fl[k] = x
      BY <1>1 DEF On
    <3>3. ASSUME NEW j \in 1 .. n + 1, FreeList[j] = x, x # NoChunk
          PROVE  \E k \in 1 .. n : fl[k] = x
      <4>1. n - j + 1 \in 1 .. n
        BY <1>2, <1>10, <3>3
      <4> QED
        BY <1>10, <3>3, <4>1
    <3>4. ASSUME NEW k \in 1 .. n, fl[k] = x
          PROVE  x # NoChunk /\ \E j \in 1 .. n + 1 : FreeList[j] = x
      <4>1. n - k + 1 \in 1 .. n + 1 /\ n - (n - k + 1) + 1 = k
        BY <1>2
      <4> QED
        BY <1>10, <1>11, <3>4, <4>1
    <3> QED
      BY <3>1, <3>2, <3>3, <3>4
  <2> QED
    BY <2>1
<1> QED
  BY <1>12, <1>13

-----------------------------------------------------------------------------
(***************************************************************************)
(* Who has a chunk.                                                        *)
(***************************************************************************)

\* Receiver r has to give message m back: it waits in the ring, was popped, or is in use.
Has(r, m) ==
  \/ conn[r] \in Owed(m)
  \/ pend[r] # NoChunk /\ got[r] = m
  \/ \E h \in held[r] : h.msg = m

Users(m) == {conn[r] : r \in {s \in Readers : Has(s, m)}}

\* Message m has a chunk that is in use.
Carries(m) == chunkOf[m] # NoChunk /\ ((m = wt /\ wpc # "idle") \/ Users(m) # {})

\* A receiver holds what it took, which is behind its cursor and off the ring.
HoldOK(r) ==
  /\ pend[r] # NoChunk => /\ rpc[r] = "idle" /\ got[r] \in Messages /\ got[r] = cursor[r] - 1
                          /\ pend[r] = chunkOf[got[r]] /\ conn[r] \notin Owed(got[r])
  /\ \A h \in held[r] : /\ Connected(r) /\ h.id = conn[r] /\ h.msg \in Messages /\ h.msg < cursor[r]
                        /\ Reading(r) \/ pend[r] # NoChunk => h.msg < cursor[r] - 1
                        /\ h.chunk = chunkOf[h.msg] /\ conn[r] \notin Owed(h.msg)
                        /\ conns[h.chunk] \subseteq h.curr
  /\ \A h, g \in held[r] : h.msg = g.msg => h = g
HoldsOK == \A r \in Readers : HoldOK(r)

\* The conns of a chunk are the receivers that have to give its message back.
UsersOK ==
  \A m \in Messages : Carries(m) /\ (m = wt => Claimed) => conns[chunkOf[m]] = Users(m)

\* The conns of the chunk being sent are those who will have it.
SendingOK ==
  chunkOf[wt] # NoChunk =>
    /\ wpc # "idle" /\ ~Claimed =>
         /\ cc = {} \/ conns[chunkOf[wt]] = cc
         /\ wpc = "begun" /\ wop = "no_member" => cc # {}
         /\ wpc # "sniff"
    /\ Claimed => cc # {}

\* Who is not on the free list, nor lost, is in use by one message.
AccountOK(F) ==
  /\ F \subseteq Chunks /\ F \cap lost = {}
  /\ \A m \in Messages : Carries(m) => chunkOf[m] \notin F /\ chunkOf[m] \notin lost
  /\ \A m, n \in Messages : Carries(m) /\ Carries(n) /\ chunkOf[m] = chunkOf[n] => m = n
  /\ \A c \in Chunks : c \in F \/ c \in lost \/ \E m \in Messages : Carries(m) /\ chunkOf[m] = c

UseInv == QuietInv /\ TypeOKChunks /\ HoldsOK /\ UsersOK /\ SendingOK
ChunkInv == UseInv /\ \E F : PoolOK(F) /\ AccountOK(F)

\* What the steps below use of types.
LEMMA UseTypes ==
  ASSUME QuietInv, TypeOKChunks
  PROVE  /\ TypeOK /\ ConnectedStay /\ wt \in Nat /\ MaxWt \in Nat /\ wt \in Messages
         /\ RingSlots \in Nat \ {0} /\ Messages \subseteq Nat /\ NoBit \notin Bits
         /\ \A r \in Readers : cursor[r] \in Nat /\ cursor[r] <= wt /\ conn[r] \in Bits \cup {NoBit}
         /\ \A m \in Messages : chunkOf[m] \in Chunks \cup {NoChunk}
         /\ chunkOf \in [Messages -> Chunks \cup {NoChunk}] /\ conns \in [Chunks -> SUBSET Bits]
         /\ pend \in [Readers -> Chunks \cup {NoChunk}] /\ held \in [Readers -> SUBSET Hold]
         /\ \A r \in Readers : \A h \in held[r] : h.chunk \in Chunks /\ h.curr \subseteq Bits
<1>1. TypeOK /\ ConnectedStay /\ wt <= MaxWt
  BY DEF QuietInv, IInv, SendOK
<1>2. MaxWt \in Nat /\ NBits \in Nat
  BY RingAssumption
<1>3. wt \in Nat /\ RingSlots \in Nat \ {0}
      /\ \A r \in Readers : cursor[r] \in Nat /\ cursor[r] <= wt /\ conn[r] \in Bits \cup {NoBit}
  BY <1>1, RingTypes
<1>4. wt \in Messages /\ Messages \subseteq Nat
  BY <1>1, <1>2, <1>3 DEF Messages
<1>5. NoBit \notin Bits
  BY <1>2 DEF NoBit, Bits
<1>6. /\ chunkOf \in [Messages -> Chunks \cup {NoChunk}] /\ conns \in [Chunks -> SUBSET Bits]
      /\ pend \in [Readers -> Chunks \cup {NoChunk}] /\ held \in [Readers -> SUBSET Hold]
  BY DEF TypeOKChunks
<1>7. \A r \in Readers : \A h \in held[r] : h.chunk \in Chunks /\ h.curr \subseteq Bits
  <2> SUFFICES ASSUME NEW r \in Readers, NEW h \in held[r]
               PROVE  h.chunk \in Chunks /\ h.curr \subseteq Bits
    OBVIOUS
  <2>1. h \in Hold
    BY <1>6
  <2> QED
    BY <2>1 DEF Hold
<1> QED
  BY <1>1, <1>2, <1>3, <1>4, <1>5, <1>6, <1>7

\* A message that somebody has to give back was sent, or is being sent.
LEMMA HasBound ==
  ASSUME QuietInv, TypeOKChunks, NEW r \in Readers, HoldOK(r), NEW m \in Int, Has(r, m)
  PROVE  Connected(r) /\ conn[r] \in cc /\ (m < wt \/ (m = wt /\ Claimed))
<1>1. /\ wt \in Nat /\ NoBit \notin Bits /\ cursor[r] \in Nat /\ cursor[r] <= wt /\ Messages \subseteq Nat
      /\ ConnectedStay /\ MemberOK /\ OwedOK /\ cc \subseteq Bits
  BY UseTypes, RingTypes DEF QuietInv
<1>2. Connected(r) => conn[r] \in cc
  BY <1>1 DEF ConnectedStay, Connected
<1>3. CASE conn[r] \in Owed(m)
  <2>1. conn[r] \in cc /\ rpc[r] # "joining"
    BY <1>1, <1>3 DEF OwedOK
  <2>2. rpc[r] # "off"
    BY <1>1, <2>1 DEF MemberOK
  <2>3. m < wt \/ (m = wt /\ Claimed)
    BY <1>1, <1>3, UseTypes DEF Owed, InRing, Leaving
  <2> QED
    BY <2>1, <2>2, <2>3 DEF Connected
<1>4. CASE pend[r] # NoChunk /\ got[r] = m
  BY <1>1, <1>2, <1>4 DEF HoldOK, Connected
<1>5. CASE \E h \in held[r] : h.msg = m
  BY <1>1, <1>2, <1>5 DEF HoldOK
<1> QED
  BY <1>3, <1>4, <1>5 DEF Has

\* The users of a message are connected, and their bits tell them apart.
LEMMA UsersAre ==
  ASSUME QuietInv, TypeOKChunks, HoldsOK, NEW m \in Int
  PROVE  /\ Users(m) \subseteq cc
         /\ Users(m) # {} => m < wt \/ (m = wt /\ Claimed)
         /\ \A r \in Readers : Connected(r) => (conn[r] \in Users(m) <=> Has(r, m))
         /\ \A b \in Users(m) : \E r \in Readers : Has(r, m) /\ conn[r] = b
         /\ Owed(m) \subseteq Users(m)
<1>1. \A r \in Readers : Has(r, m) => Connected(r) /\ conn[r] \in cc /\ (m < wt \/ (m = wt /\ Claimed))
  BY HasBound DEF HoldsOK
<1>2. \A r, s \in Readers : Connected(r) /\ Connected(s) /\ conn[r] = conn[s] => r = s
  BY UseTypes DEF ConnectedStay, Connected
<1>3. ASSUME NEW b \in Owed(m) PROVE b \in Users(m)
  <2>1. b \in cc
    BY DEF QuietInv, OwedOK
  <2>2. PICK r \in Readers : conn[r] = b
    BY <2>1 DEF QuietInv, MemberOK
  <2> QED
    BY <2>2 DEF Users, Has
<1> QED
  BY <1>1, <1>2, <1>3 DEF Users

LEMMA UsersSame ==
  ASSUME NEW m, \A r \in Readers : (Has(r, m)' <=> Has(r, m)) /\ (Has(r, m) => conn'[r] = conn[r])
  PROVE  Users(m)' = Users(m)
<1>1. \A x : x \in Users(m) <=> \E r \in Readers : Has(r, m) /\ conn[r] = x
  BY DEF Users
<1>2. \A x : x \in Users(m)' <=> \E r \in Readers : Has(r, m)' /\ conn'[r] = x
  BY DEF Users
<1> QED
  BY <1>1, <1>2

LEMMA HoldStays ==
  ASSUME NEW r \in Readers, HoldOK(r),
         rpc'[r] = rpc[r], conn'[r] = conn[r], cursor'[r] = cursor[r], got'[r] = got[r],
         pend'[r] = pend[r], held'[r] = held[r], QuietInv, TypeOKChunks,
         \A m \in Messages : m < cursor[r] => chunkOf'[m] = chunkOf[m] /\ Owed(m)' \subseteq Owed(m),
         \A h \in held[r] : conns'[h.chunk] \subseteq conns[h.chunk]
  PROVE  HoldOK(r)'
<1>1. (Connected(r)' <=> Connected(r)) /\ (Reading(r)' <=> Reading(r)) /\ cursor[r] \in Nat
  BY UseTypes DEF Connected, Reading
<1>2. pend[r] # NoChunk =>
        /\ rpc'[r] = "idle" /\ got'[r] \in Messages /\ got'[r] = cursor'[r] - 1
        /\ pend'[r] = chunkOf'[got[r]] /\ conn'[r] \notin Owed(got[r])'
  <2> SUFFICES ASSUME pend[r] # NoChunk
               PROVE  /\ rpc'[r] = "idle" /\ got'[r] \in Messages /\ got'[r] = cursor'[r] - 1
                      /\ pend'[r] = chunkOf'[got[r]] /\ conn'[r] \notin Owed(got[r])'
    OBVIOUS
  <2>1. PICK m \in Messages : m = got[r]
    BY DEF HoldOK
  <2>2. m < cursor[r]
    BY <1>1, <2>1 DEF HoldOK
  <2>3. chunkOf'[m] = chunkOf[m] /\ Owed(m)' \subseteq Owed(m)
    BY <2>2
  <2>4. conn'[r] \notin Owed(m)'
    BY <2>1, <2>3 DEF HoldOK
  <2>5. m = got'[r]
    BY <2>1
  <2> QED
    BY <2>1, <2>3, <2>4, <2>5 DEF HoldOK
<1>3. ASSUME NEW h \in held[r]
      PROVE  /\ Connected(r)' /\ h.id = conn'[r] /\ h.msg \in Messages /\ h.msg < cursor'[r]
             /\ (Reading(r)' \/ pend'[r] # NoChunk => h.msg < cursor'[r] - 1)
             /\ h.chunk = chunkOf'[h.msg] /\ conn'[r] \notin Owed(h.msg)'
             /\ conns'[h.chunk] \subseteq h.curr
  <2>1. /\ Connected(r) /\ h.id = conn[r] /\ h.msg \in Messages /\ h.msg < cursor[r]
        /\ (Reading(r) \/ pend[r] # NoChunk => h.msg < cursor[r] - 1)
        /\ h.chunk = chunkOf[h.msg] /\ conn[r] \notin Owed(h.msg)
        /\ conns[h.chunk] \subseteq h.curr
    BY DEF HoldOK
  <2>2. conns'[h.chunk] \subseteq conns[h.chunk]
    OBVIOUS
  <2>3. chunkOf'[h.msg] = chunkOf[h.msg] /\ Owed(h.msg)' \subseteq Owed(h.msg)
    BY <2>1
  <2> QED
    BY <1>1, <2>1, <2>2, <2>3
<1>4. \A h, g \in held'[r] : h.msg = g.msg => h = g
  BY DEF HoldOK
<1> QED
  BY <1>2, <1>3, <1>4 DEF HoldOK

-----------------------------------------------------------------------------
(***************************************************************************)
(* Steps that leave the pool alone.                                        *)
(***************************************************************************)

\* The accounts stay while nobody gains or loses a chunk.
LEMMA AccountStays ==
  ASSUME NEW F, PoolOK(F), AccountOK(F), UNCHANGED <<next, head, lost>>,
         \A m \in Messages : Carries(m)' <=> Carries(m),
         \A m \in Messages : Carries(m) => chunkOf'[m] = chunkOf[m]
  PROVE  PoolOK(F)' /\ AccountOK(F)'
<1>1. PoolOK(F)'
  BY DEF PoolOK, Path
<1>2. AccountOK(F)'
  BY DEF AccountOK
<1> QED
  BY <1>1, <1>2

LEMMA UseKept ==
  ASSUME ChunkInv, QuietInv', UNCHANGED chunkVars, HoldsOK', UsersOK', SendingOK',
         \A m \in Messages : Carries(m)' <=> Carries(m)
  PROVE  ChunkInv'
<1>1. UNCHANGED <<next, head, conns, chunkOf, pend, held, lost>>
  BY DEF chunkVars
<1>2. TypeOKChunks'
  BY <1>1 DEF ChunkInv, UseInv, TypeOKChunks
<1>3. PICK F : PoolOK(F) /\ AccountOK(F)
  BY DEF ChunkInv
<1>4. PoolOK(F)' /\ AccountOK(F)'
  BY <1>1, <1>3, AccountStays
<1>5. UseInv'
  BY <1>2 DEF UseInv
<1> QED
  BY <1>4, <1>5 DEF ChunkInv

\* Nobody takes or gives back a message.
LEMMA UsersKept ==
  ASSUME ChunkInv, QuietInv', UNCHANGED chunkVars, HoldsOK', SendingOK',
         \A m \in Messages : Users(m)' = Users(m),
         \A m \in Messages : Carries(m)' <=> Carries(m),
         \A m \in Messages : Carries(m) /\ (m = wt' => Claimed') => (m = wt => Claimed)
  PROVE  ChunkInv'
<1>1. UNCHANGED <<conns, chunkOf>>
  BY DEF chunkVars
<1>2. UsersOK'
  <2> SUFFICES ASSUME NEW m \in Messages, Carries(m)', m = wt' => Claimed'
               PROVE  conns'[chunkOf'[m]] = Users(m)'
    BY DEF UsersOK
  <2>1. Carries(m) /\ (m = wt => Claimed)
    OBVIOUS
  <2>2. conns[chunkOf[m]] = Users(m)
    BY <2>1 DEF ChunkInv, UseInv, UsersOK
  <2> QED
    BY <1>1, <2>2
<1> QED
  BY <1>2, UseKept

\* The producer's steps change nothing that receivers keep.
LEMMA ProducerHolds ==
  ASSUME ChunkInv, UNCHANGED <<readerVars, pend, held>>,
         \A m \in Messages : m < wt => chunkOf'[m] = chunkOf[m] /\ Owed(m)' \subseteq Owed(m),
         \A r \in Readers : \A h \in held[r] : conns'[h.chunk] \subseteq conns[h.chunk]
  PROVE  HoldsOK'
<1> SUFFICES ASSUME NEW r \in Readers PROVE HoldOK(r)'
  BY DEF HoldsOK
<1>1. /\ HoldOK(r) /\ QuietInv /\ TypeOKChunks /\ cursor[r] \in Nat /\ cursor[r] <= wt
      /\ wt \in Nat /\ Messages \subseteq Nat
  BY UseTypes DEF ChunkInv, UseInv, HoldsOK
<1>2. UNCHANGED <<rpc, conn, cursor, got, pend, held>>
  BY DEF readerVars
<1>3. \A m \in Messages : m < cursor[r] => chunkOf'[m] = chunkOf[m] /\ Owed(m)' \subseteq Owed(m)
  BY <1>1
<1> QED
  BY <1>1, <1>2, <1>3, HoldStays

\* Where what is owed stays, the users stay.
LEMMA ProducerUsers ==
  ASSUME UNCHANGED <<readerVars, pend, held>>, NEW m, Owed(m)' = Owed(m)
  PROVE  Users(m)' = Users(m)
<1>1. \A r \in Readers : (Has(r, m)' <=> Has(r, m)) /\ conn'[r] = conn[r]
  BY DEF readerVars, Has
<1> QED
  BY <1>1, UsersSame

\* Steps of a send that touch no slot
LEMMA ChunkLocal ==
  ASSUME ChunkInv, QuietInv', RingStep, Local
  PROVE  ChunkInv'
<1>1. Still /\ ~Claimed /\ ~Claimed' /\ UNCHANGED chunkVars
  BY LocalStill DEF RingStep
<1>2. UNCHANGED <<cc, wt, wop, readerVars, pend, held, conns, chunkOf>> /\ wpc # "idle" /\ wpc' # "idle"
      /\ (wpc' = "sniff" => wpc = "begun" /\ wop = "no_member" /\ cc = {}) /\ wpc' # "begun"
  <2>1. CASE GenPush \/ PublishLoan \/ PushLoad \/ WaitRetry \/ (WaitTimeout /\ wop # "try_send")
             \/ (ForceLoad /\ cc # {}) \/ PushCas \/ ForceCas
    BY <1>1, <2>1 DEF GenPush, PublishLoan, PushLoad, WaitRetry, WaitTimeout, ForceLoad, PushCas,
                      ForceCas, ClaimSlot, chunkVars, Claimed
  <2>2. CASE PushSniffer \/ WriteEnd \/ Advance
    BY <1>1, <2>2 DEF PushSniffer, WriteEnd, Advance, Claimed
  <2> QED
    BY <2>1, <2>2 DEF RingStep
<1>3. \A m : Owed(m)' = Owed(m)
  BY <1>1, OwedStays DEF Still
<1>4. \A m \in Messages : Users(m)' = Users(m)
  BY <1>2, <1>3, ProducerUsers
<1>5. HoldsOK'
  BY <1>2, <1>3, ProducerHolds
<1>6. SendingOK'
  BY <1>1, <1>2 DEF ChunkInv, UseInv, SendingOK
<1>7. \A m \in Messages : Carries(m)' <=> Carries(m)
  BY <1>2, <1>4 DEF Carries
<1> QED
  BY <1>1, <1>2, <1>4, <1>5, <1>6, <1>7, UsersKept

\* The slot is claimed: those for whom the chunk was made have its message now.
LEMMA ChunkClaim ==
  ASSUME ChunkInv, QuietInv', RingStep, Claims
  PROVE  ChunkInv'
<1>1. /\ ~Claimed /\ Claimed' /\ wpc \in {"cas", "fcas"} /\ wpc' = "prep"
      /\ UNCHANGED <<cc, wt, wop, readerVars, chunkVars>> /\ wcc = cc /\ cc # {}
  BY DEF Claims, PushCas, ForceCas, ClaimSlot, Claimed, ChunkInv, UseInv, QuietInv, SendOK, RingStep
<1>2. UNCHANGED <<pend, held, conns, chunkOf, conn>>
  BY <1>1 DEF chunkVars, readerVars
<1>3. /\ QuietInv /\ TypeOKChunks /\ HoldsOK /\ UsersOK /\ SendingOK
      /\ TypeOK /\ wt \in Nat /\ Messages \subseteq Nat /\ wt \in Messages
  BY UseTypes DEF ChunkInv, UseInv
<1>4. \A m \in Int : Owed(m)' = IF m = wt THEN cc ELSE Owed(m)
  BY <1>1, <1>3, OwedClaimed
<1>5. \A m \in Messages \ {wt} : Users(m)' = Users(m)
  BY <1>1, <1>2, <1>3, <1>4, ProducerUsers
<1>6. ASSUME NEW w \in Messages, w = wt
      PROVE  Users(w)' = cc
  <2>1. /\ Users(w) = {} /\ cc = {conn[r] : r \in {s \in Readers : rpc[s] # "off"}}
        /\ \A r \in Readers : rpc[r] = "off" => conn[r] \notin cc
    <3>1. Users(w) = {}
      BY <1>1, <1>3, <1>6, UsersAre
    <3>2. cc = {conn[r] : r \in {s \in Readers : rpc[s] # "off"}}
      BY <1>3 DEF QuietInv, MemberOK
    <3>3. \A r \in Readers : rpc[r] = "off" => conn[r] \notin cc
      BY <1>3, UseTypes DEF QuietInv, MemberOK, TypeOK
    <3> QED
      BY <3>1, <3>2, <3>3
  <2>2. Owed(w)' = cc
    BY <1>3, <1>4, <1>6
  <2>3. \A r \in Readers : ~Has(r, w)
    BY <2>1 DEF Users
  <2>4. \A r \in Readers : Has(r, w)' <=> conn[r] \in cc
    BY <1>1, <1>2, <2>2, <2>3 DEF Has, readerVars
  <2>5. \A x : x \in Users(w)' <=> \E r \in Readers : Has(r, w)' /\ conn'[r] = x
    BY DEF Users
  <2> QED
    BY <1>2, <2>1, <2>4, <2>5
<1>7. HoldsOK'
  <2>1. \A m \in Messages : m < wt => chunkOf'[m] = chunkOf[m] /\ Owed(m)' \subseteq Owed(m)
    BY <1>2, <1>3, <1>4
  <2> QED
    BY <1>1, <1>2, <2>1, ProducerHolds
<1>8. SendingOK'
  BY <1>1, <1>2 DEF SendingOK
<1>9. \A m \in Messages : Carries(m)' <=> Carries(m)
  BY <1>1, <1>2, <1>5 DEF Carries
<1>10. UsersOK'
  <2> SUFFICES ASSUME NEW m \in Messages, Carries(m)', m = wt' => Claimed'
               PROVE  conns'[chunkOf'[m]] = Users(m)'
    BY DEF UsersOK
  <2>1. Carries(m) /\ chunkOf[m] # NoChunk
    BY <1>9 DEF Carries
  <2>2. CASE m = wt
    <3>1. conns[chunkOf[wt]] = cc
      BY <1>1, <1>3, <2>1, <2>2 DEF SendingOK
    <3> QED
      BY <1>2, <1>6, <2>2, <3>1
  <2>3. CASE m # wt
    BY <1>2, <1>3, <1>5, <2>1, <2>3 DEF UsersOK
  <2> QED
    BY <2>2, <2>3
<1> QED
  BY <1>1, <1>7, <1>8, <1>9, <1>10, UseKept

\* push_sniffer: its message has no chunk.
LEMMA ChunkSniff ==
  ASSUME ChunkInv, QuietInv', RingStep, PushSniffer
  PROVE  ChunkInv'
<1>1. /\ wpc = "sniff" /\ wpc' = "prep" /\ ~Claimed /\ Claimed' /\ cc = {}
      /\ UNCHANGED <<cc, wt, readerVars, chunkVars>>
  BY DEF PushSniffer, Claimed, ChunkInv, UseInv, QuietInv, SendOK, RingStep
<1>2. UNCHANGED <<pend, held, conns, chunkOf>>
  BY <1>1 DEF chunkVars
<1>3. chunkOf[wt] = NoChunk
  BY <1>1 DEF ChunkInv, UseInv, SendingOK
<1>4. \A m \in Int : Owed(m) = {} /\ Owed(m)' = {}
  BY <1>1 DEF ChunkInv, UseInv, QuietInv, OwedOK
<1>5. Messages \subseteq Int
  BY UseTypes DEF ChunkInv, UseInv
<1>6. \A m \in Messages : Users(m)' = Users(m)
  BY <1>1, <1>2, <1>4, <1>5, ProducerUsers
<1>7. HoldsOK'
  BY <1>1, <1>2, <1>4, <1>5, ProducerHolds
<1>8. SendingOK'
  BY <1>1, <1>2, <1>3 DEF SendingOK
<1>9. \A m \in Messages : Carries(m)' <=> Carries(m)
  BY <1>1, <1>2, <1>6 DEF Carries
<1>10. \A m \in Messages : Carries(m) => m # wt
  BY <1>3 DEF Carries
<1> QED
  BY <1>1, <1>6, <1>7, <1>8, <1>9, <1>10, UsersKept

LEMMA ChunkWritten ==
  ASSUME ChunkInv, QuietInv', RingStep, WriteEnd
  PROVE  ChunkInv'
<1>1. /\ wpc = "write" /\ wpc' = "advance" /\ Claimed /\ Claimed'
      /\ UNCHANGED <<cc, wt, readerVars, chunkVars>>
  BY DEF WriteEnd, Claimed, RingStep
<1>2. UNCHANGED <<pend, held, conns, chunkOf>>
  BY <1>1 DEF chunkVars
<1>3. Messages \subseteq Int /\ TypeOK
  BY UseTypes DEF ChunkInv, UseInv
<1>4. \A m \in Int : Owed(m)' = Owed(m)
  BY <1>3, OwedWritten
<1>5. \A m \in Messages : Users(m)' = Users(m)
  BY <1>1, <1>2, <1>3, <1>4, ProducerUsers
<1>6. HoldsOK'
  BY <1>1, <1>2, <1>3, <1>4, ProducerHolds
<1>7. SendingOK'
  BY <1>1, <1>2 DEF ChunkInv, UseInv, SendingOK
<1>8. \A m \in Messages : Carries(m)' <=> Carries(m)
  BY <1>1, <1>2, <1>5 DEF Carries
<1> QED
  BY <1>1, <1>5, <1>6, <1>7, <1>8, UsersKept

\* The message is published: its chunk is in the hands of the receivers alone.
LEMMA ChunkAdvance ==
  ASSUME ChunkInv, QuietInv', RingStep, Advance
  PROVE  ChunkInv'
<1>1. /\ wpc = "advance" /\ wpc' = "idle" /\ wt' = wt + 1 /\ Claimed /\ ~Claimed'
      /\ UNCHANGED <<cc, readerVars, chunkVars>>
  BY DEF Advance, Claimed, RingStep
<1>2. UNCHANGED <<pend, held, conns, chunkOf>>
  BY <1>1 DEF chunkVars
<1>3. /\ Messages \subseteq Nat /\ TypeOK /\ wt \in Nat /\ QuietInv /\ TypeOKChunks /\ HoldsOK
      /\ wt \in Messages
  BY UseTypes DEF ChunkInv, UseInv
<1>4. \A m \in Int : Owed(m)' = Owed(m)
  BY <1>3, OwedPublished
<1>5. \A m \in Messages : Users(m)' = Users(m)
  BY <1>1, <1>2, <1>3, <1>4, ProducerUsers
<1>6. HoldsOK'
  BY <1>1, <1>2, <1>3, <1>4, ProducerHolds
<1>7. SendingOK'
  BY <1>1 DEF SendingOK
<1>8. chunkOf[wt] # NoChunk => Users(wt) # {}
  <2> SUFFICES ASSUME cc # {}, chunkOf[wt] # NoChunk PROVE Users(wt) # {}
    BY <1>1 DEF ChunkInv, UseInv, SendingOK
  <2>1. PICK r \in Readers : rpc[r] # "off"
    BY <1>3 DEF QuietInv, MemberOK
  <2>2. Connected(r)
    BY <1>1, <1>3, <2>1 DEF QuietInv, MemberOK, Connected
  <2>3. conn[r] \in rc[index_of(wt)].bits
    BY <1>1, <1>3, <2>2 DEF QuietInv, AwaitsOK
  <2>4. conn[r] \in Owed(wt)
    BY <1>1, <2>3 DEF Owed
  <2> QED
    BY <1>3, <2>4, UsersAre
<1>9. \A m \in Messages : Users(m) # {} => m # wt + 1
  BY <1>3, UsersAre
<1>10. \A m \in Messages : Carries(m)' <=> Carries(m)
  BY <1>1, <1>2, <1>5, <1>8, <1>9 DEF Carries
<1> QED
  BY <1>1, <1>5, <1>6, <1>7, <1>10, UsersKept

\* What a receiver's step leaves alone
LEMMA ReceiverUsers ==
  ASSUME ChunkInv, QuietInv', NEW r \in Readers, UNCHANGED <<chunkVars, wt, wpc, wop, wcc, wrc, rc>>,
         \A s \in Readers \ {r} :
           rpc'[s] = rpc[s] /\ conn'[s] = conn[s] /\ cursor'[s] = cursor[s] /\ got'[s] = got[s],
         \A m \in Int : Has(r, m) \/ Has(r, m)' => Has(r, m) /\ Has(r, m)' /\ conn'[r] = conn[r],
         cc' = cc \/ wpc = "idle" \/ (~Claimed /\ cc' = {} /\ ~(wpc = "begun" /\ wop = "no_member")),
         HoldOK(r)'
  PROVE  ChunkInv'
<1>1. UNCHANGED <<pend, held, conns, chunkOf>> /\ (Claimed' <=> Claimed)
  BY DEF chunkVars, Claimed
<1>2. /\ Messages \subseteq Nat /\ QuietInv /\ TypeOKChunks /\ HoldsOK
      /\ \A s \in Readers : \A h \in held[s] : h.chunk \in Chunks
  BY UseTypes DEF ChunkInv, UseInv
<1>3. \A m : Owed(m)' = Owed(m)
  BY OwedStays
<1>4. ASSUME NEW m \in Messages PROVE Users(m)' = Users(m)
  <2>1. \A s \in Readers \ {r} : (Has(s, m)' <=> Has(s, m)) /\ conn'[s] = conn[s]
    BY <1>1, <1>3 DEF Has
  <2>2. m \in Int
    BY <1>2
  <2>3. (Has(r, m)' <=> Has(r, m)) /\ (Has(r, m) => conn'[r] = conn[r])
    BY <2>2
  <2> QED
    BY <2>1, <2>3, UsersSame
<1>5. HoldsOK'
  <2> SUFFICES ASSUME NEW s \in Readers, s # r PROVE HoldOK(s)'
    BY DEF HoldsOK
  <2>1. HoldOK(s)
    BY <1>2 DEF HoldsOK
  <2>2. rpc'[s] = rpc[s] /\ conn'[s] = conn[s] /\ cursor'[s] = cursor[s] /\ got'[s] = got[s]
        /\ pend'[s] = pend[s] /\ held'[s] = held[s]
    BY <1>1
  <2>3. \A m \in Messages : chunkOf'[m] = chunkOf[m] /\ Owed(m)' \subseteq Owed(m)
    BY <1>1, <1>3
  <2>4. \A h \in held[s] : conns'[h.chunk] \subseteq conns[h.chunk]
    BY <1>1
  <2> QED
    BY <1>2, <2>1, <2>2, <2>3, <2>4, HoldStays
<1>6. SendingOK'
  BY <1>1 DEF ChunkInv, UseInv, SendingOK, Claimed
<1>7. \A m \in Messages : Carries(m)' <=> Carries(m)
  BY <1>1, <1>4 DEF Carries
<1> QED
  BY <1>1, <1>4, <1>5, <1>6, <1>7, UsersKept

\* A receiver inside recv() has nothing that it did not have before.
LEMMA ChunkRecv ==
  ASSUME ChunkInv, QuietInv', NEW r \in Readers, RecvStep(r)
  PROVE  ChunkInv'
<1>1. /\ QuietInv /\ TypeOKChunks /\ HoldOK(r) /\ TypeOK /\ wt \in Nat /\ cursor[r] \in Nat
      /\ cursor[r] <= wt /\ RingSlots \in Nat \ {0} /\ Messages \subseteq Nat
  BY UseTypes DEF ChunkInv, UseInv, HoldsOK
<1>2. /\ rpc \in [Readers -> ReaderPC] /\ cursor \in [Readers -> Nat] /\ got \in [Readers -> Int]
  BY <1>1 DEF TypeOK
<1>3. /\ UNCHANGED <<chunkVars, cc, wt, wpc, wop, wcc, wrc, rc, conn>>
      /\ \A s \in Readers \ {r} : rpc'[s] = rpc[s] /\ cursor'[s] = cursor[s] /\ got'[s] = got[s]
      /\ got'[r] = got[r] \/ rpc[r] = "copy"
      /\ rpc[r] \in {"idle", "loop", "copy", "clear"} /\ rpc'[r] \in {"idle", "loop", "copy", "clear"}
      /\ rpc[r] = "idle" => pend[r] = NoChunk
      /\ cursor[r] <= cursor'[r]
      /\ Reading(r)' => (Reading(r) /\ cursor'[r] = cursor[r]) \/ cursor'[r] = cursor[r] + 1
  <2>1. CASE PopEnter(r) /\ pend[r] = NoChunk
    BY <1>1, <1>2, <2>1 DEF RecvStep, PopEnter, writerVars, Reading
  <2>2. CASE PopEmpty(r)
    BY <1>1, <1>2, <2>2 DEF RecvStep, PopEmpty, writerVars, Reading
  <2>3. CASE PopLoad(r)
    BY <1>1, <1>2, <2>3 DEF RecvStep, PopLoad, writerVars, Reading
  <2>4. CASE PopCopy(r)
    BY <1>1, <1>2, <2>4 DEF RecvStep, PopCopy, writerVars, Reading
  <2>5. CASE PopDiscard(r)
    BY <1>1, <1>2, <2>5 DEF RecvStep, PopDiscard, writerVars, Reading
  <2> QED
    BY <2>1, <2>2, <2>3, <2>4, <2>5 DEF RecvStep
<1>4. pend[r] = NoChunk
  BY <1>1, <1>3 DEF HoldOK
<1>5. UNCHANGED <<pend, held, conns, chunkOf>>
  BY <1>3 DEF chunkVars
<1>6. \A m : Owed(m)' = Owed(m)
  BY <1>3, OwedStays
<1>7. \A m \in Int : Has(r, m)' <=> Has(r, m)
  BY <1>3, <1>4, <1>5, <1>6 DEF Has
<1>8. HoldOK(r)'
  <2>1. Connected(r) /\ Connected(r)'
    BY <1>3 DEF Connected
  <2>2. ASSUME NEW h \in held[r]
        PROVE  /\ Connected(r)' /\ h.id = conn'[r] /\ h.msg \in Messages /\ h.msg < cursor'[r]
               /\ (Reading(r)' \/ pend'[r] # NoChunk => h.msg < cursor'[r] - 1)
               /\ h.chunk = chunkOf'[h.msg] /\ conn'[r] \notin Owed(h.msg)'
               /\ conns'[h.chunk] \subseteq h.curr
    <3>1. /\ h.id = conn[r] /\ h.msg \in Messages /\ h.msg < cursor[r]
          /\ (Reading(r) => h.msg < cursor[r] - 1)
          /\ h.chunk = chunkOf[h.msg] /\ conn[r] \notin Owed(h.msg)
          /\ conns[h.chunk] \subseteq h.curr
      BY <1>1 DEF HoldOK
    <3>2. h.msg \in Int /\ cursor'[r] \in Nat
      <4>1. TypeOK'
        BY DEF QuietInv, IInv
      <4>2. cursor'[r] \in Nat
        BY <4>1 DEF TypeOK
      <4>3. h.msg \in Messages /\ Messages \subseteq Nat
        BY <1>1, <3>1
      <4>4. h.msg \in Nat
        BY <4>3
      <4>5. h.msg \in Int
        BY <4>4
      <4> QED
        BY <4>2, <4>5
    <3>3. h.msg < cursor'[r] /\ (Reading(r)' => h.msg < cursor'[r] - 1)
      BY <1>1, <1>3, <3>1, <3>2
    <3> QED
      BY <1>3, <1>4, <1>5, <1>6, <2>1, <3>1, <3>3
  <2>3. \A h, g \in held'[r] : h.msg = g.msg => h = g
    BY <1>1, <1>5 DEF HoldOK
  <2> QED
    BY <1>4, <1>5, <2>2, <2>3 DEF HoldOK
<1> QED
  BY <1>3, <1>7, <1>8, ReceiverUsers

\* Who joins or leaves has no message.
LEMMA ChunkMember ==
  ASSUME ChunkInv, QuietInv', QuietMembership, NEW r \in Dynamic, Join(r) \/ Leave(r)
  PROVE  ChunkInv'
<1>1. /\ QuietInv /\ TypeOKChunks /\ HoldOK(r) /\ TypeOK /\ wt \in Nat /\ Messages \subseteq Nat
      /\ r \in Readers /\ OwedOK /\ NoBit \notin Bits
  BY UseTypes DEF ChunkInv, UseInv, HoldsOK, Readers, QuietInv
<1>2. rpc \in [Readers -> ReaderPC] /\ cursor \in [Readers -> Nat]
      /\ conn \in [Readers -> Bits \cup {NoBit}] /\ cc \subseteq Bits
  BY <1>1 DEF TypeOK
<1>3. /\ UNCHANGED <<chunkVars, wt, wpc, wop, wcc, wrc, rc, got>>
      /\ \A s \in Readers \ {r} : rpc'[s] = rpc[s] /\ conn'[s] = conn[s] /\ cursor'[s] = cursor[s]
  BY <1>1, <1>2 DEF Join, Leave, ConnectReceiver, ConnectCursor, Disconnect, writerVars
<1>4. UNCHANGED <<pend, held>>
  BY <1>3 DEF chunkVars
<1>5. \A m : Owed(m)' = Owed(m)
  BY <1>3, OwedStays
<1>6. /\ pend[r] = NoChunk /\ held[r] = {}
      /\ \A m \in Int : conn[r] \notin Owed(m) /\ conn'[r] \notin Owed(m)
      /\ cc' = cc \/ wpc = "idle" \/ (~Claimed /\ cc' = {} /\ ~(wpc = "begun" /\ wop = "no_member"))
  <2>1. CASE ConnectReceiver(r)
    <3>1. rpc[r] = "off" /\ rpc'[r] = "joining" /\ wpc = "idle" /\ conn'[r] \notin cc
      BY <1>1, <1>2, <2>1 DEF ConnectReceiver, QuietMembership
    <3>2. conn[r] \notin cc
      BY <1>1, <1>2, <3>1 DEF QuietInv, MemberOK
    <3>3. pend[r] = NoChunk /\ held[r] = {}
      BY <1>1, <3>1 DEF HoldOK, Connected
    <3> QED
      BY <1>1, <3>1, <3>2, <3>3 DEF OwedOK
  <2>2. CASE ConnectCursor(r)
    <3>1. rpc[r] = "joining" /\ cc' = cc /\ conn' = conn
      BY <2>2 DEF ConnectCursor
    <3>2. pend[r] = NoChunk /\ held[r] = {}
      BY <1>1, <3>1 DEF HoldOK, Connected
    <3> QED
      BY <1>1, <3>1, <3>2 DEF OwedOK
  <2>3. CASE Leave(r)
    <3>1. /\ rpc[r] = "idle" /\ rpc'[r] = "off" /\ cc' = cc \ {conn[r]} /\ conn'[r] = NoBit
          /\ pend[r] = NoChunk
      BY <1>1, <1>2, <2>3 DEF Leave, Disconnect
    <3>2. /\ cursor[r] = wt /\ held[r] = {}
          /\ \/ wpc = "idle"
             \/ wpc \in {"load", "full", "fload"} /\ cc = {conn[r]}
             \/ wpc = "begun" /\ wop = "loan" /\ cc = {conn[r]}
      BY <1>1, <3>1 DEF QuietMembership
    <3>3. \A m \in Int : conn[r] \notin Owed(m)
      <4> SUFFICES ASSUME NEW m \in Int, conn[r] \in Owed(m) PROVE FALSE
        OBVIOUS
      <4>1. Has(r, m) /\ ~Claimed /\ ~Leaving(m)
        BY <3>2 DEF Has, Claimed, Leaving
      <4>2. m < wt
        BY <1>1, <4>1, HasBound
      <4>3. Awaits(r, m)
        BY <1>1, <3>1, <4>1 DEF QuietInv, AwaitsOK, Connected
      <4> QED
        BY <1>1, <3>1, <3>2, <4>2, <4>3 DEF Awaits, Reading
    <3>4. \A m \in Int : NoBit \notin Owed(m)
      BY <1>1, <1>2 DEF OwedOK
    <3>5. cc' = cc \/ wpc = "idle" \/ (~Claimed /\ cc' = {} /\ ~(wpc = "begun" /\ wop = "no_member"))
      BY <3>1, <3>2 DEF Claimed
    <3> QED
      BY <3>1, <3>2, <3>3, <3>4, <3>5
  <2> QED
    BY <2>1, <2>2, <2>3 DEF Join
<1>7. \A m \in Int : ~Has(r, m) /\ ~Has(r, m)'
  BY <1>4, <1>5, <1>6 DEF Has
<1>8. HoldOK(r)'
  BY <1>4, <1>6 DEF HoldOK
<1> QED
  BY <1>1, <1>3, <1>6, <1>7, <1>8, ReceiverUsers

-----------------------------------------------------------------------------
(***************************************************************************)
(* Steps that take a chunk or put one back.                                *)
(***************************************************************************)

\* A send starts: the chunk at the head of the free list becomes the new message's.
LEMMA ChunkSend ==
  ASSUME ChunkInv, QuietInv', NEW op \in Ops, SendChunk(op)
  PROVE  ChunkInv'
<1>1. /\ wpc = "idle" /\ wpc' \in {"begun", "load"} /\ ~Claimed /\ ~Claimed'
      /\ (wop' = "no_member" => wpc' = "begun")
      /\ UNCHANGED <<cc, wt, rc, readerVars, next, pend, held, lost>>
  BY DEF SendChunk, SendStart, Claimed
<1>2. /\ Messages \subseteq Nat /\ TypeOK /\ wt \in Nat /\ QuietInv /\ TypeOKChunks /\ HoldsOK /\ UsersOK
      /\ wt \in Messages /\ SendingOK /\ cc \subseteq Bits
      /\ \A r \in Readers : \A h \in held[r] : h.chunk \in Chunks /\ h.curr \subseteq Bits
  BY UseTypes, RingTypes DEF ChunkInv, UseInv
<1>3. PICK F : PoolOK(F) /\ AccountOK(F)
  BY DEF ChunkInv
<1>4. \A m : Owed(m)' = Owed(m)
  BY <1>1, OwedStays
<1>5. \A m \in Messages : Users(m)' = Users(m)
  BY <1>1, <1>4, ProducerUsers
<1>6. ~Carries(wt) /\ \A r \in Readers : ~Has(r, wt)
  <2>1. Users(wt) = {}
    BY <1>1, <1>2, UsersAre
  <2> QED
    BY <1>1, <2>1 DEF Carries, Users
<1>7. CASE cc = {} \/ head = NoChunk
  <2>1. chunkOf' = [chunkOf EXCEPT ![wt] = NoChunk] /\ UNCHANGED <<head, conns>>
    BY <1>7 DEF SendChunk
  <2>2. chunkOf \in [Messages -> Chunks \cup {NoChunk}]
    BY <1>2 DEF TypeOKChunks
  <2>3. /\ chunkOf'[wt] = NoChunk /\ \A m \in Messages \ {wt} : chunkOf'[m] = chunkOf[m]
        /\ chunkOf' \in [Messages -> Chunks \cup {NoChunk}]
    BY <1>2, <2>1, <2>2
  <2>4. TypeOKChunks'
    BY <1>1, <1>2, <2>1, <2>3 DEF TypeOKChunks
  <2>5. \A m \in Messages : Carries(m)' <=> Carries(m)
    <3> SUFFICES ASSUME NEW m \in Messages PROVE Carries(m)' <=> Carries(m)
      OBVIOUS
    <3>1. CASE m = wt
      BY <1>1, <1>6, <2>3, <3>1 DEF Carries
    <3>2. CASE m # wt
      BY <1>1, <1>5, <2>3, <3>2 DEF Carries
    <3> QED
      BY <3>1, <3>2
  <2>6. \A m \in Messages : Carries(m) => chunkOf'[m] = chunkOf[m]
    BY <1>6, <2>3
  <2>7. PoolOK(F)' /\ AccountOK(F)'
    BY <1>1, <1>3, <2>1, <2>5, <2>6, AccountStays
  <2>8. UsersOK'
    BY <1>1, <1>2, <1>5, <1>6, <2>1, <2>5, <2>6 DEF UsersOK
  <2>9. SendingOK'
    BY <1>1, <2>3 DEF SendingOK
  <2>10. HoldsOK'
    BY <1>1, <1>2, <1>4, <2>1, <2>3, ProducerHolds
  <2> QED
    BY <2>4, <2>7, <2>8, <2>9, <2>10 DEF ChunkInv, UseInv
<1>8. CASE cc # {} /\ head # NoChunk
  <2>1. PICK c : c = head
    OBVIOUS
  <2>2. /\ c # NoChunk /\ head' = next[c] /\ conns' = [conns EXCEPT ![c] = cc]
        /\ chunkOf' = [chunkOf EXCEPT ![wt] = c]
    BY <1>8, <2>1 DEF SendChunk
  <2>3. c \in F /\ c \in Chunks /\ PoolOK(F \ {c})'
    BY <1>1, <1>3, <2>1, <2>2, PoolTake
  <2>4. /\ chunkOf \in [Messages -> Chunks \cup {NoChunk}] /\ conns \in [Chunks -> SUBSET Bits]
        /\ next \in [Chunks -> Chunks \cup {NoChunk}]
    BY <1>2 DEF TypeOKChunks
  <2>5. /\ chunkOf'[wt] = c /\ \A m \in Messages \ {wt} : chunkOf'[m] = chunkOf[m]
        /\ chunkOf' \in [Messages -> Chunks \cup {NoChunk}]
    BY <1>2, <2>2, <2>3, <2>4
  <2>6. /\ conns'[c] = cc /\ \A d \in Chunks \ {c} : conns'[d] = conns[d]
        /\ conns' \in [Chunks -> SUBSET Bits]
    BY <1>2, <2>2, <2>3, <2>4
  <2>7. head' \in Chunks \cup {NoChunk}
    BY <2>2, <2>3, <2>4
  <2>8. TypeOKChunks'
    BY <1>1, <1>2, <2>5, <2>6, <2>7 DEF TypeOKChunks
  <2>9. Carries(wt)'
    BY <1>1, <2>2, <2>5 DEF Carries
  <2>10. \A m \in Messages \ {wt} : Carries(m)' <=> Carries(m)
    BY <1>1, <1>5, <2>5 DEF Carries
  <2>11. \A m \in Messages : Carries(m) => m # wt /\ chunkOf[m] \in Chunks \ {c} /\ chunkOf'[m] = chunkOf[m]
    <3> SUFFICES ASSUME NEW m \in Messages, Carries(m)
                 PROVE  m # wt /\ chunkOf[m] \in Chunks \ {c} /\ chunkOf'[m] = chunkOf[m]
      OBVIOUS
    <3>1. chunkOf[m] # NoChunk /\ chunkOf[m] \notin F
      BY <1>3 DEF Carries, AccountOK
    <3> QED
      BY <1>6, <2>3, <2>4, <2>5, <3>1
  <2>12. AccountOK(F \ {c})'
    <3>1. F \ {c} \subseteq Chunks /\ (F \ {c}) \cap lost' = {}
      BY <1>1, <1>3 DEF AccountOK
    <3>2. \A m \in Messages : Carries(m)' => chunkOf'[m] \notin F \ {c} /\ chunkOf'[m] \notin lost'
      BY <1>1, <1>3, <2>3, <2>5, <2>10, <2>11 DEF AccountOK
    <3>3. \A m, n \in Messages : Carries(m)' /\ Carries(n)' /\ chunkOf'[m] = chunkOf'[n] => m = n
      BY <1>3, <2>5, <2>10, <2>11 DEF AccountOK
    <3>4. \A d \in Chunks : d \in F \ {c} \/ d \in lost' \/ \E m \in Messages : Carries(m)' /\ chunkOf'[m] = d
      BY <1>1, <1>2, <1>3, <2>5, <2>9, <2>10, <2>11 DEF AccountOK
    <3> QED
      BY <3>1, <3>2, <3>3, <3>4 DEF AccountOK
  <2>13. UsersOK'
    <3> SUFFICES ASSUME NEW m \in Messages, Carries(m)', m = wt' => Claimed'
                 PROVE  conns'[chunkOf'[m]] = Users(m)'
      BY DEF UsersOK
    <3>1. m # wt /\ Carries(m)
      BY <1>1, <2>10
    <3>2. conns[chunkOf[m]] = Users(m)
      BY <1>2, <3>1 DEF UsersOK
    <3> QED
      BY <1>5, <2>6, <2>11, <3>1, <3>2
  <2>14. SendingOK'
    BY <1>1, <1>8, <2>5, <2>6 DEF SendingOK
  <2>15. HoldsOK'
    <3>1. ASSUME NEW r \in Readers, NEW h \in held[r]
          PROVE  conns'[h.chunk] \subseteq conns[h.chunk]
      <4>1. h.chunk = chunkOf[h.msg] /\ h.msg \in Messages /\ h.chunk \in Chunks
        BY <1>2 DEF HoldsOK, HoldOK
      <4>2. Has(r, h.msg)
        BY DEF Has
      <4>3. Carries(h.msg)
        BY <4>1, <4>2, PoolTypes DEF Carries, Users
      <4> QED
        BY <2>6, <2>11, <4>1, <4>3
    <3> QED
      BY <1>1, <1>2, <1>4, <2>5, <3>1, ProducerHolds
  <2> QED
    BY <2>3, <2>8, <2>12, <2>13, <2>14, <2>15 DEF ChunkInv, UseInv
<1> QED
  BY <1>7, <1>8

\* A send fails: the chunk of a loan goes back, that of another send is lost.
LEMMA ChunkFailed ==
  ASSUME ChunkInv, QuietInv', FailedSend
  PROVE  ChunkInv'
<1>1. /\ wpc \notin {"idle", "sniff"} /\ wpc' = "idle" /\ ~Claimed /\ ~Claimed'
      /\ UNCHANGED <<cc, wt, rc, readerVars, conns, chunkOf, pend, held>>
  BY DEF FailedSend, WaitTimeout, ForceLoad, DiscardLoan, Claimed
<1>2. /\ Messages \subseteq Nat /\ wt \in Nat /\ QuietInv /\ TypeOKChunks /\ HoldsOK /\ UsersOK
      /\ wt \in Messages
  BY UseTypes DEF ChunkInv, UseInv
<1>3. PICK F : PoolOK(F) /\ AccountOK(F)
  BY DEF ChunkInv
<1>4. \A m : Owed(m)' = Owed(m)
  BY <1>1, OwedStays
<1>5. \A m \in Messages : Users(m)' = Users(m)
  BY <1>1, <1>4, ProducerUsers
<1>6. Users(wt) = {}
  BY <1>1, <1>2, UsersAre
<1>7. HoldsOK' /\ SendingOK'
  <2>1. HoldsOK'
    BY <1>1, <1>4, ProducerHolds
  <2> QED
    BY <1>1, <2>1 DEF SendingOK
<1>8. /\ ~Carries(wt)' /\ (Carries(wt) <=> chunkOf[wt] # NoChunk)
      /\ \A m \in Messages \ {wt} : Carries(m)' <=> Carries(m)
  BY <1>1, <1>2, <1>5, <1>6 DEF Carries
<1>9. UsersOK'
  <2> SUFFICES ASSUME NEW m \in Messages, Carries(m)' PROVE conns'[chunkOf'[m]] = Users(m)'
    BY DEF UsersOK
  <2>1. m # wt /\ Carries(m)
    BY <1>1, <1>8
  <2> QED
    BY <1>1, <1>2, <1>5, <2>1 DEF UsersOK
<1>10. PICK c : c = chunkOf[wt]
  OBVIOUS
<1>11. /\ chunkOf \in [Messages -> Chunks \cup {NoChunk}] /\ next \in [Chunks -> Chunks \cup {NoChunk}]
       /\ head \in Chunks \cup {NoChunk} /\ lost \subseteq Chunks /\ conns \in [Chunks -> SUBSET Bits]
       /\ pend \in [Readers -> Chunks \cup {NoChunk}] /\ held \in [Readers -> SUBSET Hold]
  BY <1>2 DEF TypeOKChunks
<1>12. c \in Chunks \cup {NoChunk}
  BY <1>2, <1>10, <1>11
<1>13. CASE c = NoChunk
  <2>1. UNCHANGED <<next, head, lost>>
    BY <1>10, <1>13 DEF FailedSend
  <2>2. \A m \in Messages : Carries(m)' <=> Carries(m)
    <3> SUFFICES ASSUME NEW m \in Messages, m = wt PROVE Carries(m)' <=> Carries(m)
      BY <1>8
    <3> QED
      BY <1>1, <1>8, <1>10, <1>13 DEF Carries
  <2>3. PoolOK(F)' /\ AccountOK(F)'
    BY <1>1, <1>3, <2>1, <2>2, AccountStays
  <2>4. TypeOKChunks'
    BY <1>1, <1>11, <2>1 DEF TypeOKChunks
  <2> QED
    BY <1>7, <1>9, <2>3, <2>4 DEF ChunkInv, UseInv
<1>14. CASE c # NoChunk
  <2>1. c \in Chunks /\ c \notin F /\ c \notin lost /\ Carries(wt)
    BY <1>2, <1>3, <1>8, <1>10, <1>12, <1>14 DEF AccountOK
  <2>2. \A m \in Messages : Carries(m)' => Carries(m) /\ m # wt /\ chunkOf[m] # c
    <3> SUFFICES ASSUME NEW m \in Messages, Carries(m)'
                 PROVE  Carries(m) /\ m # wt /\ chunkOf[m] # c
      OBVIOUS
    <3>1. m # wt
      BY <1>1, <1>8 DEF Carries
    <3>2. Carries(m)
      BY <1>8, <3>1
    <3> QED
      BY <1>2, <1>3, <1>10, <2>1, <3>1, <3>2 DEF AccountOK
  <2>3. \A m \in Messages : Carries(m) /\ chunkOf[m] # c => Carries(m)'
    BY <1>8, <1>10
  <2>4. CASE wop = "loan"
    <3>1. Release(c) /\ lost' = lost
      BY <1>10, <1>14, <2>4 DEF FailedSend
    <3>2. PoolOK(F \cup {c})'
      BY <1>3, <1>11, <2>1, <3>1, PoolGive
    <3>3. AccountOK(F \cup {c})'
      BY <1>1, <1>3, <2>1, <2>2, <2>3, <3>1 DEF AccountOK
    <3>4. next' \in [Chunks -> Chunks \cup {NoChunk}] /\ head' \in Chunks \cup {NoChunk}
      BY <1>11, <2>1, <3>1 DEF Release
    <3>5. TypeOKChunks'
      BY <1>1, <1>11, <3>1, <3>4 DEF TypeOKChunks
    <3> QED
      BY <1>7, <1>9, <3>2, <3>3, <3>5 DEF ChunkInv, UseInv
  <2>5. CASE wop # "loan"
    <3>1. lost' = lost \cup {c} /\ UNCHANGED <<next, head>>
      BY <1>10, <1>14, <2>5 DEF FailedSend
    <3>2. PoolOK(F)'
      BY <1>3, <3>1 DEF PoolOK, Path
    <3>3. AccountOK(F)'
      BY <1>1, <1>3, <2>1, <2>2, <2>3, <3>1 DEF AccountOK
    <3>4. TypeOKChunks'
      BY <1>1, <1>11, <2>1, <3>1 DEF TypeOKChunks
    <3> QED
      BY <1>7, <1>9, <3>2, <3>3, <3>4 DEF ChunkInv, UseInv
  <2> QED
    BY <2>4, <2>5
<1> QED
  BY <1>13, <1>14

\* Some of those who had message o let go of it: with the last of them the chunk goes back.
LEMMA GiveUp ==
  ASSUME UseInv, \E F : PoolOK(F) /\ AccountOK(F),
         NEW o \in Messages, o < wt, Carries(o), NEW c, c = chunkOf[o], NEW rest \in SUBSET Bits,
         conns' = [conns EXCEPT ![c] = rest],
         IF rest = {} THEN Release(c) ELSE UNCHANGED <<next, head>>,
         UNCHANGED <<wt, chunkOf, lost, cc, wop>>,
         Claimed' <=> Claimed, wpc' = wpc \/ Claimed,
         Users(o)' = rest, \A m \in Messages \ {o} : Users(m)' = Users(m)
  PROVE  /\ UsersOK' /\ SendingOK' /\ conns' \in [Chunks -> SUBSET Bits]
         /\ next' \in [Chunks -> Chunks \cup {NoChunk}] /\ head' \in Chunks \cup {NoChunk}
         /\ \E F : PoolOK(F)' /\ AccountOK(F)'
<1>1. /\ Messages \subseteq Nat /\ wt \in Nat /\ wt \in Messages /\ UsersOK /\ SendingOK
      /\ chunkOf \in [Messages -> Chunks \cup {NoChunk}] /\ conns \in [Chunks -> SUBSET Bits]
  BY UseTypes DEF UseInv
<1>2. next \in [Chunks -> Chunks \cup {NoChunk}] /\ head \in Chunks \cup {NoChunk}
  BY DEF UseInv, TypeOKChunks
<1>3. PICK F : PoolOK(F) /\ AccountOK(F)
  OBVIOUS
<1>4. c \in Chunks /\ c \notin F /\ c \notin lost /\ o # wt
  BY <1>1, <1>3 DEF AccountOK, Carries
<1>5. wpc = "idle" <=> wpc' = "idle"
  BY DEF Claimed
<1>6. /\ \A m \in Messages \ {o} : Carries(m)' <=> Carries(m)
      /\ Carries(o)' <=> rest # {}
  BY <1>4, <1>5 DEF Carries
<1>7. \A m \in Messages \ {o} : Carries(m) => chunkOf[m] \in Chunks \ {c}
  BY <1>1, <1>3 DEF AccountOK, Carries
<1>8. /\ conns'[c] = rest /\ \A d \in Chunks \ {c} : conns'[d] = conns[d]
      /\ conns' \in [Chunks -> SUBSET Bits]
  BY <1>1, <1>4
<1>9. UsersOK'
  <2> SUFFICES ASSUME NEW m \in Messages, Carries(m)', m = wt' => Claimed'
               PROVE  conns'[chunkOf'[m]] = Users(m)'
    BY DEF UsersOK
  <2>1. CASE m = o
    BY <1>8, <2>1
  <2>2. CASE m # o
    <3>1. Carries(m) /\ (m = wt => Claimed)
      BY <1>6, <2>2
    <3>2. conns[chunkOf[m]] = Users(m)
      BY <1>1, <3>1 DEF UsersOK
    <3> QED
      BY <1>7, <1>8, <2>2, <3>1, <3>2
  <2> QED
    BY <2>1, <2>2
<1>10. SendingOK'
  <2>1. chunkOf[wt] # NoChunk /\ wpc # "idle" => conns'[chunkOf[wt]] = conns[chunkOf[wt]]
    BY <1>1, <1>4, <1>7, <1>8 DEF Carries
  <2>2. ~Claimed => wpc' = wpc
    OBVIOUS
  <2> QED
    BY <1>1, <2>1, <2>2 DEF SendingOK
<1>11. next' \in [Chunks -> Chunks \cup {NoChunk}] /\ head' \in Chunks \cup {NoChunk}
  BY <1>2, <1>4 DEF Release
<1>12. CASE rest = {}
  <2>1. Release(c)
    BY <1>12
  <2>2. PoolOK(F \cup {c})'
    BY <1>2, <1>3, <1>4, <2>1, PoolGive
  <2>3. AccountOK(F \cup {c})'
    BY <1>3, <1>4, <1>6, <1>7, <1>12 DEF AccountOK
  <2> QED
    BY <1>8, <1>9, <1>10, <1>11, <2>2, <2>3
<1>13. CASE rest # {}
  <2>1. UNCHANGED <<next, head>>
    BY <1>13
  <2>2. \A m \in Messages : Carries(m)' <=> Carries(m)
    BY <1>6, <1>13
  <2>3. PoolOK(F)' /\ AccountOK(F)'
    BY <1>3, <2>1, <2>2, AccountStays
  <2> QED
    BY <1>8, <1>9, <1>10, <1>11, <2>3
<1> QED
  BY <1>12, <1>13

\* The old message loses the receivers that will never see it.
LEMMA ChunkOverwrite ==
  ASSUME ChunkInv, QuietInv', Overwrite
  PROVE  ChunkInv'
<1>1. /\ WriteBegin /\ wpc = "prep" /\ wpc' = "write" /\ Claimed /\ Claimed'
      /\ UNCHANGED <<cc, wt, wop, rc, wrc, readerVars, chunkOf, pend, held, lost>>
  BY DEF Overwrite, WriteBegin, Claimed
<1>2. /\ Messages \subseteq Nat /\ TypeOK /\ wt \in Nat /\ QuietInv /\ TypeOKChunks /\ HoldsOK /\ UsersOK
      /\ wt \in Messages /\ SendingOK /\ RingSlots \in Nat \ {0} /\ SlotsOK /\ wt <= MaxWt
      /\ \A r \in Readers : \A h \in held[r] : h.chunk \in Chunks
  BY UseTypes DEF ChunkInv, UseInv, QuietInv, SendOK
<1>3. \A m \in Int : Owed(m)' = IF m = wt - RingSlots THEN {} ELSE Owed(m)
  BY <1>1, <1>2, OwedCleared
<1>4. \A m \in Messages : m # wt - RingSlots => Users(m)' = Users(m)
  <2> SUFFICES ASSUME NEW m \in Messages, m # wt - RingSlots PROVE Users(m)' = Users(m)
    OBVIOUS
  <2>1. Owed(m)' = Owed(m)
    BY <1>2, <1>3
  <2> QED
    BY <1>1, <2>1, ProducerUsers
<1>5. PICK o \in Int : o = wt - RingSlots
  BY <1>2
<1>6. PICK c : c = IF data[index_of(wt)] = NoMsg THEN NoChunk ELSE chunkOf[data[index_of(wt)]]
  OBVIOUS
<1>7. /\ \/ c # NoChunk /\ wrc.bits # {} /\ Discard(c, wrc.bits)
         \/ (c = NoChunk \/ wrc.bits = {}) /\ UNCHANGED <<next, head, conns>>
  BY <1>6 DEF Overwrite
<1>8. \A m \in Messages : m < wt => chunkOf'[m] = chunkOf[m] /\ Owed(m)' \subseteq Owed(m)
  BY <1>1, <1>2, <1>3
<1>9. o \in Messages => data[index_of(wt)] = o /\ c = chunkOf[o] /\ o < wt /\ Owed(o) = wrc.bits
  <2> SUFFICES ASSUME o \in Messages
               PROVE data[index_of(wt)] = o /\ c = chunkOf[o] /\ o < wt /\ Owed(o) = wrc.bits
    OBVIOUS
  <2>1. o \in Nat /\ Leaving(o)
    BY <1>1, <1>2, <1>5 DEF Leaving
  <2>2. data[index_of(o)] = o
    BY <1>2, <2>1 DEF SlotsOK
  <2>3. index_of(o) = index_of(wt)
    BY <1>2, <1>5, RingTypes
  <2>4. o # NoMsg /\ o < wt
    BY <1>2, <1>5, <2>1 DEF NoMsg
  <2>5. Owed(o) = wrc.bits
    BY <1>1, <1>2, <1>5, OwedCleared
  <2> QED
    BY <1>6, <2>2, <2>3, <2>4, <2>5
<1>10. o \notin Messages => c = NoChunk
  <2> SUFFICES ASSUME o \notin Messages PROVE c = NoChunk
    OBVIOUS
  <2>1. wt < RingSlots /\ wt \in Slots
    BY <1>2, <1>5, RingAssumption DEF Messages, Slots
  <2>2. index_of(wt) = wt
    BY <2>1, IndexSmall
  <2>3. data[wt] = NoMsg
    BY <1>1, <1>2, <2>1 DEF SlotsOK
  <2> QED
    BY <1>6, <2>2, <2>3
<1>11. CASE c = NoChunk \/ wrc.bits = {}
  <2>1. UNCHANGED <<next, head, conns>>
    BY <1>7, <1>11
  <2>2. \A m \in Messages : m # o \/ wrc.bits = {} => Users(m)' = Users(m)
    <3> SUFFICES ASSUME NEW m \in Messages, m = o, wrc.bits = {} PROVE Users(m)' = Users(m)
      BY <1>4, <1>5
    <3>1. Owed(m)' = Owed(m)
      BY <1>3, <1>5, <1>9
    <3> QED
      BY <1>1, <3>1, ProducerUsers
  <2>3. \A m \in Messages : Carries(m)' <=> Carries(m)
    <3> SUFFICES ASSUME NEW m \in Messages PROVE Carries(m)' <=> Carries(m)
      OBVIOUS
    <3>1. CASE m # o \/ wrc.bits = {}
      BY <1>1, <2>2, <3>1 DEF Carries
    <3>2. CASE m = o /\ c = NoChunk
      BY <1>1, <1>9, <3>2 DEF Carries
    <3> QED
      BY <1>11, <3>1, <3>2
  <2>4. UsersOK'
    <3> SUFFICES ASSUME NEW m \in Messages, Carries(m)', m = wt' => Claimed'
                 PROVE  conns'[chunkOf'[m]] = Users(m)'
      BY DEF UsersOK
    <3>1. Carries(m)
      BY <2>3
    <3>2. m # o \/ wrc.bits = {}
      BY <1>9, <1>11, <3>1 DEF Carries
    <3>3. Users(m)' = Users(m)
      BY <2>2, <3>2
    <3> QED
      BY <1>1, <1>2, <2>1, <3>1, <3>3 DEF UsersOK
  <2>5. SendingOK'
    BY <1>1, <1>2, <2>1 DEF SendingOK
  <2>6. HoldsOK'
    BY <1>1, <1>8, <2>1, ProducerHolds
  <2>7. TypeOKChunks'
    BY <1>1, <1>2, <2>1 DEF TypeOKChunks
  <2>8. PICK F : PoolOK(F) /\ AccountOK(F)
    BY DEF ChunkInv
  <2>9. PoolOK(F)' /\ AccountOK(F)'
    BY <1>1, <2>1, <2>3, <2>8, AccountStays
  <2> QED
    BY <2>4, <2>5, <2>6, <2>7, <2>9 DEF ChunkInv, UseInv
<1>12. CASE c # NoChunk /\ wrc.bits # {}
  <2>1. o \in Messages /\ c = chunkOf[o] /\ o < wt /\ Owed(o) = wrc.bits
    BY <1>9, <1>10, <1>12
  <2>2. PICK rest : rest = conns[c] \ wrc.bits
    OBVIOUS
  <2>3. /\ conns' = [conns EXCEPT ![c] = rest]
        /\ IF rest = {} THEN Release(c) ELSE UNCHANGED <<next, head>>
    BY <1>7, <1>12, <2>2 DEF Discard
  <2>4. Owed(o) \subseteq Users(o) /\ \A r \in Readers : Connected(r) => (conn[r] \in Users(o) <=> Has(r, o))
    BY <1>2, <1>5, UsersAre
  <2>5. Carries(o)
    BY <1>12, <2>1, <2>4 DEF Carries
  <2>6. conns[c] = Users(o)
    BY <1>2, <2>1, <2>5 DEF UsersOK
  <2>7. \A r \in Readers : Has(r, o)' <=> Has(r, o) /\ conn[r] \notin Owed(o)
    <3> SUFFICES ASSUME NEW r \in Readers PROVE Has(r, o)' <=> Has(r, o) /\ conn[r] \notin Owed(o)
      OBVIOUS
    <3>1. Owed(o)' = {}
      BY <1>3, <1>5
    <3>2. pend[r] # NoChunk /\ got[r] = o => conn[r] \notin Owed(o)
      BY <1>2 DEF HoldsOK, HoldOK
    <3>3. \A h \in held[r] : h.msg = o => conn[r] \notin Owed(o)
      BY <1>2 DEF HoldsOK, HoldOK
    <3> QED
      BY <1>1, <3>1, <3>2, <3>3 DEF Has, readerVars
  <2>8. Users(o)' = rest
    <3>1. \A x : x \in Users(o) <=> \E r \in Readers : Has(r, o) /\ conn[r] = x
      BY DEF Users
    <3>2. \A x : x \in Users(o)' <=> \E r \in Readers : Has(r, o)' /\ conn'[r] = x
      BY DEF Users
    <3>3. conn' = conn
      BY <1>1 DEF readerVars
    <3> QED
      BY <2>1, <2>2, <2>6, <2>7, <3>1, <3>2, <3>3
  <2>9. c \in Chunks /\ conns \in [Chunks -> SUBSET Bits]
    BY <1>2, <1>12, <2>1, UseTypes
  <2>10. rest \in SUBSET Bits
    BY <2>2, <2>9
  <2>11. \A m \in Messages \ {o} : Users(m)' = Users(m)
    BY <1>4, <1>5
  <2>12. /\ UsersOK' /\ SendingOK' /\ conns' \in [Chunks -> SUBSET Bits]
         /\ next' \in [Chunks -> Chunks \cup {NoChunk}] /\ head' \in Chunks \cup {NoChunk}
         /\ \E F : PoolOK(F)' /\ AccountOK(F)'
    <3>1. UseInv /\ \E F : PoolOK(F) /\ AccountOK(F)
      BY DEF ChunkInv
    <3> QED
      BY <1>1, <2>1, <2>3, <2>5, <2>8, <2>10, <2>11, <3>1, GiveUp
  <2>13. TypeOKChunks'
    BY <1>1, <1>2, <2>12 DEF TypeOKChunks
  <2>14. \A d \in Chunks : conns'[d] \subseteq conns[d]
    BY <2>2, <2>3, <2>9
  <2>15. HoldsOK'
    BY <1>1, <1>2, <1>8, <2>14, ProducerHolds
  <2> QED
    BY <2>12, <2>13, <2>15 DEF ChunkInv, UseInv
<1> QED
  BY <1>11, <1>12

\* recv() takes a message from the ring: it is its receiver's to give back as before.
LEMMA ChunkPop ==
  ASSUME ChunkInv, QuietInv', NeverLapped, NEW r \in Readers, RecvPop(r)
  PROVE  ChunkInv'
<1>1. /\ PopDeliver(r) /\ rpc[r] = "clear" /\ lag[r] < RingSlots
      /\ UNCHANGED <<cc, wt, wpc, wop, wcc, wrc, conn, cursor, got, next, head, conns, chunkOf, held, lost>>
      /\ rpc' = [rpc EXCEPT ![r] = "idle"]
  BY DEF RecvPop, PopDeliver, Delivers, NeverLapped, writerVars
<1>2. /\ Messages \subseteq Nat /\ TypeOK /\ wt \in Nat /\ QuietInv /\ TypeOKChunks /\ HoldsOK /\ UsersOK
      /\ SendingOK /\ RingSlots \in Nat \ {0} /\ wt <= MaxWt /\ ConnectedStay /\ MemberOK /\ OwedOK
      /\ NoBit \notin Bits /\ cc \subseteq Bits /\ cursor[r] \in Nat /\ cursor[r] <= wt
      /\ HoldOK(r) /\ MaxWt \in Nat
  BY UseTypes, RingTypes DEF ChunkInv, UseInv, QuietInv, SendOK, HoldsOK
<1>3. PICK p \in Nat : p = cursor[r] - 1
  BY <1>1, <1>2, OwedTaken
<1>4. /\ got[r] = p /\ conn[r] \in Owed(p)
      /\ \A m \in Int : Owed(m)' = IF m = p THEN Owed(m) \ {conn[r]} ELSE Owed(m)
  BY <1>1, <1>2, <1>3, OwedTaken
<1>5. p \in Messages /\ p < wt /\ chunkOf[p] \in Chunks \cup {NoChunk}
  BY <1>2, <1>3, UseTypes DEF Messages
<1>6. pend' = [pend EXCEPT ![r] = chunkOf[p]]
  <2>1. got[r] # Torn
    BY <1>3, <1>4 DEF Torn
  <2>2. Copied(r) = {chunkOf[p]}
    BY <1>4, <2>1 DEF Copied
  <2> QED
    BY <2>2 DEF RecvPop
<1>7. /\ rpc \in [Readers -> ReaderPC] /\ pend \in [Readers -> Chunks \cup {NoChunk}]
  BY <1>2, UseTypes DEF TypeOK
<1>8. /\ rpc'[r] = "idle" /\ pend'[r] = chunkOf[p] /\ pend[r] = NoChunk
      /\ \A s \in Readers \ {r} : rpc'[s] = rpc[s] /\ pend'[s] = pend[s]
      /\ pend' \in [Readers -> Chunks \cup {NoChunk}]
  BY <1>1, <1>2, <1>5, <1>6, <1>7 DEF HoldOK
<1>9. \A s \in Readers \ {r} : conn[s] # conn[r]
  <2>1. conn[r] \in cc /\ rpc[r] # "off"
    BY <1>1, <1>4 , <1>2 DEF OwedOK
  <2> QED
    BY <1>2, <2>1 DEF MemberOK, ConnectedStay
<1>10. \A s \in Readers \ {r} : \A m \in Int : Has(s, m)' <=> Has(s, m)
  <2> SUFFICES ASSUME NEW s \in Readers \ {r}, NEW m \in Int PROVE Has(s, m)' <=> Has(s, m)
    OBVIOUS
  <2>1. conn[s] \in Owed(m)' <=> conn[s] \in Owed(m)
    BY <1>4, <1>9
  <2> QED
    BY <1>1, <1>8, <2>1 DEF Has
<1>11. \A m \in Int : m # p => (Has(r, m)' <=> Has(r, m))
  <2> SUFFICES ASSUME NEW m \in Int, m # p PROVE Has(r, m)' <=> Has(r, m)
    OBVIOUS
  <2>1. Owed(m)' = Owed(m)
    BY <1>4
  <2> QED
    BY <1>1, <1>4, <1>8, <2>1 DEF Has
<1>12. Has(r, p) /\ (chunkOf[p] # NoChunk => Has(r, p)')
  BY <1>1, <1>4, <1>8 DEF Has
<1>13. \A m \in Messages : chunkOf[m] # NoChunk => Users(m)' = Users(m)
  <2> SUFFICES ASSUME NEW m \in Messages, chunkOf[m] # NoChunk PROVE Users(m)' = Users(m)
    OBVIOUS
  <2>1. m \in Int
    BY <1>2
  <2>2. Has(r, m)' <=> Has(r, m)
    BY <1>11, <1>12, <2>1
  <2> QED
    BY <1>1, <1>10, <2>1, <2>2, UsersSame
<1>14. \A m \in Messages : Carries(m)' <=> Carries(m)
  BY <1>1, <1>13 DEF Carries
<1>15. UsersOK'
  <2> SUFFICES ASSUME NEW m \in Messages, Carries(m)', m = wt' => Claimed'
               PROVE  conns'[chunkOf'[m]] = Users(m)'
    BY DEF UsersOK
  <2>1. Carries(m) /\ (m = wt => Claimed) /\ chunkOf[m] # NoChunk
    BY <1>1, <1>14 DEF Carries, Claimed
  <2> QED
    BY <1>1, <1>2, <1>13, <2>1 DEF UsersOK
<1>16. SendingOK'
  BY <1>1, <1>2 DEF SendingOK, Claimed
<1>17. HoldOK(r)'
  <2>1. Connected(r)' /\ ~Reading(r)' /\ Connected(r) /\ Reading(r)
    BY <1>1, <1>8 DEF Connected, Reading
  <2>2. pend'[r] # NoChunk =>
          /\ rpc'[r] = "idle" /\ got'[r] \in Messages /\ got'[r] = cursor'[r] - 1
          /\ pend'[r] = chunkOf'[got'[r]] /\ conn'[r] \notin Owed(got[r])'
    <3>1. conn[r] \notin Owed(p)'
      BY <1>4
    <3>2. got'[r] = p
      BY <1>1, <1>4
    <3> QED
      BY <1>1, <1>3, <1>4, <1>5, <1>8, <3>1, <3>2
  <2>3. ASSUME NEW h \in held[r]
        PROVE  /\ Connected(r)' /\ h.id = conn'[r] /\ h.msg \in Messages /\ h.msg < cursor'[r]
               /\ (Reading(r)' \/ pend'[r] # NoChunk => h.msg < cursor'[r] - 1)
               /\ h.chunk = chunkOf'[h.msg] /\ conn'[r] \notin Owed(h.msg)'
               /\ conns'[h.chunk] \subseteq h.curr
    <3>1. /\ h.id = conn[r] /\ h.msg \in Messages /\ h.msg < cursor[r] /\ h.msg < cursor[r] - 1
          /\ h.chunk = chunkOf[h.msg] /\ conn[r] \notin Owed(h.msg)
          /\ conns[h.chunk] \subseteq h.curr
      BY <1>2, <2>1 DEF HoldOK
    <3>2. h.msg \in Int /\ h.msg # p
      <4>1. h.msg \in Messages /\ Messages \subseteq Nat
        BY <1>2, <3>1
      <4>2. h.msg \in Nat
        BY <4>1
      <4>3. h.msg < cursor[r] - 1
        BY <3>1
      <4> QED
        BY <1>3, <4>2, <4>3
    <3>3. Owed(h.msg)' = Owed(h.msg)
      BY <1>4, <3>2
    <3> QED
      BY <1>1, <2>1, <3>1, <3>3
  <2>4. \A h, g \in held'[r] : h.msg = g.msg => h = g
    BY <1>1, <1>2 DEF HoldOK
  <2> QED
    BY <1>1, <2>2, <2>3, <2>4 DEF HoldOK
<1>18. HoldsOK'
  <2> SUFFICES ASSUME NEW s \in Readers, s # r PROVE HoldOK(s)'
    BY <1>17 DEF HoldsOK
  <2>1. HoldOK(s)
    BY <1>2 DEF HoldsOK
  <2>2. rpc'[s] = rpc[s] /\ conn'[s] = conn[s] /\ cursor'[s] = cursor[s] /\ got'[s] = got[s]
        /\ pend'[s] = pend[s] /\ held'[s] = held[s]
    BY <1>1, <1>8
  <2>3. \A m \in Messages : chunkOf'[m] = chunkOf[m] /\ Owed(m)' \subseteq Owed(m)
    BY <1>1, <1>2, <1>4
  <2>4. \A h \in held[s] : conns'[h.chunk] \subseteq conns[h.chunk]
    BY <1>1
  <2> QED
    BY <1>2, <2>1, <2>2, <2>3, <2>4, HoldStays
<1>19. PICK F : PoolOK(F) /\ AccountOK(F)
  BY DEF ChunkInv
<1>20. PoolOK(F)' /\ AccountOK(F)'
  BY <1>1, <1>14, <1>19, AccountStays
<1>21. TypeOKChunks'
  BY <1>1, <1>2, <1>8 DEF TypeOKChunks
<1> QED
  BY <1>15, <1>16, <1>18, <1>20, <1>21 DEF ChunkInv, UseInv

\* recv() makes a buff_t on what it popped.
LEMMA ChunkBuffer ==
  ASSUME ChunkInv, QuietInv', NEW r \in Readers, RecvBuffer(r)
  PROVE  ChunkInv'
<1>1. /\ pend[r] # NoChunk
      /\ pend' = [pend EXCEPT ![r] = NoChunk]
      /\ UNCHANGED <<cc, wt, rc, wpc, wop, wcc, wrc, rpc, conn, cursor, got, next, head, conns, chunkOf, lost>>
  BY DEF RecvBuffer, vars, writerVars, readerVars
<1>2. /\ Messages \subseteq Nat /\ TypeOK /\ wt \in Nat /\ QuietInv /\ TypeOKChunks /\ HoldsOK /\ UsersOK
      /\ SendingOK /\ cursor[r] \in Nat /\ cursor[r] <= wt /\ HoldOK(r) /\ cc \subseteq Bits
      /\ pend \in [Readers -> Chunks \cup {NoChunk}] /\ held \in [Readers -> SUBSET Hold]
      /\ conn[r] \in Bits \cup {NoBit}
  BY UseTypes, RingTypes DEF ChunkInv, UseInv, HoldsOK
<1>3. PICK g \in Messages : g = got[r]
  BY <1>1, <1>2 DEF HoldOK
<1>4. /\ rpc[r] = "idle" /\ g = cursor[r] - 1 /\ pend[r] = chunkOf[g] /\ conn[r] \notin Owed(g)
      /\ g < wt /\ g < cursor[r] /\ g \in Int /\ chunkOf[g] \in Chunks
  BY <1>1, <1>2, <1>3 DEF HoldOK
<1>5. PICK k : k = [chunk |-> chunkOf[g], curr |-> cc, id |-> conn[r], msg |-> g]
  OBVIOUS
<1>6. held' = [held EXCEPT ![r] = @ \cup {k}]
  BY <1>3, <1>4, <1>5 DEF RecvBuffer
<1>7. \A m : Owed(m)' = Owed(m)
  BY <1>1, OwedStays
<1>8. Has(r, g) /\ Connected(r) /\ conn[r] \in cc
  BY <1>1, <1>2, <1>3, <1>4, HasBound DEF Has
<1>9. k \in Hold /\ k.chunk = chunkOf[g] /\ k.curr = cc /\ k.id = conn[r] /\ k.msg = g
  BY <1>2, <1>4, <1>5, <1>8 DEF Hold
<1>10. /\ pend'[r] = NoChunk /\ held'[r] = held[r] \cup {k}
       /\ \A s \in Readers \ {r} : pend'[s] = pend[s] /\ held'[s] = held[s]
       /\ pend' \in [Readers -> Chunks \cup {NoChunk}] /\ held' \in [Readers -> SUBSET Hold]
  BY <1>1, <1>2, <1>6, <1>9
<1>11. \A s \in Readers : \A m \in Int : Has(s, m)' <=> Has(s, m)
  <2>1. \A s \in Readers \ {r} : \A m \in Int : Has(s, m)' <=> Has(s, m)
    BY <1>1, <1>7, <1>10 DEF Has
  <2>2. ASSUME NEW m \in Int PROVE Has(r, m)' <=> Has(r, m)
    <3>1. (\E h \in held'[r] : h.msg = m) <=> ((\E h \in held[r] : h.msg = m) \/ m = g)
      BY <1>9, <1>10
    <3>2. pend[r] # NoChunk /\ pend'[r] = NoChunk /\ (got[r] = m <=> m = g)
      BY <1>1, <1>3, <1>10
    <3>3. conn'[r] \in Owed(m)' <=> conn[r] \in Owed(m)
      BY <1>1, <1>7
    <3> QED
      BY <3>1, <3>2, <3>3 DEF Has
  <2> QED
    BY <2>1, <2>2
<1>12. \A m \in Messages : Users(m)' = Users(m)
  <2> SUFFICES ASSUME NEW m \in Messages PROVE Users(m)' = Users(m)
    OBVIOUS
  <2>1. m \in Int
    BY <1>2
  <2> QED
    BY <1>1, <1>11, <2>1, UsersSame
<1>13. \A m \in Messages : Carries(m)' <=> Carries(m)
  BY <1>1, <1>12 DEF Carries
<1>14. UsersOK' /\ SendingOK'
  <2>1. UsersOK'
    BY <1>1, <1>2, <1>12, <1>13 DEF UsersOK, Claimed
  <2>2. SendingOK'
    BY <1>1, <1>2 DEF SendingOK, Claimed
  <2> QED
    BY <2>1, <2>2
<1>15. conns[chunkOf[g]] \subseteq cc
  <2>1. Carries(g) /\ g # wt
    BY <1>1, <1>2, <1>4, <1>8 DEF Carries, Users
  <2>2. conns[chunkOf[g]] = Users(g)
    BY <1>2, <2>1 DEF UsersOK
  <2> QED
    BY <1>2, <1>4, <2>2, UsersAre
<1>16. HoldOK(r)'
  <2>1. Connected(r)' /\ ~Reading(r)'
    BY <1>1, <1>4 DEF Connected, Reading
  <2>2. ASSUME NEW h \in held'[r]
        PROVE  /\ Connected(r)' /\ h.id = conn'[r] /\ h.msg \in Messages /\ h.msg < cursor'[r]
               /\ (Reading(r)' \/ pend'[r] # NoChunk => h.msg < cursor'[r] - 1)
               /\ h.chunk = chunkOf'[h.msg] /\ conn'[r] \notin Owed(h.msg)'
               /\ conns'[h.chunk] \subseteq h.curr
    <3>1. CASE h = k
      BY <1>1, <1>4, <1>7, <1>9, <1>10, <1>15, <2>1, <3>1
    <3>2. CASE h \in held[r]
      <4>1. /\ h.id = conn[r] /\ h.msg \in Messages /\ h.msg < cursor[r]
            /\ h.chunk = chunkOf[h.msg] /\ conn[r] \notin Owed(h.msg)
            /\ conns[h.chunk] \subseteq h.curr
        BY <1>2, <3>2 DEF HoldOK
      <4> QED
        BY <1>1, <1>7, <1>10, <2>1, <4>1
    <3> QED
      BY <1>10, <3>1, <3>2
  <2>3. \A h, j \in held'[r] : h.msg = j.msg => h = j
    <3>1. \A h \in held[r] : h.msg # g
      <4> SUFFICES ASSUME NEW h \in held[r] PROVE h.msg # g
        OBVIOUS
      <4>1. h.msg \in Messages /\ h.msg < cursor[r] - 1
        BY <1>1, <1>2 DEF HoldOK
      <4> QED
        BY <1>4, <4>1
    <3>2. \A h, j \in held[r] : h.msg = j.msg => h = j
      BY <1>2 DEF HoldOK
    <3> QED
      BY <1>9, <1>10, <3>1, <3>2
  <2> QED
    BY <1>10, <2>2, <2>3 DEF HoldOK
<1>17. HoldsOK'
  <2> SUFFICES ASSUME NEW s \in Readers, s # r PROVE HoldOK(s)'
    BY <1>16 DEF HoldsOK
  <2>1. HoldOK(s)
    BY <1>2 DEF HoldsOK
  <2>2. rpc'[s] = rpc[s] /\ conn'[s] = conn[s] /\ cursor'[s] = cursor[s] /\ got'[s] = got[s]
        /\ pend'[s] = pend[s] /\ held'[s] = held[s]
    BY <1>1, <1>10
  <2>3. \A m \in Messages : chunkOf'[m] = chunkOf[m] /\ Owed(m)' \subseteq Owed(m)
    BY <1>1, <1>7
  <2>4. \A h \in held[s] : conns'[h.chunk] \subseteq conns[h.chunk]
    BY <1>1
  <2> QED
    BY <1>2, <2>1, <2>2, <2>3, <2>4, HoldStays
<1>18. PICK F : PoolOK(F) /\ AccountOK(F)
  BY DEF ChunkInv
<1>19. PoolOK(F)' /\ AccountOK(F)'
  BY <1>1, <1>13, <1>18, AccountStays
<1>20. TypeOKChunks'
  BY <1>1, <1>2, <1>10 DEF TypeOKChunks
<1> QED
  BY <1>14, <1>17, <1>19, <1>20 DEF ChunkInv, UseInv

\* A buff_t is dropped.
LEMMA ChunkDrop ==
  ASSUME ChunkInv, QuietInv', NEW r \in Readers, NEW h \in held[r], DropBuffer(r, h)
  PROVE  ChunkInv'
<1>1. /\ held' = [held EXCEPT ![r] = @ \ {h}]
      /\ UNCHANGED <<cc, wt, rc, wpc, wop, wcc, wrc, rpc, conn, cursor, got, chunkOf, pend, lost>>
  BY DEF DropBuffer, vars, writerVars, readerVars
<1>2. /\ Messages \subseteq Nat /\ TypeOK /\ wt \in Nat /\ QuietInv /\ TypeOKChunks /\ HoldsOK /\ UsersOK
      /\ cursor[r] \in Nat /\ cursor[r] <= wt /\ HoldOK(r) /\ NoChunk \notin Chunks
      /\ held \in [Readers -> SUBSET Hold] /\ conns \in [Chunks -> SUBSET Bits]
      /\ h.chunk \in Chunks /\ ConnectedStay /\ MemberOK
  BY UseTypes, PoolTypes DEF ChunkInv, UseInv, HoldsOK, QuietInv
<1>3. PICK o \in Messages : o = h.msg
  BY <1>2 DEF HoldOK
<1>4. PICK c \in Chunks : c = h.chunk
  BY <1>2
<1>5. /\ Connected(r) /\ h.id = conn[r] /\ o < cursor[r] /\ c = chunkOf[o] /\ conn[r] \notin Owed(o)
      /\ (pend[r] # NoChunk => o < cursor[r] - 1 /\ got[r] = cursor[r] - 1) /\ conns[c] \subseteq h.curr
  BY <1>2, <1>3, <1>4 DEF HoldOK
<1>6. o < wt /\ o \in Int /\ Has(r, o)
  BY <1>2, <1>3, <1>5 DEF Has
<1>7. Carries(o)
  BY <1>2, <1>5, <1>6 DEF Carries, Users
<1>8. conns[c] = Users(o)
  BY <1>2, <1>5, <1>6, <1>7 DEF UsersOK
<1>9. PICK rest : rest = Users(o) \ {conn[r]}
  OBVIOUS
<1>10. rest = conns[c] \cap (h.curr \ {h.id})
  BY <1>5, <1>8, <1>9
<1>11. /\ conns' = [conns EXCEPT ![c] = rest]
       /\ IF rest = {} THEN Release(c) ELSE UNCHANGED <<next, head>>
  BY <1>4, <1>10 DEF DropBuffer
<1>12. rest \in SUBSET Bits
  BY <1>2, <1>8, <1>9
<1>13. \A m : Owed(m)' = Owed(m)
  BY <1>1, OwedStays
<1>14. /\ held'[r] = held[r] \ {h} /\ \A s \in Readers \ {r} : held'[s] = held[s]
       /\ held' \in [Readers -> SUBSET Hold]
  BY <1>1, <1>2
<1>15. \A s \in Readers \ {r} : \A m : Has(s, m)' <=> Has(s, m)
  BY <1>1, <1>13, <1>14 DEF Has
<1>16. \A m : m # o => (Has(r, m)' <=> Has(r, m))
  <2> SUFFICES ASSUME NEW m, m # o PROVE Has(r, m)' <=> Has(r, m)
    OBVIOUS
  <2>1. (\E g \in held'[r] : g.msg = m) <=> (\E g \in held[r] : g.msg = m)
    BY <1>3, <1>14
  <2> QED
    BY <1>1, <1>13, <2>1 DEF Has
<1>17. ~Has(r, o)'
  <2>1. \A g \in held'[r] : g.msg # o
    BY <1>2, <1>3, <1>14 DEF HoldOK
  <2>2. ~(pend[r] # NoChunk /\ got[r] = o)
    BY <1>2, <1>5, <1>6
  <2> QED
    BY <1>1, <1>5, <1>13, <2>1, <2>2 DEF Has
<1>18. \A m \in Messages \ {o} : Users(m)' = Users(m)
  BY <1>1, <1>15, <1>16, UsersSame
<1>19. Users(o)' = rest
  <2>1. \A x : x \in Users(o) <=> \E s \in Readers : Has(s, o) /\ conn[s] = x
    BY DEF Users
  <2>2. \A x : x \in Users(o)' <=> \E s \in Readers : Has(s, o)' /\ conn'[s] = x
    BY DEF Users
  <2>3. \A s \in Readers \ {r} : Has(s, o) => conn[s] # conn[r]
    <3> SUFFICES ASSUME NEW s \in Readers \ {r}, Has(s, o) PROVE conn[s] # conn[r]
      OBVIOUS
    <3>1. Connected(s)
      BY <1>2, <1>6, HasBound DEF HoldsOK
    <3> QED
      BY <1>2, <1>5, <3>1 DEF ConnectedStay, Connected
  <2> QED
    BY <1>1, <1>9, <1>15, <1>17, <2>1, <2>2, <2>3
<1>20. /\ UsersOK' /\ SendingOK' /\ conns' \in [Chunks -> SUBSET Bits]
       /\ next' \in [Chunks -> Chunks \cup {NoChunk}] /\ head' \in Chunks \cup {NoChunk}
       /\ \E F : PoolOK(F)' /\ AccountOK(F)'
  <2>1. UseInv /\ \E F : PoolOK(F) /\ AccountOK(F)
    BY DEF ChunkInv
  <2>2. (Claimed' <=> Claimed) /\ wpc' = wpc
    BY <1>1 DEF Claimed
  <2> QED
    BY <1>1, <1>5, <1>6, <1>7, <1>11, <1>12, <1>18, <1>19, <2>1, <2>2, GiveUp
<1>21. TypeOKChunks'
  BY <1>1, <1>2, <1>14, <1>20 DEF TypeOKChunks
<1>22. \A d \in Chunks : conns'[d] \subseteq conns[d]
  BY <1>2, <1>8, <1>9, <1>11
<1>23. HoldOK(r)'
  <2>1. (Connected(r)' <=> Connected(r)) /\ (Reading(r)' <=> Reading(r))
    BY <1>1 DEF Connected, Reading
  <2>2. pend'[r] # NoChunk =>
          /\ rpc'[r] = "idle" /\ got'[r] \in Messages /\ got'[r] = cursor'[r] - 1
          /\ pend'[r] = chunkOf'[got'[r]] /\ conn'[r] \notin Owed(got[r])'
    <3>1. PICK q : q = got[r]
      OBVIOUS
    <3>2. Owed(q)' = Owed(q) /\ got'[r] = q
      BY <1>1, <1>13, <3>1
    <3>3. pend[r] # NoChunk => /\ rpc[r] = "idle" /\ q \in Messages /\ q = cursor[r] - 1
                               /\ pend[r] = chunkOf[q] /\ conn[r] \notin Owed(q)
      BY <1>2, <3>1 DEF HoldOK
    <3> QED
      BY <1>1, <3>2, <3>3
  <2>3. ASSUME NEW g \in held'[r]
        PROVE  /\ Connected(r)' /\ g.id = conn'[r] /\ g.msg \in Messages /\ g.msg < cursor'[r]
               /\ (Reading(r)' \/ pend'[r] # NoChunk => g.msg < cursor'[r] - 1)
               /\ g.chunk = chunkOf'[g.msg] /\ conn'[r] \notin Owed(g.msg)'
               /\ conns'[g.chunk] \subseteq g.curr
    <3>1. g \in held[r] /\ g.chunk \in Chunks
      BY <1>2, <1>14, UseTypes DEF ChunkInv, UseInv
    <3>2. /\ g.id = conn[r] /\ g.msg \in Messages /\ g.msg < cursor[r]
          /\ (Reading(r) \/ pend[r] # NoChunk => g.msg < cursor[r] - 1)
          /\ g.chunk = chunkOf[g.msg] /\ conn[r] \notin Owed(g.msg)
          /\ conns[g.chunk] \subseteq g.curr
      BY <1>2, <3>1 DEF HoldOK
    <3>3. conns'[g.chunk] \subseteq g.curr
      BY <1>22, <3>1, <3>2
    <3>4. Owed(g.msg)' = Owed(g.msg) /\ Connected(r)'
      BY <1>5, <1>13, <2>1
    <3>5. Reading(r)' \/ pend'[r] # NoChunk => g.msg < cursor'[r] - 1
      BY <1>1, <2>1, <3>2
    <3>6. /\ g.id = conn'[r] /\ g.msg < cursor'[r] /\ g.chunk = chunkOf'[g.msg]
          /\ conn'[r] \notin Owed(g.msg)'
      BY <1>1, <3>2, <3>4
    <3> QED
      BY <3>2, <3>3, <3>4, <3>5, <3>6
  <2>4. \A j, g \in held'[r] : j.msg = g.msg => j = g
    BY <1>2, <1>14 DEF HoldOK
  <2> QED
    BY <1>1, <2>2, <2>3, <2>4 DEF HoldOK
<1>24. HoldsOK'
  <2> SUFFICES ASSUME NEW s \in Readers, s # r PROVE HoldOK(s)'
    BY <1>23 DEF HoldsOK
  <2>1. HoldOK(s)
    BY <1>2 DEF HoldsOK
  <2>2. rpc'[s] = rpc[s] /\ conn'[s] = conn[s] /\ cursor'[s] = cursor[s] /\ got'[s] = got[s]
        /\ pend'[s] = pend[s] /\ held'[s] = held[s]
    BY <1>1, <1>14
  <2>3. \A m \in Messages : chunkOf'[m] = chunkOf[m] /\ Owed(m)' \subseteq Owed(m)
    BY <1>1, <1>13
  <2>4. \A g \in held[s] : g.chunk \in Chunks
    BY UseTypes DEF ChunkInv, UseInv
  <2>5. \A g \in held[s] : conns'[g.chunk] \subseteq conns[g.chunk]
    BY <1>22, <2>4
  <2> QED
    BY <1>2, <2>1, <2>2, <2>3, <2>5, HoldStays
<1> QED
  BY <1>20, <1>21, <1>24 DEF ChunkInv, UseInv

-----------------------------------------------------------------------------
(***************************************************************************)
(* All steps.                                                              *)
(***************************************************************************)

\* At first all chunks are free, in the order of their ids.
LEMMA ChunkInit == InitChunks => ChunkInv
<1> SUFFICES ASSUME InitChunks PROVE ChunkInv
  OBVIOUS
<1>1. /\ Init /\ next = [c \in Chunks |-> c + 1] /\ head = 0 /\ conns = [c \in Chunks |-> {}]
      /\ chunkOf = [m \in Messages |-> NoChunk] /\ pend = [r \in Readers |-> NoChunk]
      /\ held = [r \in Readers |-> {}] /\ lost = {}
  BY DEF InitChunks
<1>2. QuietInv
  BY <1>1, QuietInit
<1>3. NChunks \in Nat \ {0} /\ NoChunk = NChunks /\ Chunks = 0 .. NChunks - 1
  BY ChunkAssumption DEF NoChunk, Chunks
<1>4. TypeOKChunks
  BY <1>1, <1>3 DEF TypeOKChunks
<1>5. HoldsOK
  BY <1>1 DEF HoldsOK, HoldOK
<1>6. \A m \in Messages : ~Carries(m)
  BY <1>1 DEF Carries
<1>7. UsersOK /\ SendingOK
  <2>1. UsersOK
    BY <1>6 DEF UsersOK
  <2>2. wt \in Messages
    BY <1>2, <1>4, UseTypes
  <2>3. SendingOK
    BY <1>1, <2>2 DEF SendingOK
  <2> QED
    BY <2>1, <2>3
<1> DEFINE fl == [k \in 0 .. NChunks |-> NChunks - k]
<1>8. /\ fl \in [0 .. NChunks -> Chunks \cup {NoChunk}] /\ fl[0] = NoChunk /\ head = fl[NChunks]
      /\ \A k \in 1 .. NChunks : fl[k] = NChunks - k /\ fl[k - 1] = NChunks - k + 1
  BY <1>1, <1>3
<1> HIDE DEF fl
<1>9. Path(NChunks, fl)
  <2>1. \A k \in 1 .. NChunks : fl[k] \in Chunks /\ next[fl[k]] = fl[k - 1]
    BY <1>1, <1>3, <1>8
  <2>2. \A j, k \in 1 .. NChunks : fl[j] = fl[k] => j = k
    BY <1>3, <1>8
  <2> QED
    BY <1>3, <1>8, <2>1, <2>2 DEF Path
<1>10. On(NChunks, fl) = Chunks
  <2>1. \A c \in Chunks : NChunks - c \in 1 .. NChunks /\ fl[NChunks - c] = c
    BY <1>3, <1>8
  <2>2. \A k \in 1 .. NChunks : fl[k] \in Chunks
    BY <1>3, <1>8
  <2> QED
    BY <2>1, <2>2 DEF On
<1>11. PoolOK(Chunks)
  BY <1>9, <1>10 DEF PoolOK
<1>12. AccountOK(Chunks)
  BY <1>1, <1>6 DEF AccountOK
<1> QED
  BY <1>2, <1>4, <1>5, <1>7, <1>11, <1>12 DEF ChunkInv, UseInv

\* A slot keeps no number while its message is written.
WritingOK == wpc = "write" => data[index_of(wt)] = Torn

LEMMA WritingInit == Init => WritingOK
BY DEF Init, WritingOK

LEMMA WritingNext ==
  ASSUME QuietInv, WritingOK, [Next]_vars
  PROVE  WritingOK'
<1>1. TypeOK /\ data \in [Slots -> Int] /\ index_of(wt) \in Slots
  BY RingTypes DEF QuietInv, IInv, TypeOK
<1>2. CASE WriteBegin
  BY <1>1, <1>2 DEF WriteBegin, WritingOK
<1>3. CASE WriteEnd \/ Advance
  BY <1>3 DEF WriteEnd, Advance, WritingOK
<1>4. CASE PushSniffer \/ PushCas \/ ForceCas
  BY <1>4 DEF PushSniffer, PushCas, ForceCas, ClaimSlot, WritingOK
<1>5. CASE \E op \in Ops : SendStart(op)
  BY <1>5 DEF SendStart, WritingOK
<1>6. CASE GenPush \/ PublishLoan \/ DiscardLoan \/ PushLoad \/ WaitRetry \/ WaitTimeout \/ ForceLoad
  BY <1>6 DEF GenPush, PublishLoan, DiscardLoan, PushLoad, WaitRetry, WaitTimeout, ForceLoad, WritingOK
<1>7. ASSUME NEW r \in Readers, Pop(r) PROVE WritingOK'
  BY <1>7 DEF Pop, PopEnter, PopEmpty, PopLoad, PopCopy, PopDeliver, PopDiscard, writerVars, WritingOK
<1>8. ASSUME NEW r \in Dynamic, Membership(r) PROVE WritingOK'
  BY <1>8 DEF Membership, ConnectReceiver, ConnectCursor, Disconnect, writerVars, WritingOK
<1>9. CASE UNCHANGED vars
  BY <1>9 DEF vars, writerVars, WritingOK
<1> QED
  BY <1>2, <1>3, <1>4, <1>5, <1>6, <1>7, <1>8, <1>9 DEF Next, Writer

\* The steps of the pool are steps of the ring.
LEMMA ChunksOnRing ==
  ASSUME NextChunks
  PROVE  [Next]_vars
<1>1. CASE \E op \in Ops : SendChunk(op)
  BY <1>1 DEF SendChunk, Next, Writer
<1>2. CASE FailedSend
  BY <1>2 DEF FailedSend, Next, Writer
<1>3. CASE Overwrite
  BY <1>3 DEF Overwrite, Next, Writer
<1>4. CASE RingStep
  BY <1>4 DEF RingStep, Next, Writer
<1>5. ASSUME NEW r \in Readers, RecvPop(r) \/ RecvStep(r) PROVE [Next]_vars
  BY <1>5 DEF RecvPop, RecvStep, Next, Pop
<1>6. ASSUME NEW r \in Readers, RecvBuffer(r) \/ \E h \in held[r] : DropBuffer(r, h) PROVE [Next]_vars
  BY <1>6 DEF RecvBuffer, DropBuffer
<1>7. ASSUME NEW r \in Dynamic, Join(r) \/ Leave(r) PROVE [Next]_vars
  BY <1>7 DEF Join, Leave, Next, Membership
<1> QED
  BY <1>1, <1>2, <1>3, <1>4, <1>5, <1>6, <1>7 DEF NextChunks

LEMMA ChunkNext ==
  ASSUME ChunkInv, WritingOK, NeverLapped, NeverLapped', [NextChunks]_allVars, [QuietMembership]_allVars
  PROVE  ChunkInv' /\ WritingOK'
<1>1. QuietInv
  BY DEF ChunkInv, UseInv
<1>2. [Next]_vars
  BY ChunksOnRing DEF allVars
<1>3. QuietMembership
  <2>1. CASE UNCHANGED allVars
    BY <1>1, <2>1 DEF allVars, vars, readerVars, writerVars, QuietMembership, QuietInv, MemberOK
  <2> QED
    BY <2>1
<1>4. QuietInv' /\ WritingOK'
  BY <1>1, <1>2, <1>3, QuietNext, WritingNext
<1>5. CASE \E op \in Ops : SendChunk(op)
  BY <1>4, <1>5, ChunkSend
<1>6. CASE FailedSend
  BY <1>4, <1>6, ChunkFailed
<1>7. CASE Overwrite
  BY <1>4, <1>7, ChunkOverwrite
<1>8. CASE RingStep
  <2>1. Local \/ Claims \/ PushSniffer \/ WriteEnd \/ Advance
    BY <1>8 DEF RingStep, Local, Claims
  <2> QED
    BY <1>4, <1>8, <2>1, ChunkLocal, ChunkClaim, ChunkSniff, ChunkWritten, ChunkAdvance
<1>9. ASSUME NEW r \in Readers, RecvPop(r) \/ RecvBuffer(r) \/ RecvStep(r)
      PROVE  ChunkInv'
  BY <1>4, <1>9, ChunkPop, ChunkBuffer, ChunkRecv
<1>10. ASSUME NEW r \in Readers, NEW h \in held[r], DropBuffer(r, h)
       PROVE  ChunkInv'
  BY <1>4, <1>10, ChunkDrop
<1>11. ASSUME NEW r \in Dynamic, Join(r) \/ Leave(r)
       PROVE  ChunkInv'
  BY <1>3, <1>4, <1>11, ChunkMember
<1>12. CASE UNCHANGED allVars
  <2>1. UNCHANGED <<cc, wt, rc, wpc, wop, wcc, wrc, readerVars, chunkVars>>
    BY <1>12 DEF allVars, vars, writerVars
  <2>2. UNCHANGED <<conns, chunkOf, pend, held>> /\ (Claimed' <=> Claimed)
    BY <2>1 DEF chunkVars, Claimed
  <2>3. \A m : Owed(m)' = Owed(m)
    BY <2>1, OwedStays
  <2>4. \A m \in Messages : Users(m)' = Users(m)
    BY <2>1, <2>2, <2>3, ProducerUsers
  <2>5. HoldsOK'
    BY <2>1, <2>2, <2>3, ProducerHolds
  <2>6. SendingOK'
    BY <2>1, <2>2 DEF ChunkInv, UseInv, SendingOK
  <2>7. \A m \in Messages : Carries(m)' <=> Carries(m)
    BY <2>1, <2>2, <2>4 DEF Carries
  <2>8. \A m \in Messages : Carries(m) /\ (m = wt' => Claimed') => (m = wt => Claimed)
    BY <2>1, <2>2
  <2> QED
    BY <1>4, <2>1, <2>4, <2>5, <2>6, <2>7, <2>8, UsersKept
<1> QED
  BY <1>4, <1>5, <1>6, <1>7, <1>8, <1>9, <1>10, <1>11, <1>12 DEF NextChunks

-----------------------------------------------------------------------------
(***************************************************************************)
(* What follows for the pool.                                              *)
(***************************************************************************)

\* Adding ring lengths stays in the slot.
LEMMA IndexOf ==
  ASSUME NEW j \in Slots, NEW k \in Int
  PROVE  j + RingSlots * k \in Int /\ index_of(j + RingSlots * k) = j
<1> DEFINE N == RingSlots
           q == j + N * k
           d == q \div N
<1>1. N \in Nat \ {0} /\ j \in Int /\ 0 <= j /\ j < N /\ N * k \in Int
  BY RingAssumption DEF Slots
<1>2. q \in Int /\ q = j + N * k
  BY <1>1
<1> HIDE DEF q
<1>3. d \in Int /\ q % N \in 0 .. N - 1 /\ q = N * d + (q % N) /\ N * d \in Int
  <2>1. d \in Int /\ q % N \in 0 .. N - 1 /\ q = N * d + (q % N)
    BY <1>1, <1>2, DivMod
  <2> HIDE DEF d
  <2>2. N * d \in Int
    BY <1>1, <2>1
  <2> QED
    BY <2>1, <2>2
<1> HIDE DEF d
<1>4. N * d - N * k = N * (d - k)
  BY <1>1, <1>3, MulDistributes
<1>5. N * (d - k) < N /\ -N < N * (d - k)
  BY <1>1, <1>2, <1>3, <1>4
<1>6. ~(d - k >= 1)
  BY <1>1, <1>3, <1>5, MulGrows
<1>7. ~(k - d >= 1)
  <2>1. k - d >= 1 => N * (k - d) >= N
    BY <1>1, <1>3, MulGrows
  <2>2. N * k - N * d = N * (k - d)
    BY <1>1, <1>3, MulDistributes
  <2> QED
    BY <1>1, <1>3, <1>4, <1>5, <2>1, <2>2
<1>8. d = k
  BY <1>3, <1>6, <1>7
<1>9. q % N = j
  BY <1>1, <1>2, <1>3, <1>8
<1> QED
  BY <1>2, <1>9 DEF index_of, q

\* Every slot is that of one of the last RingSlots positions.
LEMMA SlotCovered ==
  ASSUME NEW w \in Int, NEW j \in Slots
  PROVE  \E p \in Int : w - RingSlots <= p /\ p < w /\ index_of(p) = j
<1> DEFINE N == RingSlots
           a == w - 1 - j
           k == a \div N
<1>1. N \in Nat \ {0} /\ j \in Int /\ a \in Int
  BY RingAssumption DEF Slots
<1>2. k \in Int /\ a % N \in 0 .. N - 1 /\ a = N * k + (a % N) /\ N * k \in Int
  <2> HIDE DEF a
  <2>1. k \in Int /\ a % N \in 0 .. N - 1 /\ a = N * k + (a % N)
    BY <1>1, DivMod
  <2> HIDE DEF k
  <2>2. N * k \in Int
    BY <1>1, <2>1
  <2> QED
    BY <2>1, <2>2
<1> HIDE DEF k
<1>3. j + N * k \in Int /\ index_of(j + N * k) = j
  BY <1>2, IndexOf
<1>4. w - N <= j + N * k /\ j + N * k < w
  BY <1>1, <1>2
<1> QED
  BY <1>3, <1>4

\* Where a message lies in the ring, it is one of the last RingSlots.
LEMMA SlotHolds ==
  ASSUME QuietInv, WritingOK, NEW m \in Nat, data[index_of(m)] = m
  PROVE  InRing(m) \/ Leaving(m) \/ (m = wt /\ wpc = "advance")
<1> DEFINE i == index_of(m)
<1>1. /\ wt \in Nat /\ RingSlots \in Nat \ {0} /\ i \in Slots /\ SlotsOK /\ DataOK
      /\ m # NoMsg /\ m # Torn
  BY RingTypes DEF QuietInv, IInv, NoMsg, Torn
<1>2. PICK p \in Int : wt - RingSlots <= p /\ p < wt /\ index_of(p) = i
  <2> HIDE DEF i
  <2>1. wt \in Int
    BY <1>1
  <2> QED
    BY <1>1, <2>1, SlotCovered
<1> HIDE DEF i
<1>3. CASE p \in Nat /\ (InRing(p) \/ Leaving(p))
  <2>1. data[i] = p
    BY <1>1, <1>2, <1>3 DEF SlotsOK
  <2> QED
    BY <1>3, <2>1 DEF i
<1>4. CASE p \in Nat /\ ~InRing(p) /\ ~Leaving(p)
  <2>1. p = wt - RingSlots /\ wpc \in {"write", "advance"}
    BY <1>1, <1>2, <1>4 DEF InRing, Leaving, Claimed
  <2>2. i = index_of(wt)
    BY <1>2, <2>1, RingTypes DEF QuietInv, IInv
  <2>3. wpc = "advance"
    BY <1>1, <2>1, <2>2 DEF WritingOK, i
  <2> QED
    BY <1>1, <2>2, <2>3 DEF DataOK, i
<1>5. CASE p \notin Nat
  <2>1. p + RingSlots \in Slots /\ p + RingSlots >= wt
    BY <1>1, <1>2, <1>5 DEF Slots
  <2>2. index_of(p + RingSlots) = i
    <3>1. index_of(p + RingSlots - RingSlots) = index_of(p + RingSlots)
      BY <1>1, <1>2, IndexShift
    <3>2. p + RingSlots - RingSlots = p
      BY <1>1, <1>2
    <3> QED
      BY <1>2, <3>1, <3>2
  <2>3. i = p + RingSlots
    BY <2>1, <2>2, IndexSmall
  <2>4. i = wt /\ wpc = "advance"
    BY <1>1, <2>1, <2>3 DEF SlotsOK, i
  <2>5. index_of(wt) = i
    BY <1>1, <2>4, IndexSmall
  <2> QED
    BY <1>1, <2>4, <2>5 DEF DataOK, i
<1> QED
  BY <1>3, <1>4, <1>5

\* A chunk in use belongs to a message that carries it.
LEMMA InUseCarries ==
  ASSUME ChunkInv, WritingOK, NEW x \in InUse
  PROVE  \E m \in Messages : Carries(m) /\ chunkOf[m] = x
<1>1. /\ QuietInv /\ TypeOKChunks /\ HoldsOK /\ wt \in Messages /\ Messages \subseteq Nat /\ x # NoChunk
      /\ MemberOK /\ OwedOK /\ NoBit \notin Bits /\ NoChunk \notin Chunks /\ TypeOK
      /\ \A r \in Readers : \A h \in held[r] : h.chunk \in Chunks
  BY UseTypes, PoolTypes DEF ChunkInv, UseInv, QuietInv, InUse
<1>2. CASE x \in Sending
  <2>1. wpc # "idle" /\ chunkOf[wt] = x
    BY <1>2 DEF Sending
  <2> QED
    BY <1>1, <2>1 DEF Carries
<1>3. CASE x \in Unread
  <2>1. PICK m \in Messages : /\ chunkOf[m] = x
                              /\ \E r \in Readers : /\ data[index_of(m)] = m
                                                    /\ conn[r] \in rc[index_of(m)].bits
                                                    /\ m >= cursor[r] - (IF rpc[r] \in {"copy", "clear"}
                                                                         THEN 1 ELSE 0)
    BY <1>3 DEF Unread
  <2>2. PICK r \in Readers : /\ data[index_of(m)] = m
                             /\ conn[r] \in rc[index_of(m)].bits
                             /\ m >= cursor[r] - (IF rpc[r] \in {"copy", "clear"} THEN 1 ELSE 0)
    BY <2>1
  <2>3. m \in Nat /\ cursor[r] \in Nat /\ rpc[r] \in ReaderPC /\ rc[index_of(m)].bits \subseteq Bits
    BY <1>1, RingTypes
  <2>4. CASE m = wt /\ wpc = "advance"
    BY <1>1, <2>1, <2>4 DEF Carries
  <2>5. CASE InRing(m) \/ Leaving(m)
    <3>1. Awaits(r, m)
      BY <2>2, <2>3 DEF Awaits, Reading
    <3>2. rpc[r] # "off"
      BY <1>1, <2>2, <2>3 DEF MemberOK
    <3>3. rpc[r] # "joining"
      <4> SUFFICES ASSUME rpc[r] = "joining" PROVE FALSE
        OBVIOUS
      <4>1. wpc = "idle" /\ conn[r] \notin Owed(m)
        BY <1>1, <2>3 DEF MemberOK, OwedOK
      <4>2. InRing(m) /\ ~Leaving(m) /\ m # wt
        BY <1>1, <2>3, <2>5, <4>1 DEF Leaving, InRing
      <4> QED
        BY <2>2, <4>1, <4>2 DEF Owed
    <3>4. conn[r] \in Owed(m)
      BY <1>1, <2>3, <2>5, <3>1, <3>2, <3>3 DEF QuietInv, AwaitsOK, Connected
    <3>5. Has(r, m)
      BY <3>4 DEF Has
    <3> QED
      BY <1>1, <2>1, <3>5 DEF Carries, Users
  <2> QED
    BY <1>1, <2>2, <2>3, <2>4, <2>5, SlotHolds
<1>4. CASE \E r \in Readers : x = pend[r]
  <2>1. PICK r \in Readers : x = pend[r]
    BY <1>4
  <2>2. got[r] \in Messages /\ chunkOf[got[r]] = x /\ Has(r, got[r])
    BY <1>1, <2>1 DEF HoldsOK, HoldOK, Has
  <2> QED
    BY <1>1, <2>2 DEF Carries, Users
<1>5. CASE \E r \in Readers : \E h \in held[r] : x = h.chunk
  <2>1. PICK r \in Readers : \E h \in held[r] : x = h.chunk
    BY <1>5
  <2>2. PICK h \in held[r] : x = h.chunk
    BY <2>1
  <2>3. h.msg \in Messages /\ chunkOf[h.msg] = x /\ Has(r, h.msg)
    BY <1>1, <2>2 DEF HoldsOK, HoldOK, Has
  <2> QED
    BY <1>1, <2>3 DEF Carries, Users
<1> QED
  BY <1>2, <1>3, <1>4, <1>5 DEF InUse, Receiving

\* A message that carries a chunk is being sent, in a receiver's hands or in the ring.
LEMMA CarriesSeen ==
  ASSUME ChunkInv, NEW m \in Messages, Carries(m)
  PROVE  chunkOf[m] \in InUse \cup Overwritable
<1>1. /\ QuietInv /\ TypeOKChunks /\ HoldsOK /\ m \in Nat /\ chunkOf[m] # NoChunk /\ SlotsOK /\ TypeOK
      /\ wt \in Nat /\ RingSlots \in Nat \ {0}
  BY UseTypes DEF ChunkInv, UseInv, QuietInv, Carries
<1>2. CASE m = wt /\ wpc # "idle"
  BY <1>1, <1>2 DEF InUse, Sending
<1>3. CASE \E r \in Readers : Has(r, m)
  <2>1. PICK r \in Readers : Has(r, m)
    BY <1>3
  <2>2. Connected(r) /\ (m < wt \/ (m = wt /\ Claimed))
    BY <1>1, <2>1, HasBound DEF HoldsOK
  <2>3. CASE pend[r] # NoChunk /\ got[r] = m
    <3>1. pend[r] = chunkOf[m]
      BY <1>1, <2>3 DEF HoldsOK, HoldOK
    <3> QED
      BY <1>1, <3>1 DEF InUse, Receiving
  <2>4. CASE \E h \in held[r] : h.msg = m
    <3>1. PICK h \in held[r] : h.msg = m
      BY <2>4
    <3>2. h.chunk = chunkOf[m]
      BY <1>1, <3>1 DEF HoldsOK, HoldOK
    <3> QED
      BY <1>1, <3>1, <3>2 DEF InUse, Receiving
  <2>5. CASE conn[r] \in Owed(m) /\ m = wt
    <3>1. wpc # "idle"
      BY <1>1, <2>2, <2>5 DEF Claimed
    <3> QED
      BY <1>1, <2>5, <3>1 DEF InUse, Sending
  <2>6. CASE conn[r] \in Owed(m) /\ m # wt
    <3>1. InRing(m) \/ Leaving(m)
      BY <2>6 DEF Owed
    <3>2. data[index_of(m)] = m
      BY <1>1, <3>1 DEF SlotsOK
    <3>3. CASE Leaving(m)
      <4>1. index_of(m) = index_of(wt) /\ Claimed
        BY <1>1, <3>3, RingTypes DEF Leaving, Claimed
      <4>2. conn[r] \in rc[index_of(m)].bits
        BY <1>1, <2>2, <4>1 DEF QuietInv, AwaitsOK
      <4> QED
        BY <3>2, <4>2 DEF Overwritable
    <3>4. CASE ~Leaving(m)
      <4>1. conn[r] \in rc[index_of(m)].bits
        BY <2>6, <3>1, <3>4 DEF Owed
      <4> QED
        BY <3>2, <4>1 DEF Overwritable
    <3> QED
      BY <3>3, <3>4
  <2> QED
    BY <2>1, <2>3, <2>4, <2>5, <2>6 DEF Has
<1> QED
  BY <1>2, <1>3 DEF Carries, Users

\* The two conditions of the model's properties: no receiver ever looks at a slot from a
\* full ring behind, and receivers come and go when no message is on its way to them.
QuietSpec == SpecChunks /\ []NeverLapped /\ [][QuietMembership]_allVars

LEMMA ChunksInvariant == QuietSpec => [](ChunkInv /\ WritingOK)
<1>1. InitChunks => ChunkInv /\ WritingOK
  BY ChunkInit, WritingInit DEF InitChunks
<1>2. /\ ChunkInv /\ WritingOK /\ NeverLapped /\ NeverLapped'
      /\ [NextChunks]_allVars /\ [QuietMembership]_allVars
      => (ChunkInv /\ WritingOK)'
  BY ChunkNext
<1> QED
  BY <1>1, <1>2, PTL DEF QuietSpec, SpecChunks

\* id_pool: no id is put back twice, whoever gives it back: a receiver that drops the last
\* buff_t (recycle_storage), the producer that overwrites a message (clear_message) or
\* returns a loan (discard_loan).  The free list ends and names no id twice.
THEOREM NothingFreedTwice == QuietSpec => []FreeListSound
<1>1. ChunkInv => FreeListSound
  BY PoolWalk DEF ChunkInv
<1> QED
  BY <1>1, ChunksInvariant, PTL

\* acquire_storage() never hands out a chunk whose message is being sent, waits in the
\* ring for a receiver, or is under a buff_t.
THEOREM UsedStaysUsed == QuietSpec => []UsedNotFree
<1>1. ASSUME ChunkInv, WritingOK PROVE UsedNotFree
  <2>1. PICK F : PoolOK(F) /\ AccountOK(F)
    BY <1>1 DEF ChunkInv
  <2>2. Free = F
    BY <2>1, PoolWalk
  <2> SUFFICES ASSUME NEW x \in InUse PROVE x \notin F
    BY <2>2 DEF UsedNotFree
  <2>3. PICK m \in Messages : Carries(m) /\ chunkOf[m] = x
    BY <1>1, InUseCarries
  <2> QED
    BY <2>1, <2>3 DEF AccountOK
<1>2. ChunkInv /\ WritingOK => UsedNotFree
  BY <1>1
<1> QED
  BY <1>2, ChunksInvariant, PTL

\* No chunk leaks through recycle_storage(), discard_storage() or clear_message(): what is
\* neither free nor in use lies in a slot whose overwriting returns it, or was lost by a
\* send that returned false.
THEOREM NothingLeaks == QuietSpec => []AllAccountedFor
<1>1. ASSUME ChunkInv PROVE AllAccountedFor
  <2>1. PICK F : PoolOK(F) /\ AccountOK(F)
    BY <1>1 DEF ChunkInv
  <2>2. Free = F
    BY <2>1, PoolWalk
  <2> SUFFICES ASSUME NEW c \in Chunks, c \notin F, c \notin lost
               PROVE  c \in InUse \cup Overwritable
    BY <2>2 DEF AllAccountedFor
  <2>3. PICK m \in Messages : Carries(m) /\ chunkOf[m] = c
    BY <2>1 DEF AccountOK
  <2> QED
    BY <1>1, <2>3, CarriesSeen
<1>2. ChunkInv => AllAccountedFor
  BY <1>1
<1> QED
  BY <1>2, ChunksInvariant, PTL
=============================================================================
