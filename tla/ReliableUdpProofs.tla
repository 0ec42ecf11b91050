------------------------- MODULE ReliableUdpProofs -------------------------
(***************************************************************************)
(* What the report of a reliable send is worth: acknowledged means handed  *)
(* over, and a receiver is counted once for a message - for any number of  *)
(* receivers, messages and pages, however many datagrams are lost,         *)
(* overtaken or refused.                                                   *)
(*                                                                         *)
(* Nothing is assumed of the data sockets: what a datagram may be is never *)
(* used, only what a receiver does before it sends an ACK.                 *)
(***************************************************************************)
EXTENDS ReliableUdp, SequenceTheorems, FiniteSetTheorems, TLAPS

Statuses == {"none", "pending", "SentUnconfirmed", "DeliveredAcked", "FailedIntegrity",
             "FailedTimeout", "FailedLocalSend"}

SndFields == {"pc", "msg", "pagesOf", "round", "hbRepeat", "unknown", "missing",
              "lastRtx", "closed"}

\* The variables of a send and their types, as far as the report depends on them.
Types ==
    /\ snd = [f \in SndFields |-> snd[f]]
    /\ snd.pc \in {"idle", "collect"} /\ snd.msg \in 0..NMsgs
    /\ snd.pagesOf \in [Msgs -> Nat]
    /\ report \in [Msgs -> Statuses]
    /\ delivered = [l \in Listeners |-> delivered[l]]
    /\ ackq \in Seq(Range(ackq))
    /\ \A r \in DOMAIN peers : peers[r].acks \in Nat

\* The message under way has no result yet, later ones have not been sent.
ReportOK ==
    /\ snd.pc = "collect" => snd.msg \in Msgs /\ report[snd.msg] = "pending"
    /\ \A m \in Msgs : m > snd.msg => report[m] = "none"

\* An ACK on its way was sent by a receiver that has handed its content over.
AckOK ==
    \A f \in Range(ackq) :
        f.kind = "ack" => f.rcv \in Receivers /\ f.crc \in delivered[f.rcv]

\* The messages that ended with an ACK.
Ended == {m \in Msgs : report[m] \in {"DeliveredAcked", "FailedIntegrity"}}

Inv == Types /\ ReportOK /\ AckOK /\ (Integrity => AckedMeansDelivered) /\ CountedOnce

-----------------------------------------------------------------------------
(* Sequences *)

\* A sequence is one over its own elements.
LEMMA OverItsElements ==
    ASSUME NEW S, NEW q \in Seq(S)
    PROVE  q \in Seq(Range(q)) /\ Range(q) \subseteq S
<1>1. PICK n \in Nat : q \in [1..n -> S]
  BY SeqDef
<1>2. q \in [1..n -> Range(q)] /\ Range(q) \subseteq S
  BY <1>1 DEF Range
<1> QED
  BY <1>2, SeqDef

LEMMA AppendRange ==
    ASSUME NEW q, q \in Seq(Range(q)), NEW x
    PROVE  LET a == Append(q, x) IN a \in Seq(Range(a)) /\ Range(a) \subseteq Range(q) \cup {x}
<1>1. q \in Seq(Range(q) \cup {x})
  BY SeqMonotonic
<1>2. Append(q, x) \in Seq(Range(q) \cup {x})
  BY <1>1, AppendProperties
<1> QED
  BY <1>2, OverItsElements

LEMMA TailRange ==
    ASSUME NEW q, q \in Seq(Range(q)), q # <<>>
    PROVE  /\ Tail(q) \in Seq(Range(Tail(q))) /\ Range(Tail(q)) \subseteq Range(q)
           /\ Head(q) \in Range(q)
BY HeadTailProperties, OverItsElements

LEMMA RemoveAtRange ==
    ASSUME NEW q, q \in Seq(Range(q)), NEW i \in DOMAIN q
    PROVE  LET t == RemoveAt(q, i) IN t \in Seq(Range(t)) /\ Range(t) \subseteq Range(q)
<1>1. Len(q) \in Nat /\ i \in 1..Len(q) /\ \A j \in 1..Len(q) : q[j] \in Range(q)
  BY LenProperties, ElementOfSeq
<1>2. SubSeq(q, 1, i - 1) \in Seq(Range(q))
  BY <1>1, SubSeqProperties
<1>3. SubSeq(q, i + 1, Len(q)) \in Seq(Range(q))
  BY <1>1, SubSeqProperties
<1>4. RemoveAt(q, i) \in Seq(Range(q))
  BY <1>2, <1>3, ConcatProperties DEF RemoveAt
<1> QED
  BY <1>4, OverItsElements

LEMMA EmptyRange == <<>> \in Seq(Range(<<>>)) /\ Range(<<>>) = {}
<1>1. <<>> \in Seq({})
  BY EmptySeq
<1>2. \A q \in Seq({}) : q \in Seq(Range(q)) /\ Range(q) \subseteq {}
  BY OverItsElements
<1>3. <<>> \in Seq(Range(<<>>)) /\ Range(<<>>) \subseteq {}
  BY <1>1, <1>2
<1> QED
  BY <1>3

LEMMA MsgsFinite == NMsgs \in Nat /\ IsFiniteSet(Msgs)
<1>1. NMsgs \in Nat /\ 1 \in Int
  BY UdpAssumption
<1>2. NMsgs \in Int
  BY <1>1
<1>3. IsFiniteSet(1..NMsgs)
  BY <1>1, <1>2, FS_Interval
<1> QED
  BY <1>1, <1>3 DEF Msgs

-----------------------------------------------------------------------------
(* Steps that end no send *)

\* The report, the table's counts and the message under way stay.
SameReport ==
    /\ report' = report
    /\ snd'.pc = snd.pc /\ snd'.msg = snd.msg /\ snd'.pagesOf = snd.pagesOf
    /\ \A r \in DOMAIN peers' : peers'[r].acks =
                                  IF r \in DOMAIN peers THEN peers[r].acks ELSE 0

\* The sender goes on with the same message.
LEMMA SenderGoesOn ==
    ASSUME Types, \/ TakeNack \/ TakeStale \/ SilentRound \/ Retransmit
                  \/ \E r \in Receivers : RoundOver(r)
    PROVE  /\ snd' = [f \in SndFields |-> snd'[f]]
           /\ SameReport
<1>1. snd = [f \in SndFields |-> snd[f]]
  BY DEF Types
<1>2. CASE TakeNack
  <2>1. /\ snd' = [f \in SndFields |-> snd'[f]]
        /\ snd'.pc = snd.pc /\ snd'.msg = snd.msg /\ snd'.pagesOf = snd.pagesOf
    BY <1>1, <1>2 DEF TakeNack, SndFields
  <2>2. \A r \in DOMAIN peers' : peers'[r].acks =
                                  IF r \in DOMAIN peers THEN peers[r].acks ELSE 0
    BY <1>2 DEF TakeNack, RecordNack
  <2> QED
    BY <1>2, <2>1, <2>2 DEF TakeNack, SameReport
<1>3. CASE TakeStale
  BY <1>1, <1>3 DEF TakeStale, SameReport
<1>4. CASE SilentRound
  <2>1. /\ snd' = [f \in SndFields |-> snd'[f]]
        /\ snd'.pc = snd.pc /\ snd'.msg = snd.msg /\ snd'.pagesOf = snd.pagesOf
    BY <1>1, <1>4 DEF SilentRound, SndFields
  <2> QED
    BY <1>4, <2>1 DEF SilentRound, SameReport
<1>5. CASE Retransmit
  <2>1. /\ snd' = [f \in SndFields |-> snd'[f]]
        /\ snd'.pc = snd.pc /\ snd'.msg = snd.msg /\ snd'.pagesOf = snd.pagesOf
    BY <1>1, <1>5 DEF Retransmit, SndFields
  <2> QED
    BY <1>5, <2>1 DEF Retransmit, SameReport
<1>6. CASE \E r \in Receivers : RoundOver(r)
  <2>1. PICK r \in Receivers : RoundOver(r)
    BY <1>6
  <2>2. snd' = snd \/ snd' = [snd EXCEPT !.closed = snd.closed \cup {r}]
    BY <2>1 DEF RoundOver
  <2>3. /\ snd' = [f \in SndFields |-> snd'[f]]
        /\ snd'.pc = snd.pc /\ snd'.msg = snd.msg /\ snd'.pagesOf = snd.pagesOf
    BY <1>1, <2>2 DEF SndFields
  <2> QED
    BY <2>1, <2>3 DEF RoundOver, SameReport
<1> QED
  BY <1>2, <1>3, <1>4, <1>5, <1>6

\* The queue of ACKs and NACKs gets no new ACK, or one of something handed over.
LEMMA AckqGoesOn ==
    ASSUME Types, AckOK,
           \/ ackq' = ackq /\ delivered' = delivered
           \/ /\ ackq' = ackq
              /\ \E s \in Sniffers : \E c : delivered' = [delivered EXCEPT ![s] = @ \cup {c}]
           \/ ackq # <<>> /\ ackq' = Tail(ackq) /\ delivered' = delivered
           \/ (\E i \in DOMAIN ackq : ackq' = RemoveAt(ackq, i)) /\ delivered' = delivered
           \/ ackq' = <<>> /\ delivered' = delivered
           \/ (\E f : f.kind # "ack" /\ ackq' = Append(ackq, f)) /\ delivered' = delivered
           \/ \E r \in Receivers : \E content, seq : Deliver(r, content, seq)
    PROVE  /\ ackq' \in Seq(Range(ackq')) /\ AckOK'
           /\ delivered' = [l \in Listeners |-> delivered'[l]]
           /\ \A l \in Listeners : delivered[l] \subseteq delivered'[l]
<1>1. /\ ackq \in Seq(Range(ackq))
      /\ delivered = [l \in Listeners |-> delivered[l]]
  BY DEF Types
<1>2. CASE \E r \in Receivers : \E content, seq : Deliver(r, content, seq)
  <2>0. PICK r \in Receivers : \E content, seq : Deliver(r, content, seq)
    BY <1>2
  <2>1. PICK content, seq : Deliver(r, content, seq)
    BY <2>0
  <2> DEFINE a == Ack(r, seq, content)
  <2>2. /\ a.kind = "ack" /\ a.rcv = r /\ a.crc = content
        /\ ackq' = Append(ackq, a)
        /\ delivered' = [delivered EXCEPT ![r] = delivered[r] \cup {content}]
    BY <2>1 DEF Deliver, send_ack, Ack
  <2> HIDE DEF a
  <2>3. /\ delivered' = [l \in Listeners |-> delivered'[l]]
        /\ \A l \in Listeners : delivered[l] \subseteq delivered'[l]
        /\ content \in delivered'[r]
    BY <1>1, <2>2 DEF Listeners
  <2>4. ackq' \in Seq(Range(ackq')) /\ Range(ackq') \subseteq Range(ackq) \cup {a}
    BY <1>1, <2>2, AppendRange
  <2>5. AckOK'
    BY <2>2, <2>3, <2>4 DEF AckOK, Listeners
  <2> QED
    BY <2>3, <2>4, <2>5
<1>3. CASE (\E f : f.kind # "ack" /\ ackq' = Append(ackq, f)) /\ delivered' = delivered
  <2>1. PICK f : f.kind # "ack" /\ ackq' = Append(ackq, f)
    BY <1>3
  <2>2. ackq' \in Seq(Range(ackq')) /\ Range(ackq') \subseteq Range(ackq) \cup {f}
    BY <1>1, <2>1, AppendRange
  <2> QED
    BY <1>1, <1>3, <2>1, <2>2 DEF AckOK
<1>4. CASE /\ ackq' \in Seq(Range(ackq')) /\ Range(ackq') \subseteq Range(ackq)
           /\ delivered' = delivered
  BY <1>1, <1>4 DEF AckOK
<1>5. CASE ackq' = ackq /\ delivered' = delivered
  BY <1>1, <1>4, <1>5
<1>6. CASE ackq # <<>> /\ ackq' = Tail(ackq) /\ delivered' = delivered
  BY <1>1, <1>4, <1>6, TailRange
<1>7. CASE (\E i \in DOMAIN ackq : ackq' = RemoveAt(ackq, i)) /\ delivered' = delivered
  BY <1>1, <1>4, <1>7, RemoveAtRange
<1>8. CASE ackq' = <<>> /\ delivered' = delivered
  BY <1>1, <1>4, <1>8, EmptyRange
<1>9. CASE /\ ackq' = ackq
           /\ \E s \in Sniffers : \E c : delivered' = [delivered EXCEPT ![s] = @ \cup {c}]
  <2>0. PICK s \in Sniffers : \E c : delivered' = [delivered EXCEPT ![s] = @ \cup {c}]
    BY <1>9
  <2>1. PICK c : delivered' = [delivered EXCEPT ![s] = delivered[s] \cup {c}]
    BY <2>0
  <2>2. /\ delivered' = [l \in Listeners |-> delivered'[l]]
        /\ \A l \in Listeners : delivered[l] \subseteq delivered'[l]
    BY <1>1, <2>1 DEF Listeners
  <2>3. AckOK'
    BY <1>9, <2>2 DEF AckOK, Listeners
  <2> QED
    BY <1>1, <1>9, <2>2, <2>3
<1> QED
  BY <1>2, <1>3, <1>5, <1>6, <1>7, <1>8, <1>9

\* A step that changes no report keeps the invariant.
LEMMA GoesOn ==
    ASSUME Inv, SameReport, snd' = [f \in SndFields |-> snd'[f]],
           ackq' \in Seq(Range(ackq')) /\ AckOK',
           delivered' = [l \in Listeners |-> delivered'[l]],
           \A l \in Listeners : delivered[l] \subseteq delivered'[l]
    PROVE  Inv'
<1>1. Types'
  BY DEF Inv, Types, SameReport
<1>2. ReportOK'
  BY DEF Inv, ReportOK, SameReport
<1>3. ASSUME Integrity PROVE AckedMeansDelivered'
  <2>1. ASSUME NEW m \in Msgs, report[m] = "DeliveredAcked"
        PROVE  \E r \in Receivers : Whole(m)' \in delivered'[r]
    <3>1. PICK r \in Receivers : Whole(m) \in delivered[r]
      BY <1>3, <2>1 DEF Inv, AckedMeansDelivered
    <3>2. snd'.pagesOf[m] = snd.pagesOf[m] /\ delivered[r] \subseteq delivered'[r]
      BY DEF SameReport, Listeners
    <3>3. Whole(m)' \in delivered'[r]
      BY <3>1, <3>2 DEF Whole
    <3> QED
      BY <3>3
  <2> QED
    BY <2>1 DEF AckedMeansDelivered, SameReport
<1>4. CountedOnce'
  <2>1. Ended' = Ended /\ Ended \in SUBSET Msgs
    BY DEF Ended, SameReport
  <2>2. Cardinality(Ended) \in Nat
    BY <2>1, MsgsFinite, FS_Subset, FS_CardinalityType
  <2>3. \A r \in DOMAIN peers : peers[r].acks <= Cardinality(Ended)
    BY DEF Inv, CountedOnce, Ended
  <2>4. \A r \in DOMAIN peers' : peers'[r].acks <= Cardinality(Ended')
    BY <2>1, <2>2, <2>3 DEF SameReport
  <2> QED
    BY <2>4 DEF CountedOnce, Ended
<1> QED
  BY <1>1, <1>2, <1>3, <1>4 DEF Inv

\* What the receivers, the sniffers and the network do.
LEMMA OthersStep ==
    ASSUME Inv,
           \/ \E r \in Receivers : \/ RecvFirst(r) \/ FirstTimeout(r) \/ RecvAssembling(r)
                                   \/ RoundOver(r) \/ AssemblyTimeout(r)
           \/ \E s \in Sniffers : Sniff(s) \/ SniffTimeout(s)
           \/ \E l \in Listeners : LoseData(l)
           \/ LoseControl
           \/ UNCHANGED vars
    PROVE  Inv'
<1> USE DEF Inv
<1>1. \/ ackq' = ackq /\ delivered' = delivered
      \/ /\ ackq' = ackq
         /\ \E s \in Sniffers : \E c : delivered' = [delivered EXCEPT ![s] = @ \cup {c}]
      \/ (\E i \in DOMAIN ackq : ackq' = RemoveAt(ackq, i)) /\ delivered' = delivered
      \/ (\E f : f.kind # "ack" /\ ackq' = Append(ackq, f)) /\ delivered' = delivered
      \/ \E r \in Receivers : \E content, seq : Deliver(r, content, seq)
  <2>1. ASSUME NEW r \in Receivers, RecvFirst(r)
        PROVE  \/ ackq' = ackq /\ delivered' = delivered
               \/ \E content, seq : Deliver(r, content, seq)
    BY <2>1 DEF RecvFirst, SinglePage
  <2>2. ASSUME NEW r \in Receivers, RecvAssembling(r)
        PROVE  \/ ackq' = ackq /\ delivered' = delivered
               \/ \E content, seq : Deliver(r, content, seq)
    BY <2>2 DEF RecvAssembling
  <2>3. ASSUME NEW r \in Receivers, RoundOver(r)
        PROVE  \/ ackq' = ackq /\ delivered' = delivered
               \/ (\E f : f.kind # "ack" /\ ackq' = Append(ackq, f)) /\ delivered' = delivered
    <3> DEFINE f == Nack(r, rx[r], Missing(rx[r]))
    <3>1. /\ ackq' = ackq \/ ackq' = Append(ackq, f)
          /\ delivered' = delivered
      BY <2>3 DEF RoundOver
    <3>2. f.kind # "ack"
      BY DEF Nack
    <3> QED
      BY <3>1, <3>2
  <2>4. ASSUME NEW r \in Receivers, FirstTimeout(r) \/ AssemblyTimeout(r)
        PROVE  ackq' = ackq /\ delivered' = delivered
    BY <2>4 DEF FirstTimeout, AssemblyTimeout
  <2>5. ASSUME NEW s \in Sniffers, Sniff(s) \/ SniffTimeout(s)
        PROVE  /\ ackq' = ackq
               /\ \/ delivered' = delivered
                  \/ \E c : delivered' = [delivered EXCEPT ![s] = @ \cup {c}]
    BY <2>5 DEF Sniff, SniffTimeout, SniffStart, SniffPage
  <2>6. ASSUME NEW l \in Listeners, LoseData(l)
        PROVE  ackq' = ackq /\ delivered' = delivered
    BY <2>6 DEF LoseData
  <2>7. CASE LoseControl
    BY <2>7 DEF LoseControl
  <2>8. CASE UNCHANGED vars
    BY <2>8 DEF vars
  <2> QED
    BY <2>1, <2>2, <2>3, <2>4, <2>5, <2>6, <2>7, <2>8
<1>2. snd' = [f \in SndFields |-> snd'[f]] /\ SameReport
  <2>1. CASE \E r \in Receivers : RoundOver(r)
    BY <2>1, SenderGoesOn
  <2>2. CASE snd' = snd /\ report' = report /\ peers' = peers
    BY <2>2 DEF Types, SameReport
  <2>3. ASSUME NEW r \in Receivers,
               RecvFirst(r) \/ FirstTimeout(r) \/ RecvAssembling(r) \/ AssemblyTimeout(r)
        PROVE  snd' = snd /\ report' = report /\ peers' = peers
    BY <2>3 DEF RecvFirst, FirstTimeout, RecvAssembling, AssemblyTimeout
  <2>4. ASSUME NEW s \in Sniffers, Sniff(s) \/ SniffTimeout(s)
        PROVE  snd' = snd /\ report' = report /\ peers' = peers
    BY <2>4 DEF Sniff, SniffTimeout
  <2>5. ASSUME NEW l \in Listeners, LoseData(l)
        PROVE  snd' = snd /\ report' = report /\ peers' = peers
    BY <2>5 DEF LoseData
  <2>6. LoseControl \/ UNCHANGED vars => snd' = snd /\ report' = report /\ peers' = peers
    BY DEF LoseControl, vars
  <2> QED
    BY <2>1, <2>2, <2>3, <2>4, <2>5, <2>6
<1> HIDE DEF Inv
<1>3. Types /\ AckOK
  BY DEF Inv
<1>4. /\ ackq' \in Seq(Range(ackq')) /\ AckOK'
      /\ delivered' = [l \in Listeners |-> delivered'[l]]
      /\ \A l \in Listeners : delivered[l] \subseteq delivered'[l]
  BY <1>1, <1>3, AckqGoesOn
<1> QED
  BY <1>2, <1>4, GoesOn

\* The sender goes on with a message, or reads a frame of another.
LEMMA SenderStaysStep ==
    ASSUME Inv, TakeNack \/ TakeStale \/ SilentRound \/ Retransmit
    PROVE  Inv'
<1>1. Types /\ AckOK
  BY DEF Inv
<1>2. snd' = [f \in SndFields |-> snd'[f]] /\ SameReport
  BY <1>1, SenderGoesOn
<1>3. \/ ackq' = ackq /\ delivered' = delivered
      \/ ackq # <<>> /\ ackq' = Tail(ackq) /\ delivered' = delivered
  BY DEF TakeNack, TakeStale, SilentRound, Retransmit
<1>4. /\ ackq' \in Seq(Range(ackq')) /\ AckOK'
      /\ delivered' = [l \in Listeners |-> delivered'[l]]
      /\ \A l \in Listeners : delivered[l] \subseteq delivered'[l]
  BY <1>1, <1>3, AckqGoesOn
<1> QED
  BY <1>2, <1>4, GoesOn

-----------------------------------------------------------------------------
(* A send begins and ends *)

\* Whether a step that ends or begins the send of message m keeps the counts.
LEMMA CountsGrow ==
    ASSUME Types, CountedOnce, NEW m \in Msgs, NEW s \in Statuses,
           report[m] \notin {"DeliveredAcked", "FailedIntegrity"},
           report' = [report EXCEPT ![m] = s],
           \A r \in DOMAIN peers' :
               peers'[r].acks <= (IF r \in DOMAIN peers THEN peers[r].acks ELSE 0)
                                   + (IF s \in {"DeliveredAcked", "FailedIntegrity"} THEN 1 ELSE 0),
           \A r \in DOMAIN peers' : peers'[r].acks \in Nat
    PROVE  CountedOnce'
<1>1. IsFiniteSet(Ended) /\ Cardinality(Ended) \in Nat /\ m \notin Ended
  <2>1. Ended \in SUBSET Msgs /\ m \notin Ended
    BY DEF Ended
  <2> QED
    BY <2>1, MsgsFinite, FS_Subset, FS_CardinalityType
<1>2. \A r \in DOMAIN peers : peers[r].acks \in Nat /\ peers[r].acks <= Cardinality(Ended)
  BY DEF Types, CountedOnce, Ended
<1>3. CASE s \in {"DeliveredAcked", "FailedIntegrity"}
  <2>1. Ended' = Ended \cup {m}
    BY <1>3 DEF Ended, Types
  <2>2. Cardinality(Ended') = Cardinality(Ended) + 1
    BY <1>1, <2>1, FS_AddElement
  <2>3. \A r \in DOMAIN peers' : peers'[r].acks <= Cardinality(Ended')
    BY <1>1, <1>2, <1>3, <2>2
  <2> QED
    BY <2>3 DEF CountedOnce, Ended
<1>4. CASE s \notin {"DeliveredAcked", "FailedIntegrity"}
  <2>1. Ended' = Ended
    BY <1>4 DEF Ended, Types
  <2>2. \A r \in DOMAIN peers' : peers'[r].acks <= Cardinality(Ended')
    BY <1>1, <1>2, <1>4, <2>1
  <2> QED
    BY <2>2 DEF CountedOnce, Ended
<1> QED
  BY <1>3, <1>4

\* A send begins: chunk_send_ex is called with the next message.
LEMMA Begins ==
    ASSUME Inv, NEW n \in PageCounts,
           NEW s \in {"pending", "SentUnconfirmed", "FailedLocalSend"},
           snd.pc = "idle", snd.msg < NMsgs,
           snd' = [f \in SndFields |-> snd'[f]],
           snd'.pc = (IF s = "pending" THEN "collect" ELSE "idle"),
           snd'.msg = snd.msg + 1,
           snd'.pagesOf = [snd.pagesOf EXCEPT ![snd.msg + 1] = n],
           report' = [report EXCEPT ![snd.msg + 1] = s],
           ackq' = <<>>, peers' = peers, delivered' = delivered
    PROVE  Inv'
<1> DEFINE m == snd.msg + 1
<1>1. /\ NMsgs \in Nat /\ snd.msg \in 0..NMsgs /\ n \in Nat
      /\ snd.pagesOf \in [Msgs -> Nat] /\ report \in [Msgs -> Statuses]
      /\ delivered = [l \in Listeners |-> delivered[l]]
      /\ \A r \in DOMAIN peers : peers[r].acks \in Nat
  BY UdpAssumption, MsgsFinite DEF Inv, Types
<1>2. m \in Msgs /\ m \in 1..NMsgs /\ s \in Statuses /\ report[m] = "none"
  <2>1. m \in Msgs /\ m \in 1..NMsgs /\ m > snd.msg
    BY <1>1 DEF Msgs
  <2> QED
    BY <2>1 DEF Inv, ReportOK, Statuses
<1>3. ackq' \in Seq(Range(ackq')) /\ Range(ackq') = {}
  BY EmptyRange
<1>4. Types'
  <2>1. snd'.pagesOf \in [Msgs -> Nat] /\ report' \in [Msgs -> Statuses]
    BY <1>1, <1>2
  <2>2. snd'.pc \in {"idle", "collect"} /\ snd'.msg \in 0..NMsgs
    BY <1>1, <1>2
  <2> QED
    BY <1>1, <1>3, <2>1, <2>2 DEF Types
<1>5. ReportOK'
  <2>1. snd'.pc = "collect" => snd'.msg \in Msgs /\ report'[snd'.msg] = "pending"
    BY <1>1, <1>2
  <2>2. ASSUME NEW k \in Msgs, k > snd'.msg PROVE report'[k] = "none"
    <3>1. k > snd.msg /\ k # m
      BY <1>1, <2>2 DEF Msgs
    <3> QED
      BY <1>1, <3>1 DEF Inv, ReportOK
  <2> QED
    BY <2>1, <2>2 DEF ReportOK
<1>6. AckOK'
  BY <1>3 DEF AckOK
<1>7. ASSUME Integrity PROVE AckedMeansDelivered'
  <2>1. ASSUME NEW k \in Msgs, report'[k] = "DeliveredAcked"
        PROVE  \E r \in Receivers : Whole(k)' \in delivered'[r]
    <3>1. k # m /\ report[k] = "DeliveredAcked"
      BY <1>1, <1>2, <2>1
    <3>2. PICK r \in Receivers : Whole(k) \in delivered[r]
      BY <1>7, <3>1 DEF Inv, AckedMeansDelivered
    <3>3. snd'.pagesOf[k] = snd.pagesOf[k]
      BY <1>1, <3>1
    <3>4. Whole(k)' \in delivered'[r]
      BY <3>2, <3>3 DEF Whole
    <3> QED
      BY <3>4
  <2> QED
    BY <2>1 DEF AckedMeansDelivered
<1>8. CountedOnce'
  <2>1. /\ Types /\ CountedOnce
        /\ report[m] \notin {"DeliveredAcked", "FailedIntegrity"}
        /\ report' = [report EXCEPT ![m] = s]
        /\ s \notin {"DeliveredAcked", "FailedIntegrity"}
    BY <1>2 DEF Inv
  <2>2. \A r \in DOMAIN peers' :
          /\ peers'[r].acks \in Nat
          /\ peers'[r].acks <= (IF r \in DOMAIN peers THEN peers[r].acks ELSE 0) + 0
    BY <1>1
  <2> QED
    BY <1>2, <2>1, <2>2, CountsGrow
<1> QED
  BY <1>4, <1>5, <1>6, <1>7, <1>8 DEF Inv

LEMMA ChunkSendBegins ==
    ASSUME Inv, NEW n \in PageCounts, NEW mode \in Modes,
           ChunkSend(n, mode) \/ ChunkSendRefused(n, mode)
    PROVE  Inv'
<1>1. /\ snd = [f \in SndFields |-> snd[f]] /\ snd.pagesOf \in [Msgs -> Nat]
      /\ snd.msg \in 0..NMsgs
  BY DEF Inv, Types
<1>2. CASE ChunkSend(n, mode)
  <2> DEFINE s == IF mode = "Reliable" THEN "pending" ELSE "SentUnconfirmed"
  <2>1. /\ snd' = [f \in SndFields |-> snd'[f]]
        /\ snd'.pc = (IF mode = "Reliable" THEN "collect" ELSE "idle")
        /\ snd'.msg = snd.msg + 1
        /\ snd'.pagesOf = [snd.pagesOf EXCEPT ![snd.msg + 1] = n]
    BY <1>2 DEF ChunkSend, SndFields
  <2>2. /\ report' = [report EXCEPT ![snd.msg + 1] = s]
        /\ snd.pc = "idle" /\ snd.msg < NMsgs
        /\ ackq' = <<>> /\ peers' = peers /\ delivered' = delivered
    BY <1>2 DEF ChunkSend
  <2>3. s \in {"pending", "SentUnconfirmed", "FailedLocalSend"}
        /\ snd'.pc = (IF s = "pending" THEN "collect" ELSE "idle")
    BY <2>1
  <2> QED
    BY <2>1, <2>2, <2>3, Begins
<1>3. CASE ChunkSendRefused(n, mode)
  <2>1. /\ snd' = [f \in SndFields |-> snd'[f]]
        /\ snd'.pc = snd.pc
        /\ snd'.msg = snd.msg + 1
        /\ snd'.pagesOf = [snd.pagesOf EXCEPT ![snd.msg + 1] = n]
    BY <1>1, <1>3 DEF ChunkSendRefused, SndFields
  <2>2. /\ report' = [report EXCEPT ![snd.msg + 1] = "FailedLocalSend"]
        /\ snd.pc = "idle" /\ snd.msg < NMsgs
        /\ ackq' = <<>> /\ peers' = peers /\ delivered' = delivered
    BY <1>3 DEF ChunkSendRefused
  <2> QED
    BY <2>1, <2>2, Begins
<1> QED
  BY <1>2, <1>3

\* A send ends with a result: acknowledged only if its message was handed over.
LEMMA Ends ==
    ASSUME Inv,
           NEW s \in {"DeliveredAcked", "FailedIntegrity", "FailedTimeout", "FailedLocalSend"},
           snd.pc = "collect", Return(s),
           ackq' = <<>> \/ ackq' = ackq, delivered' = delivered,
           (Integrity /\ s = "DeliveredAcked") =>
               \E r \in Receivers : Whole(snd.msg) \in delivered[r],
           \A r \in DOMAIN peers' :
               /\ peers'[r].acks \in Nat
               /\ peers'[r].acks <= (IF r \in DOMAIN peers THEN peers[r].acks ELSE 0)
                                      + (IF s \in {"DeliveredAcked", "FailedIntegrity"} THEN 1 ELSE 0)
    PROVE  Inv'
<1> DEFINE m == snd.msg
<1>1. /\ NMsgs \in Nat /\ m \in 0..NMsgs /\ m \in Msgs /\ report[m] = "pending"
      /\ snd.pagesOf \in [Msgs -> Nat] /\ report \in [Msgs -> Statuses]
      /\ s \in Statuses
  BY MsgsFinite DEF Inv, Types, ReportOK, Statuses
<1>2. /\ report' = [report EXCEPT ![m] = s]
      /\ snd' = [f \in SndFields |-> snd'[f]]
      /\ snd'.pc = "idle" /\ snd'.msg = m /\ snd'.pagesOf = snd.pagesOf
  <2>1. snd = [f \in SndFields |-> snd[f]]
    BY DEF Inv, Types
  <2> QED
    BY <2>1 DEF Return, SndFields
<1>3. /\ ackq' \in Seq(Range(ackq')) /\ AckOK'
      /\ delivered' = [l \in Listeners |-> delivered'[l]]
  <2>1. Types /\ AckOK
    BY DEF Inv
  <2> QED
    BY <2>1, AckqGoesOn
<1>4. Types'
  <2>1. report' \in [Msgs -> Statuses]
    BY <1>1, <1>2
  <2>2. snd'.pagesOf \in [Msgs -> Nat] /\ snd'.pc \in {"idle", "collect"} /\ snd'.msg \in 0..NMsgs
    BY <1>1, <1>2
  <2> QED
    BY <1>2, <1>3, <2>1, <2>2 DEF Types
<1>5. ReportOK'
  <2>1. ASSUME NEW k \in Msgs, k > snd'.msg PROVE report'[k] = "none"
    <3>1. k # m /\ report[k] = "none"
      BY <1>1, <1>2, <2>1 DEF Inv, ReportOK, Msgs
    <3> QED
      BY <1>1, <1>2, <3>1
  <2> QED
    BY <1>2, <2>1 DEF ReportOK
<1>6. ASSUME Integrity PROVE AckedMeansDelivered'
  <2>1. ASSUME NEW k \in Msgs, report'[k] = "DeliveredAcked"
        PROVE  \E r \in Receivers : Whole(k) \in delivered[r]
    <3>1. CASE k = m
      BY <1>1, <1>2, <1>6, <2>1, <3>1
    <3>2. CASE k # m
      <4>1. report[k] = "DeliveredAcked"
        BY <1>1, <1>2, <2>1, <3>2
      <4> QED
        BY <1>6, <4>1 DEF Inv, AckedMeansDelivered
    <3> QED
      BY <3>1, <3>2
  <2>2. \A k \in Msgs : Whole(k)' = Whole(k)
    BY <1>2 DEF Whole
  <2>3. \A k \in Msgs : report'[k] = "DeliveredAcked" =>
          \E r \in Receivers : Whole(k)' \in delivered'[r]
    <3> TAKE k \in Msgs
    <3> HAVE report'[k] = "DeliveredAcked"
    <3>1. PICK r \in Receivers : Whole(k) \in delivered[r]
      BY <2>1
    <3>2. Whole(k)' \in delivered'[r]
      BY <1>2, <3>1 DEF Whole
    <3> QED
      BY <3>2
  <2> QED
    BY <2>3 DEF AckedMeansDelivered
<1>7. CountedOnce'
  <2>1. /\ Types /\ CountedOnce
        /\ report[m] \notin {"DeliveredAcked", "FailedIntegrity"}
    BY <1>1 DEF Inv
  <2> QED
    BY <1>1, <1>2, <2>1, CountsGrow
<1> QED
  BY <1>3, <1>4, <1>5, <1>6, <1>7 DEF Inv

\* The ACKs drained count once for a receiver.
LEMMA AcksRecorded ==
    ASSUME Types, NEW S
    PROVE  LET after == RecordAcks(S) IN
             \A r \in DOMAIN after :
                 /\ after[r].acks \in Nat
                 /\ after[r].acks <= (IF r \in DOMAIN peers THEN peers[r].acks ELSE 0) + 1
<1> DEFINE after == RecordAcks(S)
<1>1. \A r \in DOMAIN peers : peers[r].acks \in Nat
  BY DEF Types
<1>2. ASSUME NEW r \in DOMAIN after
      PROVE  /\ after[r].acks \in Nat
             /\ after[r].acks <= (IF r \in DOMAIN peers THEN peers[r].acks ELSE 0) + 1
  <2>1. DOMAIN after = DOMAIN peers \cup S
    BY DEF RecordAcks
  <2>2. CASE r \in S
    <3>1. after[r].acks = (IF r \in DOMAIN peers THEN peers[r].acks ELSE 0) + 1
      BY <2>1, <2>2 DEF RecordAcks
    <3> QED
      BY <1>1, <3>1
  <2>3. CASE r \notin S
    <3>1. r \in DOMAIN peers /\ after[r] = peers[r]
      BY <2>1, <2>3 DEF RecordAcks
    <3> QED
      BY <1>1, <3>1
  <2> QED
    BY <2>2, <2>3
<1> QED
  BY <1>2

LEMMA TakeAckEnds ==
    ASSUME Inv, TakeAck
    PROVE  Inv'
<1> DEFINE a == Head(ackq)
           s == IF CrcAgrees(a) THEN "DeliveredAcked" ELSE "FailedIntegrity"
<1>1. /\ snd.pc = "collect" /\ ackq # <<>> /\ a.kind = "ack"
      /\ Return(s) /\ ackq' = <<>> /\ delivered' = delivered
      /\ peers' = RecordAcks(DrainedAcks)
  BY DEF TakeAck
<1>2. a.rcv \in Receivers /\ a.crc \in delivered[a.rcv]
  <2>1. ackq \in Seq(Range(ackq))
    BY DEF Inv, Types
  <2>2. a \in Range(ackq)
    BY <1>1, <2>1, TailRange
  <2> QED
    BY <1>1, <2>2 DEF Inv, AckOK
<1>3. (Integrity /\ s = "DeliveredAcked") =>
         \E r \in Receivers : Whole(snd.msg) \in delivered[r]
  BY <1>2 DEF CrcAgrees
<1>4. \A r \in DOMAIN peers' :
        /\ peers'[r].acks \in Nat
        /\ peers'[r].acks <= (IF r \in DOMAIN peers THEN peers[r].acks ELSE 0) + 1
  <2>1. Types
    BY DEF Inv
  <2> QED
    BY <1>1, <2>1, AcksRecorded
<1>5. /\ s \in {"DeliveredAcked", "FailedIntegrity", "FailedTimeout", "FailedLocalSend"}
      /\ s \in {"DeliveredAcked", "FailedIntegrity"}
  OBVIOUS
<1> HIDE DEF a, s
<1>6. (IF s \in {"DeliveredAcked", "FailedIntegrity"} THEN 1 ELSE 0) = 1
  BY <1>5
<1> QED
  BY <1>1, <1>3, <1>4, <1>5, <1>6, Ends

LEMMA GivesUpEnds ==
    ASSUME Inv, RetransmitRefused \/ SendTimeout
    PROVE  Inv'
<1>1. \A r \in DOMAIN peers :
        /\ peers[r].acks \in Nat
        /\ peers[r].acks <= (IF r \in DOMAIN peers THEN peers[r].acks ELSE 0) + 0
  BY DEF Inv, Types
<1>2. CASE RetransmitRefused
  <2>1. /\ snd.pc = "collect" /\ Return("FailedLocalSend")
        /\ ackq' = ackq /\ delivered' = delivered /\ peers' = peers
    BY <1>2 DEF RetransmitRefused, WindowOver
  <2> QED
    BY <1>1, <2>1, Ends
<1>3. CASE SendTimeout
  <2>1. /\ snd.pc = "collect" /\ Return("FailedTimeout")
        /\ ackq' = <<>> /\ delivered' = delivered /\ peers' = peers
    BY <1>3 DEF SendTimeout
  <2> QED
    BY <1>1, <2>1, Ends
<1> QED
  BY <1>2, <1>3

-----------------------------------------------------------------------------
(* Every behaviour *)

LEMMA Initially == Init => Inv
<1> SUFFICES ASSUME Init PROVE Inv
  OBVIOUS
<1>1. Types
  <2>1. snd = [f \in SndFields |-> snd[f]]
    BY DEF Init, SndFields
  <2>2. /\ snd.pc = "idle" /\ snd.msg = 0 /\ snd.pagesOf = [m \in Msgs |-> 0]
        /\ report = [m \in Msgs |-> "none"]
        /\ delivered = [l \in Listeners |-> {}]
        /\ peers = [d \in Departed |-> [seq |-> 0, acks |-> 0]] /\ ackq = <<>>
    BY DEF Init
  <2>3. snd.msg \in 0..NMsgs
    BY <2>2, MsgsFinite
  <2> QED
    BY <2>1, <2>2, <2>3, EmptyRange DEF Types, Statuses
<1>2. ReportOK /\ AckOK
  BY EmptyRange DEF Init, ReportOK, AckOK
<1>3. AckedMeansDelivered
  BY DEF Init, AckedMeansDelivered
<1>4. CountedOnce
  <2>1. Cardinality(Ended) \in Nat
    <3>1. Ended \in SUBSET Msgs
      BY DEF Ended
    <3> QED
      BY <3>1, MsgsFinite, FS_Subset, FS_CardinalityType
  <2>2. \A r \in DOMAIN peers : peers[r].acks = 0
    BY DEF Init
  <2>3. \A r \in DOMAIN peers : peers[r].acks <= Cardinality(Ended)
    BY <2>1, <2>2
  <2> QED
    BY <2>3 DEF CountedOnce, Ended
<1> QED
  BY <1>1, <1>2, <1>3, <1>4 DEF Inv

LEMMA Steps == Inv /\ [Next]_vars => Inv'
<1> SUFFICES ASSUME Inv, [Next]_vars PROVE Inv'
  OBVIOUS
<1>1. CASE SenderStep
  BY <1>1, ChunkSendBegins, TakeAckEnds, SenderStaysStep, GivesUpEnds DEF SenderStep
<1>2. CASE \/ \E r \in Receivers : \/ RecvFirst(r) \/ FirstTimeout(r) \/ RecvAssembling(r)
                                   \/ RoundOver(r) \/ AssemblyTimeout(r)
           \/ \E s \in Sniffers : Sniff(s) \/ SniffTimeout(s)
           \/ \E l \in Listeners : LoseData(l)
           \/ LoseControl
           \/ UNCHANGED vars
  BY <1>2, OthersStep
<1> QED
  BY <1>1, <1>2 DEF Next, Finished

LEMMA Always == Spec => []Inv
<1>1. Init => Inv
  BY Initially
<1>2. Inv /\ [Next]_vars => Inv'
  BY Steps
<1> QED
  BY <1>1, <1>2, PTL DEF Spec

\* A send that chunk_send_ex reports as DeliveredAcked was handed over whole, as the
\* CRC of the ACK is the message's and no receiver sends an ACK of what it did not
\* hand over; the sequence and page count alone, all that is compared without
\* SocketIntegrityMode::CRC32C, do not give this.
THEOREM AckedWasHandedOver == Spec => [](Integrity => AckedMeansDelivered)
<1>1. Inv => (Integrity => AckedMeansDelivered)
  BY DEF Inv
<1> QED
  BY <1>1, Always, PTL

\* drain_record_acks counts a receiver once for a message, however often it was
\* given the message and acknowledged it.
THEOREM AckCountsMessages == Spec => []CountedOnce
<1>1. Inv => CountedOnce
  BY DEF Inv
<1> QED
  BY <1>1, Always, PTL
=============================================================================
