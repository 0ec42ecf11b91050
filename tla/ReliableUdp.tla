---------------------------- MODULE ReliableUdp ----------------------------
(***************************************************************************)
(* Messages in fragments over UDP (src/dzIPC/common/data_rev.cc): one      *)
(* sender in chunk_send_ex, receivers in recv_chunk_common_impl, sniffers  *)
(* in chunk_rev_sniff, and a network that loses and reorders datagrams.    *)
(*                                                                         *)
(* A page carries its number and its message's type, page count and size,  *)
(* and no sequence number: only a heartbeat carries that.  All messages    *)
(* here have one type, and two messages with equally many pages have equal *)
(* tails.  A page's payload is the message it was cut from, so a message   *)
(* put together is a sequence of messages, one per page.                   *)
(*                                                                         *)
(* Time is abstracted to the order of events: a window of either side may  *)
(* close at any moment, unless Timely.  The rate limit is RateControl's.   *)
(***************************************************************************)
EXTENDS Naturals, Integers, FiniteSets, SequencesExt

CONSTANTS
  Receivers,        \* subscribers, each with its socket's queue
  Sniffers,         \* processes that read along
  Departed,         \* receivers the peer table knows from earlier messages
  NMsgs,            \* bound: messages the sender sends
  PageCounts,       \* page counts of messages
  BeHbMinPages,     \* kBestEffortHeartbeatMinPages
  MaxNackRound,     \* RTPS_MAX_NACK_ROUND
  MaxHbRepeat,      \* kMaxHeartbeatRepeat
  FruitlessLimit,   \* kFruitlessRoundLimit
  MaxMissingPages,  \* IpcRtpsNackMsg::kMaxMissingPages
  MaxBitmapBits,    \* IpcRtpsNackBitmapMsg::kMaxBitmapBits
  Integrity,        \* TRUE: SocketIntegrityMode::CRC32C
  Modes,            \* delivery modes the sender uses
  MaxLoss,          \* bound: datagrams the network loses
  MaxRefused,       \* bound: sends the local socket refuses for good
  Reorder,          \* a datagram may overtake Reorder - 1 earlier ones
  Timely            \* TRUE: windows are longer than the network's delay

ASSUME UdpAssumption ==
  /\ Receivers \cap Departed = {} /\ Receivers \cap Sniffers = {}
  /\ PageCounts \subseteq Nat \ {0}
  /\ {NMsgs, MaxNackRound, FruitlessLimit, MaxMissingPages, MaxBitmapBits,
      Reorder, BeHbMinPages} \subseteq Nat \ {0}
  /\ {MaxHbRepeat, MaxLoss, MaxRefused} \subseteq Nat
  /\ {Integrity, Timely} \subseteq BOOLEAN
  /\ Modes \subseteq {"Reliable", "BestEffort"}

VARIABLES
  snd,        \* chunk_send_ex: its local variables
  report,     \* the report of each message already sent
  peers,      \* PeerTable: receiver -> highest sequence and number of ACKs
  net,        \* queue of each receiver's and sniffer's data socket
  ackq,       \* queue of the sender's ACK socket
  rx,         \* recv_chunk_common_impl: its local variables, per receiver
  snf,        \* chunk_rev_sniff: its local variables, per sniffer
  delivered,  \* history: the contents each receiver and sniffer was given
  faults      \* history: datagrams lost, sends refused

vars == <<snd, report, peers, net, ackq, rx, snf, delivered, faults>>

Listeners == Receivers \cup Sniffers
Msgs == 1..NMsgs
NoHb == [kind |-> "none"]
MaxRound == MaxNackRound + 1
(* msg_sequence_counter starts at 0, the value meta.sequence has before a   *)
(* heartbeat came. *)
SeqNo(m) == m - 1

(* The content of a message that arrived whole: every page is its own. *)
Whole(m) == [p \in 1..snd.pagesOf[m] |-> m]
(***************************************************************************)
(* Frames.                                                                 *)
(***************************************************************************)
Page(m, n, p) == [kind |-> "page", cnt |-> n, page |-> p, msg |-> m]

Hb(m, n, reliable, final) ==
  [kind |-> "hb", cnt |-> n, seq |-> SeqNo(m), reliable |-> reliable, final |-> final]

Pages(m, n, S) ==
  LET order == SetToSortSeq(S, <) IN [i \in 1..Len(order) |-> Page(m, n, order[i])]

Multicast(frames) == [l \in Listeners |-> net[l] \o frames]

(* CRC32C of the assembled bytes is modelled by those bytes. *)
Ack(r, seq, content) ==
  [kind |-> "ack", rcv |-> r, cnt |-> Len(content), seq |-> seq, crc |-> content]

(***************************************************************************)
(* send_nack_auto and its two encodings: the pages a NACK reports.         *)
(***************************************************************************)
MinOf(a, b) == IF a < b THEN a ELSE b

(* The first kMaxMissingPages missing pages. *)
NackList(miss) == {p \in miss : Cardinality({q \in miss : q <= p}) <= MaxMissingPages}

(* All missing pages of the window that starts at the first one. *)
NackBitmap(miss) == {p \in miss : p < Min(miss) + MaxBitmapBits}

UseBitmap(miss) ==
  LET span  == Max(miss) - Min(miss) + 1
      bytes == (MinOf(span, MaxBitmapBits) + 7) \div 8
      cover == Cardinality(NackBitmap(miss))
      list  == MinOf(Cardinality(miss), MaxMissingPages)
  IN cover > list \/ (cover = list /\ bytes < list * 2)

NackPages(miss, bitmapOk) ==
  IF bitmapOk /\ UseBitmap(miss) THEN NackBitmap(miss) ELSE NackList(miss)

Nack(r, meta, miss) ==
  [kind |-> "nack", rcv |-> r, cnt |-> meta.cnt, seq |-> meta.seq,
   pages |-> NackPages(miss, meta.bitmap)]

(***************************************************************************)
(* The initial state: no call is under way.                                *)
(***************************************************************************)
IdleRx == [pc |-> "first", hb |-> NoHb]
IdleSnf == [pc |-> "first"]

Init ==
  /\ snd = [pc |-> "idle", msg |-> 0, pagesOf |-> [m \in Msgs |-> 0], round |-> 0,
            hbRepeat |-> 0, unknown |-> FALSE, missing |-> {},
            lastRtx |-> <<>>, closed |-> {}]
  /\ report = [m \in Msgs |-> "none"]
  /\ peers = [d \in Departed |-> [seq |-> 0, acks |-> 0]]
  /\ net = [l \in Listeners |-> <<>>]
  /\ ackq = <<>>
  /\ rx = [r \in Receivers |-> IdleRx]
  /\ snf = [s \in Sniffers |-> IdleSnf]
  /\ delivered = [l \in Listeners |-> {}]
  /\ faults = [lost |-> 0, refused |-> 0]

(***************************************************************************)
(* The sender: chunk_send_ex.                                              *)
(***************************************************************************)
Quiet == ackq = <<>> /\ \A l \in Listeners : net[l] = <<>>

(* The heartbeat after a silent round and after a batch sent again. *)
send_heartbeat == <<Hb(snd.msg, snd.pagesOf[snd.msg], TRUE, FALSE)>>

Return(status) ==
  /\ report' = [report EXCEPT ![snd.msg] = status]
  /\ snd' = [snd EXCEPT !.pc = "idle", !.missing = {}, !.unknown = FALSE]

(* The entry drain, the leading heartbeat, all pages, the completion       *)
(* heartbeat; a best-effort send drains again and returns. *)
ChunkSend(n, mode) ==
  LET m == snd.msg + 1
      reliable == mode = "Reliable"
      lead == IF reliable THEN <<Hb(m, n, TRUE, FALSE)>> ELSE <<>>
      done == IF reliable \/ n >= BeHbMinPages
                THEN <<Hb(m, n, reliable, ~reliable)>> ELSE <<>>
  IN /\ snd.pc = "idle" /\ snd.msg < NMsgs
     /\ Timely => \A l \in Listeners : net[l] = <<>>
     /\ ackq' = <<>>
     /\ net' = Multicast(lead \o Pages(m, n, 1..n) \o done)
     /\ snd' = [pc |-> IF reliable THEN "collect" ELSE "idle", msg |-> m,
                pagesOf |-> [snd.pagesOf EXCEPT ![m] = n],
                round |-> 0, hbRepeat |-> 0, unknown |-> FALSE,
                missing |-> {}, lastRtx |-> [p \in 1..n |-> -1],
                closed |-> {}]
     /\ report' = [report EXCEPT ![m] = IF reliable THEN "pending" ELSE "SentUnconfirmed"]
     /\ UNCHANGED <<peers, rx, snf, delivered, faults>>

(* send_all_chunks gives up when the socket refuses a page ten times: the  *)
(* pages before it are sent, no completion heartbeat follows. *)
ChunkSendRefused(n, mode) ==
  LET m == snd.msg + 1
      lead == IF mode = "Reliable" THEN <<Hb(m, n, TRUE, FALSE)>> ELSE <<>>
  IN /\ snd.pc = "idle" /\ snd.msg < NMsgs /\ faults.refused < MaxRefused
     /\ \E k \in 0..(n - 1) : net' = Multicast(lead \o Pages(m, n, 1..k))
     /\ ackq' = <<>>
     /\ snd' = [snd EXCEPT !.msg = m, !.pagesOf[m] = n]
     /\ report' = [report EXCEPT ![m] = "FailedLocalSend"]
     /\ faults' = [faults EXCEPT !.refused = @ + 1]
     /\ UNCHANGED <<peers, rx, snf, delivered>>

(* The four fields a control frame must share with the message sent. *)
Matches(f) == f.cnt = snd.pagesOf[snd.msg] /\ f.seq = SeqNo(snd.msg)

(* record_peer_ack for every receiver of S. *)
RecordAcks(S) ==
  LET old(r) == IF r \in DOMAIN peers THEN peers[r] ELSE [seq |-> 0, acks |-> 0]
  IN [r \in DOMAIN peers \cup S |->
        IF r \in S THEN [seq  |-> IF SeqNo(snd.msg) > old(r).seq THEN SeqNo(snd.msg) ELSE old(r).seq,
                         acks |-> old(r).acks + 1]
                   ELSE peers[r]]

(* The table of receivers: record_peer_nack adds a receiver, peer_is_known *)
(* looks one up, and two known receivers switch the suppression on. *)
RecordNack(r) ==
  [q \in DOMAIN peers \cup {r} |->
     IF q \in DOMAIN peers THEN peers[q] ELSE [seq |-> 0, acks |-> 0]]
peer_is_known(r) == r \in DOMAIN peers
SuppressionEnabled == Cardinality(DOMAIN peers) >= 2

(* drain_record_acks: the receivers whose matching ACKs are in the queue. *)
DrainedAcks == {f.rcv : f \in {g \in Range(ackq) : g.kind = "ack" /\ Matches(g)}}

(* The CRC in the ACK is not compared. *)
CrcIgnored(a) == TRUE

CrcAgrees(a) == Integrity => a.crc = Whole(snd.msg)

(* The drain counts every ACK frame, also of a receiver counted already. *)
TakeAckEveryFrame ==
  LET a == Head(ackq)
      times(r) == Cardinality({i \in DOMAIN ackq :
                    ackq[i].kind = "ack" /\ Matches(ackq[i]) /\ ackq[i].rcv = r})
      once == RecordAcks(DrainedAcks)
  IN /\ snd.pc = "collect" /\ ackq # <<>>
     /\ a.kind = "ack" /\ Matches(a)
     /\ peers' = [r \in DOMAIN once |-> [once[r] EXCEPT !.acks =
                    IF times(r) = 0 THEN @ ELSE @ - 1 + times(r)]]
     /\ ackq' = <<>>
     /\ Return(IF CrcAgrees(a) THEN "DeliveredAcked" ELSE "FailedIntegrity")
     /\ UNCHANGED <<net, rx, snf, delivered, faults>>

(* An ACK that matches ends the send: the ACKs that are already in the     *)
(* queue are counted too, each receiver once (drain_record_acks), the rest *)
(* of the queue is discarded, and the CRC of the first one is compared. *)
TakeAck ==
  LET a == Head(ackq) IN
     /\ snd.pc = "collect" /\ ackq # <<>>
     /\ a.kind = "ack" /\ Matches(a)
     /\ peers' = RecordAcks(DrainedAcks)
     /\ ackq' = <<>>
     /\ Return(IF CrcAgrees(a) THEN "DeliveredAcked" ELSE "FailedIntegrity")
     /\ UNCHANGED <<net, rx, snf, delivered, faults>>

(* A matching NACK adds its pages; a receiver seen for the first time      *)
(* switches the suppression off for this round. *)
TakeNack ==
  LET f == Head(ackq) IN
  /\ snd.pc = "collect" /\ ackq # <<>>
  /\ f.kind = "nack" /\ Matches(f)
  /\ ackq' = Tail(ackq)
  /\ snd' = [snd EXCEPT !.missing = @ \cup f.pages,
                        !.unknown = @ \/ ~peer_is_known(f.rcv)]
  /\ peers' = RecordNack(f.rcv)
  /\ UNCHANGED <<report, net, rx, snf, delivered, faults>>

(* Frames of other messages are read and ignored. *)
TakeStale ==
  /\ snd.pc = "collect" /\ ackq # <<>> /\ ~Matches(Head(ackq))
  /\ ackq' = Tail(ackq)
  /\ UNCHANGED <<snd, report, peers, net, rx, snf, delivered, faults>>

(* Timely: what was sent has arrived, and from the second window on the    *)
(* receivers' windows are as long as the sender's (both follow the number  *)
(* of pages), so each receiver closes one of its own meanwhile. *)
Assembling == {r \in Receivers : rx[r].pc = "asm"}
WindowOver ==
  /\ snd.pc = "collect" /\ snd.round < MaxRound
  /\ Timely => Quiet /\ (snd.round > 0 => Assembling \subseteq snd.closed)

(* A round with nothing to send again: another heartbeat, at most          *)
(* kMaxHeartbeatRepeat times. *)
SilentRound ==
  LET repeat == snd.hbRepeat < MaxHbRepeat IN
  /\ WindowOver /\ snd.missing = {}
  /\ net' = IF repeat THEN Multicast(send_heartbeat) ELSE net
  /\ snd' = [snd EXCEPT !.hbRepeat = IF repeat THEN @ + 1 ELSE @, !.round = @ + 1,
                        !.unknown = FALSE, !.closed = {}]
  /\ UNCHANGED <<report, peers, ackq, rx, snf, delivered, faults>>

(* Suppression: a page sent again in the previous round is not sent again  *)
(* in this one, if the table knows two receivers and no new one asked. *)
Suppressed(p) ==
  /\ SuppressionEnabled
  /\ ~snd.unknown /\ snd.round > 0
  /\ snd.lastRtx[p] = snd.round - 1

(* What a retransmission round sends: the pages, then always a heartbeat. *)
RetransmitFrames(S) ==
  Pages(snd.msg, snd.pagesOf[snd.msg], S) \o send_heartbeat

Retransmit ==
  LET again == {p \in snd.missing : ~Suppressed(p)} IN
  /\ WindowOver /\ snd.missing # {}
  /\ net' = Multicast(RetransmitFrames(again))
  /\ snd' = [snd EXCEPT !.lastRtx = [p \in DOMAIN @ |-> IF p \in again THEN snd.round ELSE @[p]],
                        !.round = @ + 1, !.missing = {},
                        !.unknown = FALSE, !.closed = {}]
  /\ UNCHANGED <<report, peers, ackq, rx, snf, delivered, faults>>

(* The socket refuses a page of the batch: the pages before it are sent. *)
RetransmitRefused ==
  LET again == {p \in snd.missing : ~Suppressed(p)} IN
  /\ WindowOver /\ again # {} /\ faults.refused < MaxRefused
  /\ \E S \in SUBSET again \ {again} :
       net' = Multicast(Pages(snd.msg, snd.pagesOf[snd.msg], S))
  /\ Return("FailedLocalSend")
  /\ faults' = [faults EXCEPT !.refused = @ + 1]
  /\ UNCHANGED <<peers, ackq, rx, snf, delivered>>

(* ack_timeout_ms is the first window and MaxNackRound later ones. *)
SendTimeout ==
  /\ snd.pc = "collect"
  /\ Timely => snd.round = MaxRound /\ Quiet
  /\ ackq' = <<>>
  /\ Return("FailedTimeout")
  /\ UNCHANGED <<peers, net, rx, snf, delivered, faults>>

(***************************************************************************)
(* A receiver: recv_chunk_common_impl, called again and again.             *)
(***************************************************************************)
(* The frames a socket may give next, and the queue without the one given. *)
Arrivals(l) == 1..MinOf(Len(net[l]), Reorder)
Consume(l, i) == net' = [net EXCEPT ![l] = RemoveAt(@, i)]

(* A frame belongs to the message under assembly if its page count (and,   *)
(* in the code, its size and type) is the same. *)
Fits(x, f) == f.cnt = x.cnt

HbFits(hb, n) == hb.kind = "hb" /\ hb.cnt = n

Missing(x) == {p \in 1..x.cnt : x.got[p] = 0}

send_ack(r, seq, content) == Append(ackq, Ack(r, seq, content))

(* The call hands the content over, then sends the ACK. *)
Deliver(r, content, seq) ==
  /\ delivered' = [delivered EXCEPT ![r] = @ \cup {content}]
  /\ ackq' = send_ack(r, seq, content)
  /\ rx' = [rx EXCEPT ![r] = IdleRx]

(* A message of one page is handed over and acknowledged at once. *)
SinglePage(r, f, seq) == Deliver(r, <<f.msg>>, seq)

(* Only page 1 starts an assembly, as in the sniffer. *)
StartsAtPageOne(f) == f.kind = "page" /\ f.page = 1

(* Whichever page comes first starts the assembly. *)
StartsMessage(f) == f.kind = "page" /\ f.page \in 1..f.cnt

(* wait_first_data_chunk: a heartbeat is kept, a page starts the assembly  *)
(* with the sequence of the heartbeat kept, if its tail fits. *)
RecvFirst(r) ==
  /\ rx[r].pc = "first"
  /\ \E i \in Arrivals(r) :
       LET f == net[r][i]
           hb == rx[r].hb
           known == f.kind = "page" /\ HbFits(hb, f.cnt)
           seq == IF known THEN hb.seq ELSE 0
       IN /\ Consume(r, i)
          /\ \/ /\ ~StartsMessage(f)
                /\ rx' = [rx EXCEPT ![r].hb = IF f.kind = "hb" THEN f ELSE @]
                /\ UNCHANGED <<ackq, delivered>>
             \/ /\ StartsMessage(f) /\ f.cnt = 1
                /\ SinglePage(r, f, seq)
             \/ /\ StartsMessage(f) /\ f.cnt > 1
                /\ rx' = [rx EXCEPT ![r] =
                     [pc |-> "asm", cnt |-> f.cnt, seq |-> seq,
                      got |-> [p \in 1..f.cnt |-> IF p = f.page THEN f.msg ELSE 0],
                      reliable |-> known /\ hb.reliable, final |-> FALSE, bitmap |-> known,
                      hbSeen |-> FALSE, round |-> 0, fresh |-> FALSE, fruitless |-> 0]]
                /\ UNCHANGED <<ackq, delivered>>
  /\ UNCHANGED <<snd, report, peers, snf, faults>>

(* The call times out before a page came, and forgets the heartbeat. *)
FirstTimeout(r) ==
  /\ rx[r].pc = "first" /\ rx[r].hb # NoHb
  /\ Timely => net[r] = <<>>
  /\ rx' = [rx EXCEPT ![r] = IdleRx]
  /\ UNCHANGED <<snd, report, peers, net, ackq, snf, delivered, faults>>

(* place_page: the first page with a number stays. *)
PlacePage(x, f) ==
  [x EXCEPT !.got[f.page] = IF @ = 0 THEN f.msg ELSE @,
            !.fresh = @ \/ x.got[f.page] = 0]

TakeHb(x, f) ==
  [x EXCEPT !.seq = f.seq, !.reliable = f.reliable, !.final = f.final,
            !.bitmap = TRUE, !.hbSeen = TRUE]

RecvAssembling(r) ==
  /\ rx[r].pc = "asm"
  /\ \E i \in Arrivals(r) :
       LET f == net[r][i]
           x == IF ~Fits(rx[r], f) THEN rx[r]
                ELSE IF f.kind = "hb" THEN TakeHb(rx[r], f) ELSE PlacePage(rx[r], f)
       IN /\ Consume(r, i)
          /\ IF Missing(x) = {}
               THEN Deliver(r, x.got, x.seq)
               ELSE rx' = [rx EXCEPT ![r] = x] /\ UNCHANGED <<ackq, delivered>>
  /\ UNCHANGED <<snd, report, peers, snf, faults>>

LastRound(x) == x.round + 1 = MaxNackRound

(* The end of a round in which the message did not become complete: give   *)
(* up if the heartbeat says nothing more will come, or if two rounds after *)
(* the first brought neither a heartbeat nor a page; otherwise NACK.       *)
(* After the last round's NACK the call gives up at once. *)
Fruitless(x) ==
  IF x.hbSeen \/ x.round = 0 THEN x.fruitless ELSE IF x.fresh THEN 0 ELSE x.fruitless + 1

GivesUp(x) ==
  IF x.hbSeen THEN ~x.reliable \/ x.final ELSE Fruitless(x) >= FruitlessLimit

RoundOver(r) ==
  LET x == rx[r]
      miss == Missing(x)
  IN /\ x.pc = "asm"
     /\ Timely => /\ net[r] = <<>>
                  /\ snd.pc = "collect" => ackq = <<>> /\ r \notin snd.closed
     /\ snd' = IF Timely /\ snd.pc = "collect" THEN [snd EXCEPT !.closed = @ \cup {r}] ELSE snd
     /\ IF GivesUp(x)
          THEN rx' = [rx EXCEPT ![r] = IdleRx] /\ UNCHANGED ackq
          ELSE /\ ackq' = Append(ackq, Nack(r, x, miss))
               /\ rx' = [rx EXCEPT ![r] =
                    IF LastRound(x) THEN IdleRx
                    ELSE [x EXCEPT !.round = @ + 1, !.hbSeen = FALSE, !.fresh = FALSE,
                                   !.fruitless = Fruitless(x)]]
     /\ UNCHANGED <<report, peers, net, snf, delivered, faults>>

(* effective_tm is over. *)
AssemblyTimeout(r) ==
  /\ rx[r].pc = "asm" /\ ~Timely
  /\ rx' = [rx EXCEPT ![r] = IdleRx]
  /\ UNCHANGED <<snd, report, peers, net, ackq, snf, delivered, faults>>

(***************************************************************************)
(* A sniffer: chunk_rev_sniff starts only at page 1, and starts over when  *)
(* page 1 of another kind of message comes.                                *)
(***************************************************************************)
SniffStart(s, f) ==
  IF f.cnt = 1
    THEN /\ delivered' = [delivered EXCEPT ![s] = @ \cup {<<f.msg>>}]
         /\ snf' = [snf EXCEPT ![s] = IdleSnf]
    ELSE /\ snf' = [snf EXCEPT ![s] =
              [pc |-> "asm", cnt |-> f.cnt, got |-> [p \in 1..f.cnt |-> IF p = 1 THEN f.msg ELSE 0]]]
         /\ UNCHANGED delivered

SniffPage(s, f) ==
  LET x == [snf[s] EXCEPT !.got[f.page] = IF @ = 0 THEN f.msg ELSE @] IN
  IF Missing(x) = {}
    THEN /\ delivered' = [delivered EXCEPT ![s] = @ \cup {x.got}]
         /\ snf' = [snf EXCEPT ![s] = IdleSnf]
    ELSE snf' = [snf EXCEPT ![s] = x] /\ UNCHANGED delivered

Sniff(s) ==
  /\ \E i \in Arrivals(s) :
       LET f == net[s][i]
           fits == IF snf[s].pc = "asm" THEN Fits(snf[s], f) ELSE FALSE
       IN /\ Consume(s, i)
          /\ \/ /\ f.kind = "hb"
                /\ UNCHANGED <<snf, delivered>>
             \/ /\ f.kind = "page" /\ fits
                /\ SniffPage(s, f)
             \/ /\ f.kind = "page" /\ ~fits /\ f.page = 1
                /\ SniffStart(s, f)
             \/ /\ f.kind = "page" /\ ~fits /\ f.page # 1
                /\ snf' = [snf EXCEPT ![s] = IdleSnf]
                /\ UNCHANGED delivered
  /\ UNCHANGED <<snd, report, peers, ackq, rx, faults>>

(* The assembly takes longer than its budget. *)
SniffTimeout(s) ==
  /\ snf[s].pc = "asm"
  /\ Timely => net[s] = <<>>
  /\ snf' = [snf EXCEPT ![s] = IdleSnf]
  /\ UNCHANGED <<snd, report, peers, net, ackq, rx, delivered, faults>>

(***************************************************************************)
(* The network loses a datagram; at the end nothing is left to do.         *)
(***************************************************************************)
LoseData(l) ==
  /\ faults.lost < MaxLoss
  /\ \E i \in DOMAIN net[l] : Consume(l, i)
  /\ faults' = [faults EXCEPT !.lost = @ + 1]
  /\ UNCHANGED <<snd, report, peers, ackq, rx, snf, delivered>>

LoseControl ==
  /\ faults.lost < MaxLoss
  /\ \E i \in DOMAIN ackq : ackq' = RemoveAt(ackq, i)
  /\ faults' = [faults EXCEPT !.lost = @ + 1]
  /\ UNCHANGED <<snd, report, peers, net, rx, snf, delivered>>

Finished ==
  /\ snd.pc = "idle" /\ snd.msg = NMsgs
  /\ \A l \in Listeners : net[l] = <<>>
  /\ \A r \in Receivers : rx[r] = IdleRx
  /\ UNCHANGED vars

SenderStep ==
  \/ \E n \in PageCounts, mode \in Modes : ChunkSend(n, mode) \/ ChunkSendRefused(n, mode)
  \/ TakeAck \/ TakeNack \/ TakeStale
  \/ SilentRound \/ Retransmit \/ RetransmitRefused \/ SendTimeout

Next ==
  \/ SenderStep
  \/ \E r \in Receivers :
       RecvFirst(r) \/ FirstTimeout(r) \/ RecvAssembling(r) \/ RoundOver(r) \/ AssemblyTimeout(r)
  \/ \E s \in Sniffers : Sniff(s) \/ SniffTimeout(s)
  \/ \E l \in Listeners : LoseData(l)
  \/ LoseControl
  \/ Finished

(* Every window has a deadline, and a frame that arrived is read. *)
Fairness ==
  /\ WF_vars(TakeAck \/ TakeNack \/ TakeStale \/ SilentRound \/ Retransmit \/ SendTimeout)
  /\ \A r \in Receivers :
       WF_vars(RecvFirst(r) \/ RecvAssembling(r) \/ RoundOver(r))
  /\ \A s \in Sniffers : WF_vars(Sniff(s))

Spec == Init /\ [][Next]_vars /\ Fairness

(***************************************************************************)
(* Properties.                                                             *)
(***************************************************************************)
Frames == [kind : {"page"}, cnt : PageCounts, page : Nat, msg : Msgs]
            \cup [kind : {"hb"}, cnt : PageCounts, seq : Nat, reliable : BOOLEAN, final : BOOLEAN]

TypeOK ==
  /\ snd.pc \in {"idle", "collect"} /\ snd.msg \in 0..NMsgs /\ snd.round \in 0..MaxRound
  /\ snd.missing \subseteq DOMAIN snd.lastRtx
  /\ \A l \in Listeners : Range(net[l]) \subseteq Frames
  /\ \A r \in Receivers :
       rx[r].pc = "asm" => /\ rx[r].round < MaxNackRound /\ rx[r].fruitless < FruitlessLimit
                           /\ Missing(rx[r]) # {}
  /\ DOMAIN peers \subseteq Receivers \cup Departed
  /\ faults.lost <= MaxLoss /\ faults.refused <= MaxRefused

(* A send reported as DeliveredAcked did reach somebody: some receiver was *)
(* given exactly this message (the ACK's sequence comes from a heartbeat,  *)
(* its CRC from the pages, and the two may belong to different messages).  *)
AckedMeansDelivered ==
  \A m \in Msgs : report[m] = "DeliveredAcked" =>
    \E r \in Receivers : Whole(m) \in delivered[r]

(* A receiver is counted at most once per message: ack_count of a peer is  *)
(* at most the number of messages that ended with an ACK, although a       *)
(* receiver may be given, and acknowledge, one message twice. *)
CountedOnce ==
  \A r \in DOMAIN peers :
    peers[r].acks <= Cardinality({m \in Msgs : report[m] \in {"DeliveredAcked", "FailedIntegrity"}})

(* Suppression starves nobody: at the end of a round every page asked for  *)
(* has been sent again in this round or in the one before. *)
AskedIsSent ==
  [][\A p \in snd.missing :
       snd.round' = snd.round + 1 => snd.lastRtx'[p] >= snd.round - 1]_vars

(* With windows longer than the delays, a message of which at least one    *)
(* page arrives reaches the only receiver although two datagrams of any    *)
(* kind are lost: the receiver's round limit and fruitless limit, the      *)
(* suppression of pages and the truncated NACKs do not keep it from it.    *)
(* (The ACK may be among the lost: the sender then reports a timeout.) *)
LossRecovered ==
  (Timely /\ snd.pc = "idle") =>
    \A m \in 1..snd.msg :
      (report[m] \in {"DeliveredAcked", "FailedTimeout"} /\ snd.pagesOf[m] > faults.lost) =>
        \A r \in Receivers : Whole(m) \in delivered[r]

(* A reliable send returns, and a receiver that started on a message is    *)
(* done with it, whatever is lost. *)
CallsReturn ==
  /\ (snd.pc = "collect") ~> (snd.pc = "idle")
  /\ \A r \in Receivers : (rx[r].pc = "asm") ~> (rx[r].pc = "first")

(* Pages of messages with different tails are never put together, neither  *)
(* by a receiver nor by a sniffer, whichever way the frames of successive  *)
(* messages come in. *)
SameShape ==
  \A l \in Listeners : \A c \in delivered[l] : \A p \in DOMAIN c :
    snd.pagesOf[c[p]] = Len(c)

(* What a receiver is given is one message: all its pages were cut from    *)
(* the same one. *)
NoMixedDelivery ==
  \A r \in Receivers : \A c \in delivered[r] : \E m \in Msgs : c = Whole(m)
=============================================================================
