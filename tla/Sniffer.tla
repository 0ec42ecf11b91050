------------------------------ MODULE Sniffer ------------------------------
(***************************************************************************)
(* The passive reader of a route (libipc/sniffer.cpp): it follows wt_      *)
(* without a reader's bit, so the producer never waits for it and may     *)
(* overwrite the slot it is copying, or the chunk a slot names.           *)
(*                                                                         *)
(* A slot holds two halves, the header (cc_id_, id_, remain_, storage_)    *)
(* and the data; each half is named by the absolute index of the push     *)
(* that wrote it, and log says what that push wrote; a chunk's halves are  *)
(* named by the message whose bytes they are.  The producer writes and the *)
(* sniffer copies each half in a step of its own.  remain_ is the number   *)
(* of parts still to come, a payload is the sequence of the indices its    *)
(* bytes came from, or the messages in whose place a chunk's halves were.  *)
(* The test for r_size <= 0 rejects only slots never written and torn ones. *)
(***************************************************************************)
EXTENDS Integers, Sequences, FiniteSets, SequencesExt

CONSTANTS
    Ring,       \* sniffer_ring_slots, the length of the ring (256)
    Chunks,     \* the chunks of the pool of large messages
    MaxSlots,   \* bound: pushes, and messages
    MaxParts,   \* bound: fragments of one message
    MaxSkips,   \* bound: skip_to_latest and reopening
    MaxFails    \* bound: segments that cannot be opened, allocations that fail

VARIABLES
    wt,         \* the ring's write index
    slots,      \* slot -> the pushes that wrote its header and its data
    log,        \* push -> [msg, part, left, chunk] it wrote (what id_, remain_ say)
    wpc,        \* the producer: "idle", "fill", "hdr", "dat", "commit"
    out,        \* the message it is sending: [msg, part, left, chunk]
    content,    \* chunk -> the messages whose bytes its halves hold (0: none)
    busy,       \* the chunks that are not in the pool
    owner,      \* history: chunk -> the message it was last acquired for
    rpc,        \* the sniffer: "idle", "enter", "loop", "copy", "after", "fetch", "wait"
    cur, primed, dropped,
    frags,      \* id -> [need, got]: the unfinished messages
    copy,       \* the halves of the slot copied so far
    mem,        \* the halves of the chunk copied so far
    last,       \* history: what the latest call to find a message returned
    seen,       \* history: the ids that were returned
    failed,     \* history: the ids given up for want of a segment or of memory
    joins,      \* history: the indices the cursor was set to, not stepped to
    from,       \* history: where the cursor was primed
    edged,      \* history: since then a slot was accepted a full ring behind
    skips

writer == <<wt, slots, log, wpc, out, content, busy, owner>>
histories == <<last, seen, failed>>
fetching == <<mem, failed>>
reader == <<rpc, cur, primed, dropped, frags, copy, mem, histories, joins, from,
            edged, skips>>
vars == <<writer, reader>>

None == -1
NoChunk == "none"
NoCopy == [hdr |-> None, dat |-> None]
NoBytes == <<None, None>>
Nothing == [id |-> 0, body |-> <<>>, own |-> FALSE]
NoFrags == [m \in {} |-> 0]
Idle == [msg |-> 0, part |-> 0, left |-> 0, chunk |-> NoChunk]

index_of(i) == i % Ring

Init ==
    /\ wt = 0 /\ log = <<>> /\ wpc = "idle" /\ out = Idle
    /\ slots = [s \in 0 .. Ring - 1 |-> [hdr |-> 0, dat |-> 0]]
    /\ content = [c \in Chunks |-> <<0, 0>>] /\ busy = {} /\ owner = [c \in Chunks |-> 0]
    /\ rpc = "idle"
    /\ cur = 0 /\ primed = FALSE /\ dropped = 0 /\ frags = NoFrags
    /\ copy = NoCopy /\ mem = NoBytes
    /\ last = Nothing /\ seen = {} /\ failed = {} /\ joins = {} /\ from = 0
    /\ edged = FALSE /\ skips = 0

\* What the push of absolute index i wrote.
Wrote(i) == log[i + 1]
-----------------------------------------------------------------------------
(* The producer: send with fragments, or with a chunk (ipc.cpp send), and   *)
(* the push that writes the slot and then publishes it (prod_cons.h).       *)

SendFragments(n) ==
    /\ wpc = "idle" /\ wt + n <= MaxSlots /\ out.msg < MaxSlots
    /\ out' = [msg |-> out.msg + 1, part |-> 1, left |-> n - 1, chunk |-> NoChunk]
    /\ wpc' = "hdr"
    /\ UNCHANGED <<wt, slots, log, content, busy, owner, reader>>

SendLarge(c) ==
    /\ wpc = "idle" /\ wt < MaxSlots /\ out.msg < MaxSlots /\ c \notin busy
    /\ out' = [msg |-> out.msg + 1, part |-> 1, left |-> 0, chunk |-> c]
    /\ busy' = busy \cup {c}
    /\ owner' = [owner EXCEPT ![c] = out.msg + 1]
    /\ wpc' = "fill"
    /\ UNCHANGED <<wt, slots, log, content, reader>>

\* A memcpy that writes the halves in any order.
FillHalf(h) ==
    /\ wpc = "fill" /\ content[out.chunk][h] # out.msg
    /\ content' = [content EXCEPT ![out.chunk][h] = out.msg]
    /\ wpc' = IF \A g \in 1 .. 2 : content'[out.chunk][g] = out.msg THEN "hdr" ELSE "fill"
    /\ UNCHANGED <<wt, slots, log, out, busy, owner, reader>>

WriteHeader ==
    /\ wpc = "hdr"
    /\ slots' = [slots EXCEPT ![index_of(wt)].hdr = wt]
    /\ log' = Append(log, out)
    /\ wpc' = "dat"
    /\ UNCHANGED <<wt, out, content, busy, owner, reader>>

WriteData ==
    /\ wpc = "dat"
    /\ slots' = [slots EXCEPT ![index_of(wt)].dat = wt]
    /\ wpc' = "commit"
    /\ UNCHANGED <<wt, log, out, content, busy, owner, reader>>

Commit ==
    /\ wpc = "commit"
    /\ wt' = wt + 1
    /\ IF out.left = 0
       THEN wpc' = "idle" /\ UNCHANGED out
       ELSE /\ wpc' = "hdr"
            /\ out' = [out EXCEPT !.part = @ + 1, !.left = @ - 1]
    /\ UNCHANGED <<slots, log, content, busy, owner, reader>>

\* A push that fails ends the send: in the middle of a message or with a filled
\* chunk, for others leave nothing a sniffer sees.
GiveUp ==
    /\ wpc = "hdr" /\ (out.part > 1 \/ out.chunk # NoChunk)
    /\ wpc' = "idle"
    /\ UNCHANGED <<wt, slots, log, out, content, busy, owner, reader>>

\* The last receiver has read the message of chunk c: it goes back to the pool.
RecycleStorage(c) ==
    /\ c \in busy /\ (wpc = "idle" \/ out.chunk # c)
    /\ busy' = busy \ {c}
    /\ UNCHANGED <<wt, slots, log, wpc, out, content, owner, reader>>
-----------------------------------------------------------------------------
(* The sniffer.                                                             *)

Call ==
    /\ rpc = "idle"
    /\ rpc' = "enter"
    /\ UNCHANGED <<writer, cur, primed, dropped, frags, copy, mem, histories, joins, from, edged, skips>>

\* try_recv_one found nothing: recv waits for wt_ to move or for its slice,
\* tries again, and gives up at its deadline; try_recv returns.
NothingNew == rpc' \in {"wait", "idle"}

Prime ==
    /\ rpc = "enter" /\ ~primed
    /\ cur' = wt /\ primed' = TRUE /\ from' = wt /\ edged' = FALSE
    /\ joins' = joins \cup {wt}
    /\ NothingNew
    /\ UNCHANGED <<writer, dropped, frags, copy, mem, histories, skips>>

\* Mutant: the lap test is one slot late.
IsLappedLate(w) == w - cur > Ring + 1

IsLapped(w) == w - cur > Ring

EnterLapped ==
    /\ rpc = "enter" /\ primed /\ IsLapped(wt)
    /\ dropped' = dropped + (wt - cur)
    /\ cur' = wt /\ joins' = joins \cup {wt}
    /\ frags' = NoFrags
    /\ rpc' = "loop"
    /\ UNCHANGED <<writer, primed, copy, mem, histories, from, edged, skips>>

EnterInTime ==
    /\ rpc = "enter" /\ primed /\ ~IsLapped(wt)
    /\ rpc' = "loop"
    /\ UNCHANGED <<writer, cur, primed, dropped, frags, copy, mem, histories, joins, from, edged, skips>>

\* while (cur_ != reader_->write_index())
LoopEnds ==
    /\ rpc = "loop" /\ cur = wt
    /\ NothingNew
    /\ UNCHANGED <<writer, cur, primed, dropped, frags, copy, mem, histories, joins, from, edged, skips>>

LoopGoesOn ==
    /\ rpc = "loop" /\ cur # wt
    /\ copy' = NoCopy /\ rpc' = "copy"
    /\ UNCHANGED <<writer, cur, primed, dropped, frags, mem, histories, joins, from, edged, skips>>

\* copy_slot: a memcpy that takes the halves in any order.
CopyHalf(h) ==
    /\ rpc = "copy" /\ copy[h] = None
    /\ copy' = [copy EXCEPT ![h] = slots[index_of(cur)][h]]
    /\ rpc' = IF \A g \in {"hdr", "dat"} : copy'[g] # None THEN "after" ELSE "copy"
    /\ UNCHANGED <<writer, cur, primed, dropped, frags, mem, histories, joins, from, edged, skips>>

\* The copied slot was passed by the producer: dropped, and what it belongs to too.
CopyLapped ==
    /\ rpc = "after" /\ IsLapped(wt)
    /\ cur' = cur + 1 /\ joins' = joins \cup {cur + 1}
    /\ dropped' = dropped + 1
    /\ frags' = NoFrags
    /\ copy' = NoCopy /\ rpc' = "loop"
    /\ UNCHANGED <<writer, primed, mem, histories, from, edged, skips>>

Header == Wrote(copy.hdr)
\* The producer may be writing this very slot, and wt_ does not yet say so.
AtTheEdge == wt - cur = Ring

\* The slot is accepted, and the cursor is behind it.
Accepted ==
    /\ rpc = "after" /\ ~IsLapped(wt)
    /\ edged' = (edged \/ AtTheEdge)
    /\ UNCHANGED <<writer, primed, dropped, joins, from, skips>>

InTime == Accepted /\ cur' = cur + 1

\* The histories are kept while no slot was accepted a full ring behind.
Return(id, body, own) ==
    /\ last' = IF edged' THEN Nothing ELSE [id |-> id, body |-> body, own |-> own]
    /\ seen' = IF edged' THEN seen ELSE seen \cup {id}
    /\ rpc' = "idle"

\* No segment, no memory: the message is passed over, and not counted.
GivenUp ==
    /\ Cardinality(failed) < MaxFails
    /\ failed' = failed \cup {Header.msg}
    /\ UNCHANGED <<mem, last, seen>>

(* fetch_storage: the storage id is in the data half; the bytes are copied   *)
(* half by half, without a reference to the chunk. *)
fetch_storage ==
    /\ InTime
    /\ Header.chunk # NoChunk
    /\ rpc' = "fetch"
    /\ UNCHANGED <<frags, copy, mem, histories>>

NoStorage ==
    /\ InTime
    /\ Header.chunk # NoChunk
    /\ GivenUp
    /\ copy' = NoCopy /\ rpc' = "loop"
    /\ UNCHANGED frags

Storage == Wrote(copy.dat).chunk
Fetched(h) == [mem EXCEPT ![h] = IF Storage = NoChunk THEN 0 ELSE content[Storage][h]]

FetchHalf(h) ==
    /\ rpc = "fetch" /\ mem[h] = None
    /\ UNCHANGED <<writer, cur, primed, dropped, frags, failed, joins, from, edged,
                   skips>>
    /\ IF \A g \in 1 .. 2 : Fetched(h)[g] # None
       THEN /\ mem' = NoBytes /\ copy' = NoCopy
            /\ Return(Header.msg, Fetched(h),
                      Storage # NoChunk /\ owner[Storage] = Header.msg)
       ELSE /\ mem' = Fetched(h)
            /\ UNCHANGED <<copy, rpc, last, seen>>

Inline == Header.chunk = NoChunk
Pending == Header.msg \in DOMAIN frags
IsSingle == Inline /\ Header.left = 0 /\ ~Pending

\* Mutant: the cursor moves on only after an unfinished message.
TakeSingleStays ==
    /\ Accepted
    /\ IsSingle
    /\ Return(Header.msg, <<copy.dat>>, TRUE)
    /\ copy' = NoCopy
    /\ UNCHANGED <<cur, frags, fetching>>

TakeSingle ==
    /\ InTime
    /\ IsSingle
    /\ Return(Header.msg, <<copy.dat>>, TRUE)
    /\ copy' = NoCopy
    /\ UNCHANGED <<frags, fetching>>

SingleFails ==
    /\ InTime
    /\ IsSingle
    /\ GivenUp
    /\ copy' = NoCopy /\ rpc' = "loop"
    /\ UNCHANGED frags

TakeFirst ==
    /\ InTime
    /\ Inline /\ Header.left > 0 /\ ~Pending
    /\ frags' = [m \in DOMAIN frags \cup {Header.msg} |->
                    IF m = Header.msg
                    THEN [need |-> Header.left + 1, got |-> <<copy.dat>>]
                    ELSE frags[m]]
    /\ copy' = NoCopy /\ rpc' = "loop"
    /\ UNCHANGED <<mem, histories>>

\* The next part; the last one, or the one that fills the buffer, completes it.
Filled == [frags[Header.msg] EXCEPT
              !.got = IF Len(@) < frags[Header.msg].need THEN Append(@, copy.dat) ELSE @]
Complete == Header.left = 0 \/ Len(Filled.got) >= Filled.need
Forget(id) == frags' = [m \in DOMAIN frags \ {id} |-> frags[m]]

TakeNext ==
    /\ InTime
    /\ Inline /\ Pending /\ ~Complete
    /\ frags' = [frags EXCEPT ![Header.msg] = Filled]
    /\ copy' = NoCopy /\ rpc' = "loop"
    /\ UNCHANGED <<mem, histories>>

TakeLast ==
    /\ InTime
    /\ Inline /\ Pending /\ Complete
    /\ Forget(Header.msg)
    /\ Return(Header.msg, Filled.got, TRUE)
    /\ copy' = NoCopy
    /\ UNCHANGED fetching

LastFails ==
    /\ InTime
    /\ Inline /\ Pending /\ Complete
    /\ Forget(Header.msg)
    /\ GivenUp
    /\ copy' = NoCopy /\ NothingNew

Wake ==
    /\ rpc = "wait"
    /\ rpc' = "enter"
    /\ UNCHANGED <<writer, cur, primed, dropped, frags, copy, mem, histories, joins, from, edged, skips>>

DeadlineReached ==
    /\ rpc = "wait"
    /\ rpc' = "idle"
    /\ UNCHANGED <<writer, cur, primed, dropped, frags, copy, mem, histories, joins, from, edged, skips>>

skip_to_latest ==
    /\ rpc = "idle" /\ skips < MaxSkips
    /\ primed' = FALSE /\ frags' = NoFrags
    /\ skips' = skips + 1
    /\ UNCHANGED <<writer, rpc, cur, dropped, copy, mem, histories, joins, from, edged>>

\* close and open again on the same ring.
Reopen ==
    /\ rpc = "idle" /\ skips < MaxSkips
    /\ primed' = FALSE /\ frags' = NoFrags /\ cur' = 0 /\ dropped' = 0
    /\ skips' = skips + 1
    /\ UNCHANGED <<writer, rpc, copy, mem, histories, joins, from, edged>>
-----------------------------------------------------------------------------
Take == TakeSingle \/ TakeFirst \/ TakeNext \/ TakeLast
Fails == NoStorage \/ SingleFails \/ LastFails

TryRecvOne ==
    \/ Prime \/ EnterLapped \/ EnterInTime \/ LoopEnds \/ LoopGoesOn
    \/ \E h \in {"hdr", "dat"} : CopyHalf(h)
    \/ CopyLapped \/ Take \/ Fails
    \/ fetch_storage \/ \E h \in 1 .. 2 : FetchHalf(h)

Send ==
    \/ \E n \in 1 .. MaxParts : SendFragments(n)
    \/ \E c \in Chunks : SendLarge(c)

Push == (\E h \in 1 .. 2 : FillHalf(h)) \/ WriteHeader \/ WriteData \/ Commit \/ GiveUp

Next ==
    \/ Send \/ Push \/ \E c \in Chunks : RecycleStorage(c)
    \/ Call
    \/ TryRecvOne \/ Wake \/ DeadlineReached
    \/ skip_to_latest \/ Reopen

(* A thread inside send or recv is scheduled, and the tool polls (dzplot,   *)
(* topic_cat call try_recv or recv in a loop).                              *)
Fairness == WF_vars(Push) /\ WF_vars(TryRecvOne \/ Wake) /\ WF_vars(Call)

Spec == Init /\ [][Next]_vars /\ Fairness
-----------------------------------------------------------------------------
\* Type invariant: the cursor never passes wt_, an entry of frags_ is unfinished.
TypeOK ==
    /\ wt \in 0 .. MaxSlots
    /\ cur \in 0 .. wt
    /\ dropped \in 0 .. MaxSlots
    /\ wpc \in {"idle", "fill", "hdr", "dat", "commit"}
    /\ rpc \in {"idle", "enter", "loop", "copy", "after", "fetch", "wait"}
    /\ \A m \in DOMAIN frags : Len(frags[m].got) \in 1 .. frags[m].need - 1

\* The indices of the committed slots of message m, in order, from its part k on.
PartsFrom(m, k) ==
    LET mine == {i \in 0 .. wt - 1 : Wrote(i).msg = m /\ Wrote(i).part >= k}
    IN  SetToSortSeq(mine, LAMBDA a, b : a < b)

Sent(m) == {i \in 0 .. wt - 1 : Wrote(i).msg = m}
IsWhole(m) == \E i \in Sent(m) : Wrote(i).left = 0

(* No wrong bytes: until a slot was accepted a full ring behind wt_, and    *)
(* unless the message lies in a chunk, what a call returns is the end of    *)
(* the message its id names, and a proper end only where the cursor was set *)
(* into the middle of that message (sniffer.cpp 314, 328, 343).             *)
NoWrongBytes ==
    \/ edged \/ last = Nothing
    \/ \E i \in Sent(last.id) : Wrote(i).chunk # NoChunk
    \/ \E p \in 1 .. MaxParts :
          /\ last.body = PartsFrom(last.id, p)
          /\ last.body # <<>> /\ IsWhole(last.id)
          /\ p = 1 \/ Head(last.body) \in joins

(* A chunk's bytes: the sniffer takes no reference, so each half of a      *)
(* large message is its own or a later user's of the chunk; both are its   *)
(* own when the chunk was not acquired again before the copy ended.        *)
LargeIsLater ==
    \A i \in Sent(last.id) : Wrote(i).chunk # NoChunk =>
        /\ last.body \in Seq(last.id .. out.msg) /\ Len(last.body) = 2
        /\ last.own => last.body = <<last.id, last.id>>

\* A call returns a message.
Returns == rpc \in {"after", "fetch"} /\ rpc' = "idle" /\ failed' = failed

(* Messages come in the order they were sent and none comes twice, unless  *)
(* a slot was accepted a full ring behind.                                 *)
InOrderOnce == [][Returns /\ ~edged' => \A m \in seen : m < last'.id]_vars

(* Losses are reported: while dropped() is 0 and no copy was made a full    *)
(* ring behind, every message that lies whole between the index the cursor  *)
(* was primed at and the cursor has been returned or is being fetched,      *)
(* unless a segment could not be opened or memory was short.                *)
MissedIsReported ==
    (primed /\ dropped = 0 /\ ~edged) =>
        \A m \in 1 .. out.msg :
            (IsWhole(m) /\ Sent(m) \subseteq from .. cur - 1)
                => m \in seen \cup failed \/ (rpc = "fetch" /\ m = Header.msg)

(* "If the writer lapped this slot while we were copying, the bytes may be  *)
(* torn. Treat as drop and advance" (sniffer.cpp 339): what is not dropped  *)
(* was written by the push of the cursor's index.                          *)
TornIsDropped ==
    [][rpc = "after" /\ cur' = cur + 1 /\ dropped' = dropped
         => copy.hdr = cur /\ copy.dat = cur]_vars

\* A tool that polls reads all that the producer has published, whatever was lost.
CatchesUp == (primed /\ cur # wt) ~> (cur = wt \/ ~primed)
=============================================================================
