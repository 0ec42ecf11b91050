---------------------------- MODULE RouteChunks ----------------------------
(***************************************************************************)
(* Large messages of ipc::route: the ring of BroadcastRing carries chunk   *)
(* ids, the bytes lie in a pool of shared-memory chunks.  The producer     *)
(* takes a chunk (send, loan), the receivers hand out a buff_t on it       *)
(* (recv) and the last of them to drop its buff_t puts the id back         *)
(* (recycle_storage); the chunk of an overwritten message is put back by   *)
(* the producer (clear_message).                                           *)
(*                                                                         *)
(*   id_pool.h   the free list                                             *)
(*   ipc.cpp     acquire_storage, recycle_storage, sub_rc, discard_storage,*)
(*               clear_message, loan, publish_loan, discard_loan, recv     *)
(*                                                                         *)
(* Every message is a large one; it goes out in fragments, without a       *)
(* chunk, only when the pool is empty, and its fragments are one message   *)
(* here.  The pool is used under a spin lock, so acquire and release are   *)
(* one step each; a release follows the compare-exchange that emptied the  *)
(* chunk's conns in the same step, because nobody can take the id before.  *)
(***************************************************************************)
EXTENDS BroadcastRing

CONSTANTS
  NChunks,   \* id_pool::max_count (32)
  MaxHold    \* bound: buff_t's a receiver keeps at a time

Chunks  == 0 .. NChunks - 1
NoChunk == NChunks             \* also the end of the free list

ASSUME ChunkAssumption ==
  /\ NChunks \in Nat \ {0}
  /\ MaxHold \in Nat \ {0}

VARIABLES
  next,      \* id_pool::next_
  head,      \* id_pool::cursor_
  conns,     \* chunk_t::conns of each chunk
  chunkOf,   \* the storage id in each message, NoChunk for fragments
  pend,      \* recv() has popped a storage id and not made its buff_t yet
  held,      \* recycle_t of the buff_t's each receiver keeps
  lost       \* history: chunks of sends that failed

chunkVars == <<next, head, conns, chunkOf, pend, held, lost>>
allVars   == <<vars, chunkVars>>

Messages == 0 .. MaxWt

Hold == [chunk : Chunks, curr : SUBSET Bits, id : Bits, msg : Int]
-----------------------------------------------------------------------------

InitChunks ==
  /\ Init
  /\ next = [c \in Chunks |-> c + 1]
  /\ head = 0
  /\ conns = [c \in Chunks |-> {}]
  /\ chunkOf = [m \in Messages |-> NoChunk]
  /\ pend = [r \in Readers |-> NoChunk]
  /\ held = [r \in Readers |-> {}]
  /\ lost = {}

\* id_pool::release
Release(c) ==
  /\ next' = [next EXCEPT ![c] = head]
  /\ head' = c
-----------------------------------------------------------------------------
(***************************************************************************)
(* Producer.                                                               *)
(***************************************************************************)

\* send() reads cc_, then acquire_storage() stamps it into the chunk.  loan()
\* fails when the pool is empty.
SendChunk(op) ==
  /\ SendStart(op)
  /\ op = "loan" => head # NoChunk
  /\ \/ /\ cc # {} /\ head # NoChunk
        /\ head' = next[head]
        /\ conns' = [conns EXCEPT ![head] = cc]
        /\ chunkOf' = [chunkOf EXCEPT ![wt] = head]
     \/ /\ cc = {} \/ head = NoChunk
        /\ chunkOf' = [chunkOf EXCEPT ![wt] = NoChunk]
        /\ UNCHANGED <<head, conns>>
  /\ UNCHANGED <<next, pend, held, lost>>

\* Mutant: publish_loan() forgets the chunk when nobody is connected.
FailedSend_KeepsLoan ==
  /\ \/ WaitTimeout /\ wop = "try_send"
     \/ ForceLoad /\ cc = {}
     \/ DiscardLoan
  /\ UNCHANGED chunkVars

\* The push failed, or a loan is not used after all.  discard_loan() gives the
\* chunk back, also when publish_loan() fails; the send functions return
\* without.
FailedSend ==
  /\ \/ WaitTimeout /\ wop = "try_send"
     \/ ForceLoad /\ cc = {}
     \/ DiscardLoan
  /\ LET c == chunkOf[wt] IN
     \/ /\ c # NoChunk /\ wop = "loan"
        /\ Release(c)
        /\ UNCHANGED lost
     \/ /\ c # NoChunk /\ wop # "loan"
        /\ lost' = lost \cup {c}
        /\ UNCHANGED <<next, head>>
     \/ /\ c = NoChunk
        /\ UNCHANGED <<next, head, lost>>
  /\ UNCHANGED <<conns, chunkOf, pend, held>>

\* Mutant: the chunk of an overwritten message is released whoever holds it.
Discard_Always(c, rem) ==
  /\ conns' = [conns EXCEPT ![c] = @ \ rem]
  /\ Release(c)

\* discard_storage(): take the receivers that will never see the message out
\* of the chunk's conns and release the chunk if none is left.
Discard(c, rem) ==
  /\ conns' = [conns EXCEPT ![c] = @ \ rem]
  /\ IF conns[c] \ rem = {} THEN Release(c) ELSE UNCHANGED <<next, head>>

\* Mutant: clear_message() acts on a message everybody has taken, too.
Overwrite_AlsoTaken ==
  LET old == data[index_of(wt)]
      c   == IF old = NoMsg THEN NoChunk ELSE chunkOf[old] IN
  /\ WriteBegin
  /\ \/ c # NoChunk /\ Discard(c, wrc.bits)
     \/ c = NoChunk /\ UNCHANGED <<next, head, conns>>
  /\ UNCHANGED <<chunkOf, pend, held, lost>>

\* clear_message() on the slot about to be written.
Overwrite ==
  LET old == data[index_of(wt)]
      c   == IF old = NoMsg THEN NoChunk ELSE chunkOf[old] IN
  /\ WriteBegin
  /\ \/ c # NoChunk /\ wrc.bits # {} /\ Discard(c, wrc.bits)
     \/ (c = NoChunk \/ wrc.bits = {}) /\ UNCHANGED <<next, head, conns>>
  /\ UNCHANGED <<chunkOf, pend, held, lost>>

RingStep ==
  /\ \/ GenPush \/ PublishLoan \/ PushLoad \/ PushCas \/ WaitRetry
     \/ WaitTimeout /\ wop # "try_send"
     \/ ForceLoad /\ cc # {}
     \/ ForceCas \/ PushSniffer \/ WriteEnd \/ Advance
  /\ UNCHANGED chunkVars
-----------------------------------------------------------------------------
(***************************************************************************)
(* Receivers.                                                              *)
(***************************************************************************)

\* The storage ids a copy of the slot may show: a torn one shows that of any
\* message of the slot, or a message without a chunk.
Copied(r) ==
  IF got[r] = Torn
  THEN {chunkOf[m] : m \in {k \in Messages : index_of(k) = PopSlot(r)}}
         \cup {NoChunk}
  ELSE {chunkOf[got[r]]}

RecvPop(r) ==
  /\ PopDeliver(r)
  /\ \E c \in Copied(r) : pend' = [pend EXCEPT ![r] = c]
  /\ UNCHANGED <<next, head, conns, chunkOf, held, lost>>

\* recv() reads cc_ again for the recycle_t of the buff_t it returns.
RecvBuffer(r) ==
  /\ pend[r] # NoChunk
  /\ held' = [held EXCEPT ![r] = @ \cup
       {[chunk |-> pend[r], curr |-> cc, id |-> conn[r], msg |-> got[r]]}]
  /\ pend' = [pend EXCEPT ![r] = NoChunk]
  /\ UNCHANGED <<vars, next, head, conns, chunkOf, lost>>

\* ~buff_t: recycle_storage() and sub_rc().
DropBuffer(r, h) ==
  LET rest == conns[h.chunk] \cap (h.curr \ {h.id}) IN
  /\ h \in held[r]
  /\ held' = [held EXCEPT ![r] = @ \ {h}]
  /\ conns' = [conns EXCEPT ![h.chunk] = rest]
  /\ IF rest = {} THEN Release(h.chunk) ELSE UNCHANGED <<next, head>>
  /\ UNCHANGED <<vars, chunkOf, pend, lost>>

RecvStep(r) ==
  /\ \/ PopEnter(r) /\ pend[r] = NoChunk /\ Cardinality(held[r]) < MaxHold
     \/ PopEmpty(r) \/ PopLoad(r) \/ PopCopy(r) \/ PopDiscard(r)
  /\ UNCHANGED chunkVars

Join(r) == (ConnectReceiver(r) \/ ConnectCursor(r)) /\ UNCHANGED chunkVars

Leave(r) == Disconnect(r) /\ pend[r] = NoChunk /\ UNCHANGED chunkVars
-----------------------------------------------------------------------------
NextChunks ==
  \/ \E op \in Ops : SendChunk(op)
  \/ FailedSend \/ Overwrite \/ RingStep
  \/ \E r \in Readers : \/ RecvPop(r) \/ RecvBuffer(r) \/ RecvStep(r)
                        \/ \E h \in held[r] : DropBuffer(r, h)
  \/ \E r \in Dynamic : Join(r) \/ Leave(r)

SpecChunks == InitChunks /\ [][NextChunks]_allVars
-----------------------------------------------------------------------------
(***************************************************************************)
(* Conditions under which the properties hold.                             *)
(***************************************************************************)

\* No receiver has looked at a slot from a full ring behind.
NeverLapped == \A r \in Readers : lag[r] < RingSlots

\* Receivers join between two sends, and leave when they have taken all there
\* is and dropped it: between two sends, or before the push if they are last.
QuietMembership ==
  \A r \in Readers :
    /\ rpc[r] = "off" /\ rpc'[r] = "joining" => wpc = "idle"
    /\ rpc[r] = "joining" => wpc' = "idle"
    /\ rpc[r] = "idle" /\ rpc'[r] = "off" =>
         /\ cursor[r] = wt /\ held[r] = {}
         /\ \/ wpc = "idle"
            \/ wpc \in {"load", "full", "fload"} /\ cc = {conn[r]}
            \/ wpc = "begun" /\ wop = "loan" /\ cc = {conn[r]}
-----------------------------------------------------------------------------
(***************************************************************************)
(* Properties.                                                             *)
(***************************************************************************)

\* The ids on the free list, walked from cursor_ as acquire() would.
Walk[n \in 0 .. NChunks] ==
  IF n = 0 THEN <<head>>
  ELSE LET w == Walk[n - 1]
           l == w[Len(w)]
       IN  IF l = NoChunk THEN w ELSE Append(w, next[l])

FreeList == Walk[NChunks]

Free == {FreeList[k] : k \in 1 .. Len(FreeList)} \ {NoChunk}

\* Chunks of messages that some receiver has yet to take from the ring.
Unread ==
  {chunkOf[m] : m \in {k \in Messages :
     \E r \in Readers : /\ data[index_of(k)] = k
                        /\ conn[r] \in rc[index_of(k)].bits
                        /\ k >= cursor[r] - (IF rpc[r] \in {"copy", "clear"}
                                             THEN 1 ELSE 0)}}

\* The chunk of the message the producer is working on.
Sending == IF wpc = "idle" THEN {} ELSE {chunkOf[wt]}

\* Chunks a receiver has its hands on.
Receiving ==
  {pend[r] : r \in Readers}
    \cup {h.chunk : h \in UNION {held[r] : r \in Readers}}

InUse == (Sending \cup Unread \cup Receiving) \ {NoChunk}

\* Every variable keeps its type; in particular no id beyond the end of the
\* pool is ever linked or sent.
TypeOKChunks ==
  /\ next \in [Chunks -> Chunks \cup {NoChunk}]
  /\ head \in Chunks \cup {NoChunk}
  /\ conns \in [Chunks -> SUBSET Bits]
  /\ chunkOf \in [Messages -> Chunks \cup {NoChunk}]
  /\ pend \in [Readers -> Chunks \cup {NoChunk}]
  /\ held \in [Readers -> SUBSET Hold]
  /\ lost \subseteq Chunks

\* No chunk is put back twice: the free list ends, and names no id twice
\* (id_pool::release links a doubly released id to itself).
FreeListSound ==
  /\ FreeList[Len(FreeList)] = NoChunk
  /\ \A j, k \in 1 .. Len(FreeList) : FreeList[j] = FreeList[k] => j = k

\* A chunk that is being filled, waits in the ring for a receiver or is under
\* a buff_t cannot be acquired for another message.
UsedNotFree == InUse \cap Free = {}

\* Chunks in slots with a reader bit left: overwriting the slot returns them.
Overwritable ==
  {chunkOf[m] : m \in {k \in Messages : /\ data[index_of(k)] = k
                                        /\ rc[index_of(k)].bits # {}}}

\* Every chunk is free, in use, still in the ring, or was lost by a send that
\* returned false: neither recycling nor overwriting leaks one.
AllAccountedFor == Chunks \subseteq Free \cup InUse \cup Overwritable \cup lost

\* clear_message() takes a non-empty rem_cc to say that the old message's
\* chunk is the producer's to give back: it has not been given back before.
RemCcEntitles ==
  LET old == data[index_of(wt)] IN
  wpc = "prep" /\ wrc.bits # {} /\ old # NoMsg => chunkOf[old] \notin Free

\* A send that fails gives its chunk back.
FailedSendReturnsChunk == lost = {}
=============================================================================
