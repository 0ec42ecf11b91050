----------------------------- MODULE FlatSegment -----------------------------
(***************************************************************************)
(* DZFlat segments (dzflat.h, the code generator/dzflat_generator.py emits *)
(* for a message type, loaned_message.h): a publisher borrows a chunk of   *)
(* shared memory and builds the message in it, in place (LoanedMessage),   *)
(* or has a message it owns written there (try_publish_dzflat); a          *)
(* subscriber reads the fields where they lie, keeping the chunk, or       *)
(* copies them out.                                                        *)
(*                                                                         *)
(* The message type has a scalar, a string, an array and an array of       *)
(* strings.  A cell of memory stands for a scalar, a VarRef or some bytes; *)
(* the header takes one cell, the root one for each field.  A chunk that   *)
(* went back to the pool holds "stale" cells: what a message before left.  *)
(***************************************************************************)
EXTENDS Integers, Sequences, FiniteSets

CONSTANTS
    Chunks,     \* the chunks of one size class
    NoChunk,    \* not one of them
    Holders,    \* the publisher's LoanedMessage objects
    MaxCap,     \* the largest capacity of a chunk
    Step,       \* loan_size_class: capacities are multiples of this
    Mod,        \* uint32_t arithmetic is taken modulo this
    Budgets,    \* varlen_budget of a loan
    Texts,      \* strings, and what an array is filled with
    Lengths,    \* elements asked of alloc_array and alloc_string_table
    QueueLen,   \* messages the ring keeps
    MaxCalls    \* calls that write

Align == 2      \* kAlign
Elem == 2       \* sizeof an element of the array, in cells
Hdr == 1        \* sizeof(SegHeader)
RootSize == 4   \* sizeof(Root): width, name, data, tags

VARIABLES
    seg,        \* each chunk: what it holds, the capacity it was borrowed
                \* with, what the publisher wrote into the message there, and
                \* whether it filled in the array it asked for
    holder,     \* LoanedMessage objects of the publisher
    queue,      \* published chunks on the ring
    lent,       \* the chunk a subscriber keeps
    calls,      \* calls that wrote so far
    misread,    \* a subscriber read something else than was written
    refused     \* a message that was owned did not fit its chunk

vars == <<seg, holder, queue, lent, calls, misread, refused>>

Stale == <<"stale">>
Zero == <<"zero">>
Val(v) == <<"val", v>>
VarRef(off, cnt) == <<"ref", off, cnt>>
Null == VarRef(0, 0)

Width == Hdr
Name == Hdr + 1
Data == Hdr + 2
Tags == Hdr + 3

(* align_up, in 32 bits *)
AlignUp(n) == ((((n + Align - 1) % Mod) \div Align) * Align)
VarlenStart == AlignUp(Hdr + RootSize)

Idle == [chunk |-> NoChunk, cap |-> 0, cur |-> 0, ok |-> TRUE, armed |-> FALSE]

-----------------------------------------------------------------------------
(* Writer: [mem, cap, cur, ok] *)

(* The cells between are zeroed *)
Padded(m, from, to) == [i \in DOMAIN m |-> IF i \in from .. to - 1 THEN Zero ELSE m[i]]

Room(w, at, bytes) == at >= w.cur /\ bytes <= w.cap /\ at <= w.cap - bytes

(* reserve: the offset, 0 when there is no room *)
Reserve(w, bytes) ==
    LET at == AlignUp(w.cur)
    IN  IF Room(w, at, bytes)
        THEN [off |-> at, w |-> [w EXCEPT !.mem = Padded(@, w.cur, at), !.cur = at + bytes]]
        ELSE [off |-> 0, w |-> [w EXCEPT !.ok = FALSE]]

Store(w, at, cells) ==
    [w EXCEPT !.mem = [i \in DOMAIN @ |-> IF i - at + 1 \in 1 .. Len(cells)
                                          THEN cells[i - at + 1] ELSE @[i]]]

Poke(w, at, cell) == Store(w, at, <<cell>>)

Cells(s) == [i \in 1 .. Len(s) |-> Val(s[i])]

(* alloc_array of n elements of size cells each, the ref at at.  A count   *)
(* whose size does not fit 32 bits is refused without telling the Writer   *)
AllocArray(w, n, size, at) ==
    IF n = 0 \/ n > (Mod - 1) \div size THEN Poke(w, at, Null)
    ELSE LET r == Reserve(w, n * size)
         IN  Poke(r.w, at, IF r.off = 0 THEN Null ELSE VarRef(r.off, n))

(* put_string *)
PutString(w, s, at) ==
    IF s = <<>> THEN Poke(w, at, Null)
    ELSE LET r == Reserve(w, Len(s))
         IN  IF r.off = 0 THEN Poke(r.w, at, Null)
             ELSE Poke(Store(r.w, r.off, Cells(s)), at, VarRef(r.off, Len(s)))

(* alloc_string_table: the entries are empty *)
AllocStringTable(w, n, at) ==
    LET x == AllocArray(w, n, 1, at)
        ref == x.mem[at]
    IN  IF ref = Null THEN x ELSE Store(x, ref[2], [i \in 1 .. n |-> Null])

(* put_string_at: the entry i of the table behind ref *)
PutStringAt(w, ref, i, s) == PutString(w, s, ref[2] + i)

(* The root is cleared, with the padding behind it *)
Opened(m, c) ==
    [mem |-> Padded(m, Hdr, VarlenStart), cap |-> c, cur |-> VarlenStart, ok |-> TRUE]

(* write_header *)
Header(schema, total) == <<"hdr", schema, total>>

(* finalize *)
Sealed(w) == Poke(w, 0, Header(1, w.cur))

(* loan raises what is asked for above the limit of large messages, and    *)
(* loan_size_class rounds it up: a root fits the smallest class            *)
SizeClass(size) == IF size = 0 THEN Step ELSE ((size + Step - 1) \div Step) * Step

-----------------------------------------------------------------------------
(* A message the program owns: size, varlen_size, emit *)

VarlenSize(m) ==
    LET sum[i \in 0 .. Len(m.tags)] == IF i = 0 THEN 0 ELSE sum[i - 1] + AlignUp(Len(m.tags[i]))
    IN  AlignUp(Len(m.name)) + AlignUp(Len(m.data)) + AlignUp(Len(m.tags)) + sum[Len(m.tags)]

Emit(m, w) ==
    LET a == Poke(w, Width, Val(m.width))
        b == PutString(a, m.name, Name)
        c == AllocArray(b, Len(m.data) \div Elem, Elem, Data)
        d == IF c.mem[Data] = Null THEN c ELSE Store(c, c.mem[Data][2], Cells(m.data))
        e == AllocStringTable(d, Len(m.tags), Tags)
        put[i \in 0 .. Len(m.tags)] ==
            IF i = 0 THEN e
            ELSE IF put[i - 1].ok THEN PutStringAt(put[i - 1], e.mem[Tags], i - 1, m.tags[i])
            ELSE put[i - 1]
    IN  IF d.ok THEN put[Len(m.tags)] ELSE d

(* Messages the program may own *)
Owned ==
    LET even == {s \in Texts : Len(s) % Elem = 0}
    IN  [width : {1}, name : Texts, data : even, tags : {<<>>, <<<<5>>, <<6, 7>>>>, <<<<5>>, <<5>>, <<5>>>>}]

-----------------------------------------------------------------------------
(* Reader *)

(* in_bounds *)
InBounds(size, off, cnt, stride) == off # 0 /\ off < size /\ cnt <= (size - off) \div stride

(* as_span, as_string: nothing when the reference leaves the segment *)
AsSpan(m, size, ref, stride) ==
    IF ref[3] = 0 \/ ~InBounds(size, ref[2], ref[3], stride) THEN <<>>
    ELSE [i \in 1 .. ref[3] * stride |-> m[ref[2] + i - 1]]

AsString(m, size, ref) == AsSpan(m, size, ref, 1)

(* looks_like_dzflat *)
LooksLikeDzflat(m, c) == m[0][1] = "hdr" /\ m[0][3] <= c

(* bind_segment *)
BindSegment(m, c, schema) ==
    LooksLikeDzflat(m, c) /\ m[0][2] = schema /\ m[0][3] >= Hdr + RootSize

(* The view of the fields; another schema has its fields elsewhere *)
View(m, schema) ==
    LET size == m[0][3]
        at(x) == m[IF schema = 1 THEN x ELSE Name + Tags - x]
        ref(cell) == IF cell[1] = "ref" THEN cell ELSE Null
        f(x) == ref(at(x))
        tags == AsSpan(m, size, f(Tags), 1)
        values(cells) == [i \in 1 .. Len(cells) |-> IF cells[i][1] = "val" THEN cells[i][2] ELSE -1]
    IN  [width |-> IF m[Width] = Zero THEN 0 ELSE m[Width][2],
         name |-> values(AsString(m, size, f(Name))),
         data |-> values(AsSpan(m, size, f(Data), Elem)),
         tags |-> [i \in 1 .. Len(tags) |-> values(AsString(m, size, ref(tags[i])))]]

-----------------------------------------------------------------------------
(* A message as the program sees it *)
Blank == [width |-> 0, name |-> <<>>, data |-> <<>>, tags |-> <<>>]

(* What a chunk holds is stale as soon as the chunk is back in the pool *)
Pooled == [mem |-> [i \in 0 .. MaxCap - 1 |-> Stale], cap |-> 0, want |-> Blank, filled |-> TRUE]

Returned(g, cs) == [c \in Chunks |-> IF c \in cs THEN Pooled ELSE g[c]]

Init ==
    /\ seg = [c \in Chunks |-> Pooled]
    /\ holder = [x \in Holders |-> Idle]
    /\ queue = <<>> /\ lent = NoChunk
    /\ calls = 0 /\ misread = FALSE /\ refused = FALSE

Range0(q) == {q[i] : i \in 1 .. Len(q)}
HeldBy(x) == IF holder[x].armed THEN {holder[x].chunk} ELSE {}
Used == UNION {HeldBy(x) : x \in Holders} \cup Range0(queue) \cup ({lent} \ {NoChunk})
Free == Chunks \ Used

(* x = loan<Flat>(budget): the chunk is borrowed, then what x had is given *)
(* back.  Without a chunk x is an invalid LoanedMessage                    *)
Loan(x, budget) ==
    LET c == SizeClass((VarlenStart + budget) % Mod)
        g == Returned(seg, HeldBy(x))
    IN  /\ c <= MaxCap
        /\ \/ \E k \in Free :
                 LET w == Opened(seg[k].mem, c)
                 IN  /\ seg' = [g EXCEPT ![k].mem = w.mem, ![k].cap = c]
                     /\ holder' = [holder EXCEPT ![x] =
                            [chunk |-> k, cap |-> c, cur |-> w.cur, ok |-> TRUE, armed |-> TRUE]]
           \/ /\ Free = {}
              /\ seg' = g
              /\ holder' = [holder EXCEPT ![x] = Idle]
        /\ UNCHANGED <<queue, lent, calls, misread, refused>>

(* Mutant: the object moved from keeps its chunk *)
MoveKeeps(x, y) ==
    /\ holder[x].armed
    /\ seg' = Returned(seg, HeldBy(y) \ HeldBy(x))
    /\ holder' = [holder EXCEPT ![y] = holder[x]]
    /\ UNCHANGED <<queue, lent, calls, misread, refused>>

(* y = std::move(x): discard and adopt *)
Move(x, y) ==
    /\ x # y /\ holder[x].armed
    /\ seg' = Returned(seg, HeldBy(y))
    /\ holder' = [holder EXCEPT ![y] = holder[x], ![x] = Idle]
    /\ UNCHANGED <<queue, lent, calls, misread, refused>>

(* discard, the destructor *)
Discard(x) ==
    /\ holder[x].armed
    /\ seg' = Returned(seg, HeldBy(x))
    /\ holder' = [holder EXCEPT ![x] = Idle]
    /\ UNCHANGED <<queue, lent, calls, misread, refused>>

(* The builder: the Writer in it, and a call that leaves the Writer as w   *)
(* and makes the message m                                                 *)
WriterOf(x) ==
    LET h == holder[x] IN [mem |-> seg[h.chunk].mem, cap |-> h.cap, cur |-> h.cur, ok |-> h.ok]

Wrote(x) == seg[holder[x].chunk].want

Built(x, w, m, full) ==
    /\ holder[x].armed
    /\ calls < MaxCalls /\ calls' = calls + 1
    /\ seg' = [seg EXCEPT ![holder[x].chunk] =
                  [mem |-> w.mem, cap |-> w.cap, want |-> m, filled |-> full]]
    /\ holder' = [holder EXCEPT ![x].cur = w.cur, ![x].ok = w.ok]
    /\ UNCHANGED <<queue, lent, misread, refused>>

Filled(x) == seg[holder[x].chunk].filled

SetWidth(x) ==
    /\ holder[x].armed
    /\ Built(x, Poke(WriterOf(x), Width, Val(1)), [Wrote(x) EXCEPT !.width = 1], Filled(x))

SetName(x, s) ==
    /\ holder[x].armed
    /\ Built(x, PutString(WriterOf(x), s, Name), [Wrote(x) EXCEPT !.name = s], Filled(x))

(* The array is asked for, and filled in later, through the span: what is  *)
(* not filled in is published as it is, and is not given up for another    *)
AllocData(x, n) ==
    /\ holder[x].armed /\ Filled(x)
    /\ Built(x, AllocArray(WriterOf(x), n, Elem, Data),
             [Wrote(x) EXCEPT !.data = [i \in 1 .. n * Elem |-> 0]], n = 0)

FillData(x) ==
    LET ref == WriterOf(x).mem[Data]
        s == [i \in 1 .. ref[3] * Elem |-> 2]
    IN  /\ holder[x].armed /\ ~Filled(x) /\ ref # Null
        /\ Built(x, Store(WriterOf(x), ref[2], Cells(s)), [Wrote(x) EXCEPT !.data = s], TRUE)

AllocTags(x, n) ==
    /\ holder[x].armed
    /\ Built(x, AllocStringTable(WriterOf(x), n, Tags),
             [Wrote(x) EXCEPT !.tags = [i \in 1 .. n |-> <<>>]], Filled(x))

(* Beyond the table, or without one, the caller is told so *)
SetTag(x, i, s) ==
    LET ref == WriterOf(x).mem[Tags]
    IN  /\ holder[x].armed /\ ref[1] = "ref" /\ i < ref[3] /\ ref[2] # 0
        /\ Built(x, PutStringAt(WriterOf(x), ref, i, s), [Wrote(x) EXCEPT !.tags[i + 1] = s], Filled(x))

(* publish_loan takes the chunk: onto the ring, over the oldest message    *)
(* when the ring is full, or back to the pool                              *)
Pushed(g, c) ==
    \/ /\ Len(queue) < QueueLen
       /\ queue' = Append(queue, c) /\ seg' = g
    \/ /\ Len(queue) = QueueLen
       /\ queue' = Append(Tail(queue), c) /\ seg' = Returned(g, {queue[1]})
    \/ /\ UNCHANGED queue /\ seg' = Returned(g, {c})

(* publish_loaned: a message that did not fit stays with its object *)
PublishLoaned(x) ==
    LET c == holder[x].chunk
    IN  /\ holder[x].armed /\ holder[x].ok
        /\ holder' = [holder EXCEPT ![x] = Idle]
        /\ Pushed([seg EXCEPT ![c].mem = Sealed(WriterOf(x)).mem], c)
        /\ UNCHANGED <<lent, calls, misread, refused>>

(* try_publish_dzflat *)
PublishOwned(m) ==
    LET c == SizeClass(VarlenStart + VarlenSize(m))
    IN  /\ c <= MaxCap
        /\ calls < MaxCalls /\ calls' = calls + 1
        /\ \E k \in Free :
              LET w == Emit(m, Opened(seg[k].mem, c))
                  full == [mem |-> Sealed(w).mem, cap |-> c, want |-> m, filled |-> TRUE]
              IN  IF w.ok THEN Pushed([seg EXCEPT ![k] = full], k) /\ UNCHANGED refused
                  ELSE refused' = TRUE /\ UNCHANGED <<seg, queue>>
        /\ UNCHANGED <<holder, lent, misread>>

(* A subscriber takes the next message, and reads it by a schema; what it  *)
(* does not keep goes back                                                 *)
Taken(takes, keeps, schema) ==
    LET c == queue[1]
        g == seg[c]
    IN  /\ queue' = Tail(queue)
        /\ misread' = (takes /\ g.filled /\ View(g.mem, schema) # g.want)
        /\ lent' = IF takes /\ keeps THEN c ELSE NoChunk
        /\ seg' = IF takes /\ keeps THEN seg ELSE Returned(seg, {c})
        /\ UNCHANGED <<holder, calls, refused>>

Waiting == queue # <<>> /\ lent = NoChunk

(* A typed topic: the segment is kept and viewed *)
ReceiveView(schema) ==
    /\ Waiting
    /\ Taken(BindSegment(seg[queue[1]].mem, seg[queue[1]].cap, schema), TRUE, schema)

(* dzflat_adopt: a GenericMessage does not know the schema; who reads it   *)
(* looks it up by the header's                                             *)
ReceiveAdopt ==
    /\ Waiting
    /\ Taken(LooksLikeDzflat(seg[queue[1]].mem, seg[queue[1]].cap), TRUE, seg[queue[1]].mem[0][2])

(* AcceptWire, dzflat_read: the message is copied out *)
ReceiveCopy(schema) ==
    /\ Waiting
    /\ Taken(BindSegment(seg[queue[1]].mem, seg[queue[1]].cap, schema), FALSE, schema)

(* The reader lets go of the sample *)
Drop ==
    /\ lent # NoChunk
    /\ lent' = NoChunk
    /\ seg' = Returned(seg, {lent})
    /\ UNCHANGED <<holder, queue, calls, misread, refused>>

Next ==
    \/ \E x \in Holders :
          \/ \E b \in Budgets : Loan(x, b)
          \/ \E y \in Holders : Move(x, y)
          \/ Discard(x) \/ SetWidth(x) \/ FillData(x) \/ PublishLoaned(x)
          \/ \E s \in Texts : SetName(x, s)
          \/ \E n \in Lengths : AllocData(x, n) \/ AllocTags(x, n)
          \/ \E i \in 0 .. 1, s \in Texts : SetTag(x, i, s)
    \/ \E m \in Owned : PublishOwned(m)
    \/ \E schema \in {1, 2} : ReceiveView(schema) \/ ReceiveCopy(schema)
    \/ ReceiveAdopt \/ Drop

Spec == Init /\ [][Next]_vars

-----------------------------------------------------------------------------
TypeOK ==
    /\ \A c \in Chunks : DOMAIN seg[c].mem = 0 .. MaxCap - 1
    /\ \A x \in Holders : holder[x].armed => holder[x].cur <= holder[x].cap /\ holder[x].chunk \in Chunks
    /\ Range0(queue) \cup ({lent} \ {NoChunk}) \subseteq Chunks
    /\ Len(queue) <= QueueLen

(* No two owners hold one chunk: of the LoanedMessage objects, the places  *)
(* of the ring and the subscriber each has chunks of its own, whatever was *)
(* moved, assigned, discarded or overwritten (adopt, discard, release,     *)
(* publish_loan).                                                          *)
ChunkHasOneOwner ==
    /\ \A x, y \in Holders : HeldBy(x) \cap HeldBy(y) # {} => x = y
    /\ \A x \in Holders : HeldBy(x) \cap (Range0(queue) \cup {lent}) = {}
    /\ lent \notin Range0(queue)
    /\ Cardinality(Range0(queue)) = Len(queue)

(* What the subscriber reads is what the publisher wrote, every field of   *)
(* it, the ones written twice and the ones never written too, and a        *)
(* message of another schema is not read: a message that ran out of room   *)
(* is not published at all, and a message does not change while a          *)
(* subscriber keeps it (Writer, finalize, bind_segment, View).  An array   *)
(* nobody filled is left out.                                              *)
ReadBack ==
    /\ ~misread
    /\ lent # NoChunk /\ seg[lent].filled => View(seg[lent].mem, 1) = seg[lent].want

(* Of the message before nothing is published: every cell of a segment on  *)
(* the ring was written for it, root, padding, tables and strings, but for *)
(* an array the publisher did not fill (LoanedMessage, reserve,            *)
(* alloc_string_table).                                                    *)
NothingStale ==
    \A i \in 1 .. Len(queue) :
        LET g == seg[queue[i]]
        IN  g.filled => \A j \in 0 .. g.mem[0][3] - 1 : g.mem[j] # Stale

(* A message that is owned fits the chunk its dzflat_size asked for: emit  *)
(* never runs out of room (varlen_size is an upper bound).                 *)
OwnedFits == ~refused
=============================================================================
