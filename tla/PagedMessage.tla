---------------------------- MODULE PagedMessage ----------------------------
(***************************************************************************)
(* The TLV wire of a message (ipc_msg_base.hpp, generic_message.hpp): the  *)
(* fields, each a name, a type and its value, written one after the other  *)
(* into pages of PageSize bytes that each end in a tail: the page's number,*)
(* the message's size and its id; and the two readers of that wire,        *)
(* GenericMessage, which goes by the names and types it finds, and the     *)
(* deserialize the generator emits (generator/msg_generator.py), which     *)
(* knows the fields and steps over names and types.                        *)
(*                                                                         *)
(* A cell stands for a byte; a tail takes one cell for each of its four    *)
(* numbers, an int32 two cells.  The eight types stand for the 26 of       *)
(* FieldType: scalars and arrays differ by the width of an element only.   *)
(* A buffer may reach the reader cut short (docs/dzflat_known_issues.md 3).*)
(***************************************************************************)
EXTENDS Integers, Sequences, FiniteSets

CONSTANTS
    PageSize,       \* IPC_MSG_MAX_SIZE
    PageMod,    \* the page counters are taken modulo this (2^16)
    MaxFields,  \* fields of a message
    Names,      \* names a field may have, sequences of cells
    Texts,      \* what a string, an array or a scalar is filled with
    MsgId       \* dz_ipc_msg_id, a cell no value holds

TailSize == 4     \* TAIL_MSG_SIZE: page count, page, size, id
IntSize == 2    \* sizeof(int32_t)
Width == 2      \* sizeof a 16, 32 or 64 bit element
Junk == 12      \* memory nobody wrote, a cell no value holds

FT_BYTE == 1
FT_WORD == 2
FT_STRING == 3
FT_NESTED == 4
FT_BYTE_ARRAY == 5
FT_WORD_ARRAY == 6
FT_STRING_ARRAY == 7
FT_NESTED_ARRAY == 8

VARIABLES
    reader,     \* "generic" or "generated"
    fields,     \* fields_ of the sender
    pc,         \* "build", "write", "sent", "read", "done", "overrun"
    k,          \* fields written or read so far
    wr,         \* the buffer written so far, and the page written to
    buf,        \* what reaches the reader
    off,        \* the reader's offset
    out,        \* the fields read
    ok          \* ~_deser_overflow

vars == <<reader, fields, pc, k, wr, buf, off, out, ok>>

Low(a, b) == IF a < b THEN a ELSE b

Zeros(n) == [i \in 1 .. n |-> 0]

(* An int32: the top bit of its second cell is the sign *)
Int32(n) == <<n % 16, n \div 16>>
AsInt(c) == LET n == c[1] + 16 * c[2] IN IF n >= 128 THEN n - 256 ELSE n

-----------------------------------------------------------------------------
(* Writing *)

(* correct_total_size *)
PageCount(len) == ((len \div PageSize) + 1) % PageMod
TotalSize(len) == len + PageCount(len) * TailSize

(* add_tail_msg *)
TailMsg(page, len) == <<PageCount(len), page, TotalSize(len), MsgId>>

(* How many page ends a field of len cells reaches from offset pure on *)
Cuts(pure, len) == (pure + len) \div PageSize - pure \div PageSize

(* n cells of src on a page, and its tail *)
PutPage(u, src, len, n, p) ==
    [bytes |-> u.bytes \o SubSeq(src, u.done + 1, u.done + n) \o TailMsg(p, len),
     page |-> p, done |-> u.done + n, pure |-> u.pure + n]

NextPage(u, src, len) ==
    PutPage(u, src, len, Low(PageSize - (u.pure % PageSize), Len(src) - u.done),
            (u.page + 1) % PageMod)

PutRest(u, src) ==
    [bytes |-> u.bytes \o SubSeq(src, u.done + 1, Len(src)), page |-> u.page]

ToSFrom(w, src, len, pure, cut) ==
    LET upto[i \in 0 .. cut] ==
            IF i = 0 THEN [bytes |-> w.bytes, page |-> w.page, done |-> 0, pure |-> pure]
            ELSE NextPage(upto[i - 1], src, len)
    IN  PutRest(upto[cut], src)

PureWritten(w) == Len(w.bytes) - (w.page - 1) * TailSize

(* adapt_memcpy_tos: src behind what w holds, of a message of len cells *)
ToS(w, src, len) ==
    ToSFrom(w, src, len, PureWritten(w), Cuts(PureWritten(w), Len(src)))

FieldLen(f) == IntSize + Len(f.name) + 1 + Len(f.data)

DataLen(fs) ==
    LET sum[i \in 0 .. Len(fs)] == IF i = 0 THEN 0 ELSE sum[i - 1] + FieldLen(fs[i])
    IN  sum[Len(fs)]

(* One turn of serialize: name size, name, type, value *)
WriteField(w, f, len) ==
    LET header == ToS(ToS(ToS(w, Int32(Len(f.name)), len), f.name, len), <<f.type>>, len)
    IN  IF f.data = <<>> THEN header ELSE ToS(header, f.data, len)

Empty == [bytes |-> <<>>, page |-> 1]

(* The whole of serialize, for a message inside a message *)
Serialized(fs) ==
    LET len == DataLen(fs)
        upto[i \in 0 .. Len(fs)] ==
            IF i = 0 THEN Empty ELSE WriteField(upto[i - 1], fs[i], len)
        w == upto[Len(fs)]
    IN  IF fs = <<>> THEN [i \in 1 .. TailSize |-> Junk] ELSE w.bytes \o TailMsg(w.page, len)

-----------------------------------------------------------------------------
(* The setters: what a field's data holds *)

set_string(s) == Int32(Len(s)) \o s

set_array(s, width) == Int32(Len(s) \div width) \o s

set_string_array(ss) ==
    LET upto[i \in 0 .. Len(ss)] ==
            IF i = 0 THEN Int32(Len(ss)) ELSE upto[i - 1] \o set_string(ss[i])
    IN  upto[Len(ss)]

set_nested(fs) == set_string(Serialized(fs))

set_nested_array(fss) ==
    set_string_array([i \in 1 .. Len(fss) |-> Serialized(fss[i])])

(* The values a setter may be given, each with the field's type and the    *)
(* data it becomes                                                         *)
Field(name, type, data) == [name |-> name, type |-> type, data |-> data]

Inner == LET x == Field(<<10>>, FT_BYTE, <<1>>) IN {<<x>>, <<>>}

Values ==
    {<<FT_BYTE, s, s>> : s \in {t \in Texts : Len(t) = 1}}
    \cup {<<FT_WORD, s, s>> : s \in {t \in Texts : Len(t) = Width}}
    \cup {<<FT_STRING, set_string(s), s>> : s \in Texts}
    \cup {<<FT_BYTE_ARRAY, set_array(s, 1), s>> : s \in Texts}
    \cup {<<FT_WORD_ARRAY, set_array(s, Width), s>> : s \in {t \in Texts : Len(t) % Width = 0}}
    \cup {<<FT_STRING_ARRAY, set_string_array(<<s, s>>), <<s, s>>>> : s \in Texts}
    \cup {<<FT_NESTED, set_nested(fs), fs>> : fs \in Inner}
    \cup {<<FT_NESTED_ARRAY, set_nested_array(<<fs>>), <<fs>>>> : fs \in Inner}

-----------------------------------------------------------------------------
(* Reading *)

Size(b) == Len(b)

(* Mutant: the tail of a page is taken for data *)
ToDsFlat(b, o, len) ==
    IF o + len <= Size(b) THEN [got |-> SubSeq(b, o + 1, o + len), off |-> o + len, in |-> TRUE]
    ELSE [got |-> Zeros(len), off |-> o, in |-> FALSE]

(* to_pure_offset: the data ahead of offset o *)
PureOffset(o) == o - (o \div (PageSize + TailSize)) * TailSize

(* n cells from a page, up to its end, and over its tail *)
TakePage(u, b, n) ==
    IF u.in /\ u.off + n <= Size(b)
    THEN [got |-> u.got \o SubSeq(b, u.off + 1, u.off + n),
          off |-> u.off + n + TailSize, pure |-> u.pure + n, in |-> TRUE]
    ELSE [u EXCEPT !.in = FALSE]

ToPageEnd(u, len) == Low(PageSize - (u.pure % PageSize), len - Len(u.got))

NextFrom(u, b, len) == TakePage(u, b, ToPageEnd(u, len))

TakePages(b, o, len, pure) ==
    LET upto[i \in 0 .. Cuts(pure, len)] ==
            IF i = 0 THEN [got |-> <<>>, off |-> o, pure |-> pure, in |-> TRUE]
            ELSE NextFrom(upto[i - 1], b, len)
    IN  upto[Cuts(pure, len)]

TakeRest(u, b, len) ==
    LET rest == len - Len(u.got)
    IN  CASE rest = 0 -> [got |-> u.got, off |-> u.off, in |-> TRUE]
          [] rest > 0 /\ u.in /\ u.off + rest <= Size(b) ->
                [got |-> u.got \o SubSeq(b, u.off + 1, u.off + rest), off |-> u.off + rest, in |-> TRUE]
          [] OTHER -> [got |-> u.got \o Zeros(rest), off |-> u.off, in |-> FALSE]

(* adapt_memcpy_tods, and read_paged, which does the same and does not say *)
(* that it left the buffer: len cells from offset o on, over the page      *)
(* tails; what lies outside of the buffer is zero                          *)
ToDs(b, o, len) == TakeRest(TakePages(b, o, len, PureOffset(o)), b, len)

(* What reading a value comes to: its data, the offset behind it, whether  *)
(* all of it lay in the buffer, and whether deserialize returned there     *)
Read(data, o, in, stop) == [data |-> data, off |-> o, in |-> in, stop |-> stop]
Stop(o) == Read(<<>>, o, FALSE, TRUE)

Taken(x) == Read(x.got, x.off, x.in, FALSE)

(* n, the size or count read, and the cells x behind it *)
Sized(n, x) == Read(n.got \o x.got, x.off, n.in /\ x.in, FALSE)

(* Both readers give up on a negative size *)
Negative(b, o, n) == o + IntSize > Size(b) + TailSize \/ AsInt(n.got) < 0

GenericSized(b, o, n) ==
    IF Negative(b, o, n) THEN Stop(o) ELSE Sized(n, ToDs(b, n.off, AsInt(n.got)))

GenericString(b, o) == GenericSized(b, o, ToDs(b, o, IntSize))

GenericByte(b, o) == IF o + 1 > Size(b) THEN Stop(o) ELSE Taken(ToDs(b, o, 1))

GenericWord(b, o) ==
    IF o + Width > Size(b) + TailSize THEN Stop(o) ELSE Taken(ToDs(b, o, Width))

(* tods_count_ok, ahead of the allocation *)
CountOk(b, o, n, width) == n >= 0 /\ o <= Size(b) /\ n * width <= Size(b) - o

GeneratedSized(b, n, width) ==
    IF CountOk(b, n.off, AsInt(n.got), width)
    THEN Sized(n, ToDs(b, n.off, AsInt(n.got) * width))
    ELSE Stop(n.off)

GeneratedString(b, o) == GeneratedSized(b, ToDs(b, o, IntSize), 1)

(* Mutant: a message that ends with its page is taken for one that lies in it *)
ContiguousToEnd(o, len) == (PureOffset(o) % PageSize) + len <= PageSize

(* region_is_contiguous *)
Contiguous(o, len) == (PureOffset(o) % PageSize) + len < PageSize

(* A view of this buffer, whose end nobody looks at: behind it lies what   *)
(* the memory holds                                                        *)
View(b, o, len) ==
    [got |-> [i \in 1 .. len |-> IF o + i <= Size(b) THEN b[o + i] ELSE Junk],
     off |-> o + len, in |-> TRUE]

(* A nested message that lies in one page is read in place, another one    *)
(* from a copy; a negative size throws                                     *)
GeneratedMessage(b, n, len) ==
    IF len < 0 THEN Stop(n.off)
    ELSE Sized(n, IF Contiguous(n.off, len) THEN View(b, n.off, len) ELSE ToDs(b, n.off, len))

NestedSized(b, n) == GeneratedMessage(b, n, AsInt(n.got))

GeneratedNested(b, o) == NestedSized(b, ToDs(b, o, IntSize))

(* An element of an array: the generic reader takes strings and messages   *)
(* alike, generated code does not                                          *)
ReadItem(item, b, o) ==
    CASE item = "byte" -> GenericByte(b, o)
      [] item = "word" -> GenericWord(b, o)
      [] item = "bytes" -> GenericString(b, o)
      [] item = "string" -> GeneratedString(b, o)
      [] item = "nested" -> GeneratedNested(b, o)

Behind(u, x) == Read(u.data \o x.data, x.off, u.in /\ x.in, x.stop)

(* One item more; a stop of one is a stop of all *)
NextItem(u, b, item) == IF u.stop THEN u ELSE Behind(u, ReadItem(item, b, u.off))

(* n, the count read, and as many items *)
Items(b, n, item) ==
    LET upto[i \in 0 .. AsInt(n.got)] ==
            IF i = 0 THEN Taken(n) ELSE NextItem(upto[i - 1], b, item)
    IN  upto[AsInt(n.got)]

GenericItems(b, o, n, item) == IF Negative(b, o, n) THEN Stop(o) ELSE Items(b, n, item)

GenericArray(b, o, item) == GenericItems(b, o, ToDs(b, o, IntSize), item)

(* The switch of GenericMessage::deserialize *)
GenericValue(type, b, o) ==
    CASE type = FT_BYTE -> GenericByte(b, o)
      [] type = FT_WORD -> GenericWord(b, o)
      [] type \in {FT_STRING, FT_NESTED} -> GenericString(b, o)
      [] type = FT_BYTE_ARRAY -> GenericArray(b, o, "byte")
      [] type = FT_WORD_ARRAY -> GenericArray(b, o, "word")
      [] type \in {FT_STRING_ARRAY, FT_NESTED_ARRAY} -> GenericArray(b, o, "bytes")
      [] OTHER -> Stop(o)

(* What a turn of the loop comes to: a field or a tail read, or the end *)
Turn(o, fs) == [end |-> FALSE, off |-> o, fields |-> fs]
LoopEnds(o) == [end |-> TRUE, off |-> o, fields |-> <<>>]

(* The name, the type and the value of a field that begins at o, each from *)
(* what was read ahead of it                                               *)
ReadValue(o, name, type, v) ==
    IF v.stop THEN LoopEnds(o) ELSE Turn(v.off, <<Field(name.got, type.got[1], v.data)>>)

ReadType(b, o, name, type) ==
    IF name.off + 1 > Size(b) THEN LoopEnds(o)
    ELSE ReadValue(o, name, type, GenericValue(type.got[1], b, type.off))

AfterName(b, o, name) == ReadType(b, o, name, ToDs(b, name.off, 1))

ReadName(b, o, n) ==
    IF o + IntSize > Size(b) \/ AsInt(n.got) <= 0 \/ n.off + AsInt(n.got) > Size(b)
    THEN LoopEnds(o)
    ELSE AfterName(b, o, ToDs(b, n.off, AsInt(n.got)))

(* One turn of the loop of GenericMessage::deserialize: the loop ends, a   *)
(* page tail is stepped over, or a field is read                           *)
GenericStep(b, o) ==
    CASE ~(o + TailSize < Size(b)) -> LoopEnds(o)
      [] o + TailSize < Size(b) /\ o % (PageSize + TailSize) >= PageSize ->
            Turn(o + (PageSize + TailSize) - (o % (PageSize + TailSize)), <<>>)
      [] OTHER -> ReadName(b, o, ToDs(b, o, IntSize))

NextTurn(u, b, x) ==
    IF u.end THEN u ELSE [end |-> x.end, off |-> x.off, fields |-> u.fields \o x.fields]

TurnFrom(u, b) == NextTurn(u, b, GenericStep(b, u.off))

(* The whole loop, for a message inside a message *)
Deserialized(b) ==
    LET upto[i \in 0 .. Size(b)] ==
            IF i = 0 THEN Turn(0, <<>>) ELSE TurnFrom(upto[i - 1], b)
    IN  upto[Size(b)].fields

(* The getters, from a field's data *)
get_string(data) == SubSeq(data, IntSize + 1, IntSize + AsInt(data))

get_array(data, width) == SubSeq(data, IntSize + 1, IntSize + AsInt(data) * width)

NextString(u, rest) ==
    [at |-> u.at + IntSize + AsInt(rest), got |-> Append(u.got, get_string(rest))]

get_string_array(data) ==
    LET upto[i \in 0 .. AsInt(data)] ==
            IF i = 0 THEN [at |-> IntSize, got |-> <<>>]
            ELSE NextString(upto[i - 1], SubSeq(data, upto[i - 1].at + 1, Len(data)))
    IN  upto[AsInt(data)].got

get_nested(data) == Deserialized(get_string(data))

get_nested_array(data) ==
    LET ss == get_string_array(data) IN [i \in 1 .. Len(ss) |-> Deserialized(ss[i])]

Get(f) ==
    CASE f.type \in {FT_BYTE, FT_WORD} -> f.data
      [] f.type = FT_STRING -> get_string(f.data)
      [] f.type = FT_BYTE_ARRAY -> get_array(f.data, 1)
      [] f.type = FT_WORD_ARRAY -> get_array(f.data, Width)
      [] f.type = FT_STRING_ARRAY -> get_string_array(f.data)
      [] f.type = FT_NESTED -> get_nested(f.data)
      [] f.type = FT_NESTED_ARRAY -> get_nested_array(f.data)

GeneratedScalar(width, b, o) == Taken(ToDs(b, o, width))

GeneratedArray(width, b, o) == GeneratedSized(b, ToDs(b, o, IntSize), width)

GeneratedElements(b, n, item) ==
    IF CountOk(b, n.off, AsInt(n.got), IntSize) THEN Items(b, n, item) ELSE Stop(n.off)

GeneratedItems(b, o, item) == GeneratedElements(b, ToDs(b, o, IntSize), item)

(* What the generator emits for a field of each type *)
GeneratedValue(type, b, o) ==
    CASE type = FT_BYTE -> GeneratedScalar(1, b, o)
      [] type = FT_WORD -> GeneratedScalar(Width, b, o)
      [] type = FT_STRING -> GeneratedString(b, o)
      [] type = FT_NESTED -> GeneratedNested(b, o)
      [] type = FT_BYTE_ARRAY -> GeneratedArray(1, b, o)
      [] type = FT_WORD_ARRAY -> GeneratedArray(Width, b, o)
      [] type = FT_STRING_ARRAY -> GeneratedItems(b, o, "string")
      [] type = FT_NESTED_ARRAY -> GeneratedItems(b, o, "nested")

-----------------------------------------------------------------------------
Init ==
    /\ reader \in {"generic", "generated"}
    /\ fields = <<>>
    /\ pc = "build" /\ k = 0 /\ wr = Empty
    /\ buf = <<>> /\ off = 0 /\ out = <<>> /\ ok = TRUE

(* find_field *)
FindField(name) == {i \in 1 .. Len(fields) : fields[i].name = name}

(* A setter: the field of that name, or a new one behind the others *)
Set(name, v) ==
    LET f == [name |-> name, type |-> v[1], data |-> v[2], value |-> v[3]]
    IN  /\ pc = "build"
        /\ \/ /\ FindField(name) = {} /\ Len(fields) < MaxFields
              /\ fields' = Append(fields, f)
           \/ \E i \in FindField(name) : fields' = [fields EXCEPT ![i] = f]
        /\ UNCHANGED <<reader, pc, k, wr, buf, off, out, ok>>

(* serialize begins: serialize_data_cut allocates TotalSize cells.  A      *)
(* message without fields is returned as it was allocated                  *)
SerializeBegin ==
    /\ pc = "build" /\ fields # <<>>
    /\ pc' = "write"
    /\ UNCHANGED <<reader, fields, k, wr, buf, off, out, ok>>

SerializeEmpty ==
    /\ pc = "build" /\ fields = <<>>
    /\ \E id \in {Junk, MsgId} : buf' = <<Junk, Junk, Junk, id>>
    /\ pc' = "sent"
    /\ UNCHANGED <<reader, fields, k, wr, off, out, ok>>

Overrun(w) == Len(w.bytes) > TotalSize(DataLen(fields))

SerializeField ==
    LET w == WriteField(wr, fields[k + 1], DataLen(fields))
    IN  /\ pc = "write" /\ k < Len(fields)
        /\ wr' = w /\ k' = k + 1
        /\ pc' = IF Overrun(w) THEN "overrun" ELSE pc
        /\ UNCHANGED <<reader, fields, buf, off, out, ok>>

(* The last tail; write_now_page gives every slice its number *)
Slice(i, total) == (i - 1) * (PageSize + TailSize) + 1 .. Low(i * (PageSize + TailSize), total)
NumberPages(b) ==
    LET slices == (Len(b) + PageSize + TailSize - 1) \div (PageSize + TailSize)
        ends == {Low(i * (PageSize + TailSize), Len(b)) : i \in 1 .. slices}
    IN  [j \in 1 .. Len(b) |->
            IF j + 2 \in ends THEN (j + PageSize + TailSize + 1) \div (PageSize + TailSize) ELSE b[j]]

SerializeEnd ==
    LET w == [wr EXCEPT !.bytes = @ \o TailMsg(wr.page, DataLen(fields))]
    IN  /\ pc = "write" /\ k = Len(fields)
        /\ wr' = w
        /\ IF Overrun(w) THEN pc' = "overrun" /\ UNCHANGED buf
           ELSE pc' = "sent" /\ buf' = NumberPages(w.bytes)
        /\ UNCHANGED <<reader, fields, k, off, out, ok>>

(* check_id: the id in the last four bytes *)
CheckId(b) == Len(b) >= TailSize /\ b[Len(b)] = MsgId

(* The buffer arrives, whole or cut short; AcceptWire looks at the id and  *)
(* hands it to deserialize                                                 *)
Arrive(len) ==
    /\ pc = "sent"
    /\ len <= Len(buf)
    /\ buf' = SubSeq(buf, 1, len)
    /\ pc' = IF CheckId(buf') THEN "read" ELSE "dropped"
    /\ k' = 0
    /\ UNCHANGED <<reader, fields, wr, off, out, ok>>

End == pc' = "done" /\ UNCHANGED <<k, off, out, ok>>

(* One turn of the loop of GenericMessage::deserialize *)
GenericField ==
    LET x == GenericStep(buf, off)
    IN  /\ pc = "read" /\ reader = "generic"
        /\ IF x.end THEN End
           ELSE out' = out \o x.fields /\ off' = x.off /\ UNCHANGED <<pc, k, ok>>
        /\ UNCHANGED <<reader, fields, wr, buf>>

(* Over the name and the type, which are not looked at: the offset is      *)
(* moved, except over the type of a string, which is read                  *)
PastHeader(type, o, len) ==
    IF type = FT_STRING THEN ToDs(buf, o + len, 1)
    ELSE [got |-> <<>>, off |-> o + len + 1, in |-> TRUE]

(* The field's value v, behind the size n of its name and the header h *)
TakeField(f, n, h, v) ==
    /\ out' = Append(out, Field(f.name, f.type, v.data))
    /\ off' = v.off
    /\ ok' = (ok /\ n.in /\ h.in /\ v.in)
    /\ pc' = IF v.stop THEN "done" ELSE pc

PastName(f, n, h) == TakeField(f, n, h, GeneratedValue(f.type, buf, h.off))

ReadField(f, n) ==
    IF n.off + AsInt(n.got) < 0
    THEN off' = Len(buf) + 1 /\ ok' = FALSE /\ UNCHANGED <<pc, out>>
    ELSE PastName(f, n, PastHeader(f.type, n.off, AsInt(n.got)))

(* The next field of the generated deserialize *)
GeneratedField ==
    /\ pc = "read" /\ reader = "generated" /\ k < Len(fields)
    /\ k' = k + 1
    /\ ReadField(fields[k + 1], ToDs(buf, off, IntSize))
    /\ UNCHANGED <<reader, fields, wr, buf>>

GeneratedEnd ==
    /\ pc = "read" /\ reader = "generated" /\ k = Len(fields)
    /\ End
    /\ UNCHANGED <<reader, fields, wr, buf>>

Next ==
    \/ \E name \in Names, v \in Values : Set(name, v)
    \/ SerializeBegin \/ SerializeEmpty \/ SerializeField \/ SerializeEnd
    \/ \E len \in 0 .. Len(buf) : Arrive(len)
    \/ GenericField \/ GeneratedField \/ GeneratedEnd

Spec == Init /\ [][Next]_vars

-----------------------------------------------------------------------------
Whole == Len(buf) = TotalSize(DataLen(fields))

Accepted == pc = "done" /\ ok

TypeOK ==
    /\ reader \in {"generic", "generated"}
    /\ Len(fields) <= MaxFields
    /\ \A i, j \in 1 .. Len(fields) : fields[i].name = fields[j].name => i = j
    /\ pc \in {"build", "write", "sent", "read", "done", "dropped", "overrun"}
    /\ k \in 0 .. Len(fields)
    /\ wr.page \in 0 .. PageMod - 1

(* A message of fewer than PageMod pages fills the buffer allocated for it *)
(* exactly, and every slice of it of the size of a datagram ends in a tail *)
(* that tells the page count, the slice's own number, the message's size   *)
(* and its id: the transport cuts the buffer at these places (serialize,   *)
(* add_tail_msg, write_now_page).                                          *)
SlicesTell ==
    LET len == DataLen(fields)
        total == TotalSize(len)
    IN  len \div PageSize < PageMod - 1 =>
            /\ pc # "overrun"
            /\ pc = "sent" /\ fields # <<>> =>
                  /\ Len(buf) = total
                  /\ \A i \in 1 .. PageCount(len) :
                        LET e == Low(i * (PageSize + TailSize), total)
                        IN  SubSeq(buf, e - 3, e) = <<PageCount(len), i, total, MsgId>>

(* The fields GenericMessage can tell from the wire: a name may not be     *)
(* empty                                                                   *)
Readable ==
    LET bad == {i \in 1 .. Len(fields) : fields[i].name = <<>>}
    IN  IF bad = {} THEN fields
        ELSE SubSeq(fields, 1, (CHOOSE i \in bad : \A j \in bad : i <= j) - 1)

(* The getters of the received GenericMessage return what the setters of  *)
(* the sent one were given, wherever the page ends fall in names, sizes,   *)
(* elements and nested messages, up to a field with an empty name          *)
(* (deserialize, get_scalar, get_string, get_nested, get_array_impl).      *)
GenericReadsBack ==
    pc = "done" /\ reader = "generic" /\ Whole /\ fields # <<>> =>
        /\ Len(out) = Len(Readable)
        /\ \A i \in 1 .. Len(Readable) :
              /\ out[i].name = fields[i].name /\ out[i].type = fields[i].type
              /\ Get(out[i]) = fields[i].value

(* Does a page end within the name of a field, or its type, which a string *)
(* reads                                                                   *)
HeaderCut ==
    LET start[i \in 1 .. Len(fields) + 1] ==
            IF i = 1 THEN 0 ELSE start[i - 1] + FieldLen(fields[i - 1])
    IN  \E i \in 1 .. Len(fields) :
            LET a == start[i] + IntSize
            IN  a \div PageSize #
                (a + Len(fields[i].name) + (IF fields[i].type = FT_STRING THEN 0 ELSE 1)) \div PageSize

SameFields ==
    out = [i \in 1 .. Len(fields) |-> Field(fields[i].name, fields[i].type, fields[i].data)]

Nested == \E i \in 1 .. Len(fields) : fields[i].type \in {FT_NESTED, FT_NESTED_ARRAY}

(* A message the generated deserialize finds good is the one that was      *)
(* sent, and the whole one is found good: what is cut short never passes,  *)
(* even where a cut at a page end leaves the right id behind               *)
(* (deserialize_ok, AcceptWire).  Messages whose names or types a page end *)
(* cuts, and nested messages of a cut buffer, are left out: there it does  *)
(* not hold.                                                               *)
GeneratedReadsBack ==
    pc = "done" /\ reader = "generated" /\ fields # <<>> /\ ~HeaderCut /\ (Whole \/ ~Nested) =>
        /\ Whole => ok
        /\ ok => SameFields

(* What to_pure_offset's comment counts on: the generated code keeps to    *)
(* the data of the pages, so that a whole message is always read back      *)
GeneratedAlwaysReadsBack ==
    pc = "done" /\ reader = "generated" /\ fields # <<>> /\ Whole => ok /\ SameFields
=============================================================================
