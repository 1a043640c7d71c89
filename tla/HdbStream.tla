------------------------------ MODULE HdbStream ------------------------------
(***************************************************************************)
(* The result streams of the driver hdb (hana/lib/drivers/hdb.js:          *)
(* rsIterator, readString, readBlob; stream.js: rsNext, rsNextRaw,         *)
(* rsNextObjectMode, rsIterator).                                          *)
(*                                                                         *)
(* Raw mode turns the bytes of a result set into the text of a JSON array  *)
(* within the buffers they arrive in: what is read at `reading` is written *)
(* at `writing`, and what is pushed is a view of that memory.  Object mode *)
(* returns rows, whose LOBs are streams that are read while later rows     *)
(* are.                                                                    *)
(*                                                                         *)
(* A byte is a value that tells where it comes from.  A buffer ends at the *)
(* end of a row: the calls that could wait in the middle of one (ensure,   *)
(* write) are not awaited by rsNext.  The transcoding from CESU-8 is left  *)
(* out, and so are columns of type BINARY, which come with their rows.     *)
(***************************************************************************)
EXTENDS ResultRows

CONSTANTS Results,    \* sequences of buffers, which are sequences of rows
          Modes,      \* "raw"; "one", raw without brackets; "object"
          HeadSize,   \* bytes of the columns _path_, _blobs_ and _expands_
          LobHeader,  \* bytes before the part of a LOB that comes with a row
          PrefetchSize, \* how much of a LOB that is
          LobRead,    \* length asked of readLob
          Absent, Null

\* A row is a record of ResultRows with blobs: for each LOB column that it is
\* Absent from the row, Null, or the length of the LOB.
IsRow(r) ==
    /\ r.path \in Seq(Nat)
    /\ IsFiniteSet(DOMAIN r.expands) /\ DOMAIN r.expands \subseteq Nat \ {0}
    /\ r.expands \in [DOMAIN r.expands -> {"many", "one"}]
    /\ r.json \in Nat \ {0}
    /\ r.blobs \in Seq(Nat \cup {Absent, Null})

ASSUME StreamAssumption ==
    /\ {HeadSize, LobHeader, PrefetchSize, LobRead} \subseteq Nat \ {0}
    /\ Modes \subseteq {"raw", "one", "object"}
    /\ Absent \notin Nat /\ Null \notin Nat /\ Absent # Null
    /\ \A r \in Results :
          /\ r \in Seq(Seq(UNION {Range(r[c]) : c \in DOMAIN r}))
          /\ \A c \in DOMAIN r : \A i \in DOMAIN r[c] : IsRow(r[c][i])

VARIABLES result, mode,
          ops,       \* what is left to do for the current row
          row,       \* rows begun
          levels,    \* state.levels
          mem,       \* the memory of all buffers, one after the other
          base, reading, writing, \* the current buffer, as addresses
          pushed,    \* what the stream was given: texts and views of mem
          pending,   \* the bytes a StringDecoder('base64') has not encoded
          prefetch,  \* state.prefetchDecodedSize
          inPlace,   \* was a LOB encoded in place?
          lobs,      \* lobs[<<i, b>>]: the stream of a LOB in object mode
          ended      \* FALSE, or how the stream was ended

rawVars == <<ops, levels, mem, base, reading, writing, pushed, pending>>
vars == <<result, mode, row, rawVars, prefetch, inPlace, lobs, ended>>

Rows == FlattenSeq(result)
Blobs(i) == Rows[i].blobs
Min2(a, b) == IF a <= b THEN a ELSE b

----------------------------------------------------------------------------
(* The bytes HANA sends                                                    *)

Bytes(part, n) == [k \in 1 .. n |-> <<part, k>>]
\* The content of a LOB, and the part of it that comes with the row.
Content(i, b) == Bytes(<<"lob", i, b>>, Blobs(i)[b])
Prefetched(i, b) == SubSeq(Content(i, b), 1, Min2(PrefetchSize, Blobs(i)[b]))

BlobBytes(i, b) == IF Blobs(i)[b] \in {Absent, Null} THEN Bytes("null", 2)
                   ELSE Bytes("header", LobHeader) \o Prefetched(i, b)

Json(i) == Bytes(<<"json", i>>, Rows[i].json)
RowBytes(i) ==
    Bytes("head", HeadSize) \o Json(i)
    \o FlattenSeq([b \in DOMAIN Blobs(i) |-> BlobBytes(i, b)])

\* Where the buffer of row i ends.
LastOfBuffer(i) ==
    CHOOSE n \in 1 .. Len(Rows) :
        /\ n >= i
        /\ \E c \in DOMAIN result : n = Len(FlattenSeq(SubSeq(result, 1, c)))
        /\ \A m \in i .. n - 1 :
             \A c \in DOMAIN result : m # Len(FlattenSeq(SubSeq(result, 1, c)))
EndOf(i) == Len(FlattenSeq([j \in 1 .. i |-> RowBytes(j)]))
\* buffer.byteLength, as an address
BufferEnd == IF row = 0 THEN 0 ELSE EndOf(LastOfBuffer(row))

\* What StringDecoder('base64') makes of bytes: four characters for three.
Groups(bytes) == [g \in 1 .. Len(bytes) \div 3 |-> SubSeq(bytes, 3 * g - 2, 3 * g)]
Encoded(bytes) ==
    FlattenSeq([g \in DOMAIN Groups(bytes) |-> [k \in 1 .. 4 |-> <<Groups(bytes)[g], k>>]])
Rest(bytes) == SubSeq(bytes, 3 * (Len(bytes) \div 3) + 1, Len(bytes))
EncodedEnd(bytes) == IF bytes = <<>> THEN <<>> ELSE [k \in 1 .. 4 |-> <<<<bytes>>, k>>]
Base64(bytes) == Encoded(bytes) \o EncodedEnd(Rest(bytes))

----------------------------------------------------------------------------
(* The steps of rsNextRaw and readBlob for a row                           *)

Op(name, n, arg) == [name |-> name, n |-> n, arg |-> arg]
InjectOp(text) == Op("inject", 0, text)

\* `let hasProperties = value > 2`, then for every column of the row.
Separator(i, b) ==
    IF Rows[i].json > 2 \/ \E c \in 1 .. b - 1 : Blobs(i)[c] # Absent
    THEN <<",">> ELSE <<>>

\* Mutant of BlobOps: a column that is not part of the row is not skipped.
BlobOpsUnskipped(i, b) ==
    IF Blobs(i)[b] = Absent THEN <<>>
    ELSE <<InjectOp(Separator(i, b)), InjectOp(<<"key">>)>> \o
         IF Blobs(i)[b] = Null THEN <<Op("read", 2, <<>>), InjectOp(<<"null">>)>>
         ELSE <<Op("read", LobHeader, <<>>), InjectOp(<<"quote">>),
                Op("encode", Len(Prefetched(i, b)), <<>>)>>
              \o (IF Blobs(i)[b] > PrefetchSize THEN <<Op("lob", 0, <<i, b>>)>> ELSE <<>>)
              \o <<Op("end", 0, <<>>), InjectOp(<<"quote">>)>>

\* hdb.js readBlob, and what nextBlob does before it
BlobOps(i, b) ==
    IF Blobs(i)[b] = Absent THEN <<Op("read", 2, <<>>)>>
    ELSE <<InjectOp(Separator(i, b)), InjectOp(<<"key">>)>> \o
         IF Blobs(i)[b] = Null THEN <<Op("read", 2, <<>>), InjectOp(<<"null">>)>>
         ELSE <<Op("read", LobHeader, <<>>), InjectOp(<<"quote">>),
                Op("encode", Len(Prefetched(i, b)), <<>>)>>
              \o (IF Blobs(i)[b] > PrefetchSize THEN <<Op("lob", 0, <<i, b>>)>> ELSE <<>>)
              \o <<Op("end", 0, <<>>), InjectOp(<<"quote">>)>>

\* readBlob returns a promise only where it has more to read.
Stops(i, b) ==
    Blobs(i)[b] = Null \/ (Blobs(i)[b] \in Nat /\ Blobs(i)[b] <= PrefetchSize)

\* stream.js nextBlob: without a promise to wait for, it does not go on to the
\* next column.
NextBlob(i, b) ==
    IF \E c \in 1 .. b - 1 : Stops(i, c) THEN <<>> ELSE BlobOps(i, b)

\* No column of the row is left out.
Whole(i) == \A b \in DOMAIN Blobs(i) : Stops(i, b) => b = Len(Blobs(i))

HasProperties(i) == Rows[i].json > 2 \/ \E b \in DOMAIN Blobs(i) : Blobs(i)[b] # Absent
LevelOf(i) == HandleLevel(levels, Rows[i].path, Rows[i].expands)

\* rsNext: readString of three columns, then `_json_` but for its last byte.
RowOps(i) ==
    <<Op("read", HeadSize, <<>>), InjectOp(LevelOf(i).text),
      Op("write", Rows[i].json - 1, <<>>), Op("read", 1, <<>>)>>
    \o FlattenSeq([b \in DOMAIN Blobs(i) |-> NextBlob(i, b)])

----------------------------------------------------------------------------
View(from, to) == [text |-> <<>>, from |-> from, to |-> to]
Text(text)     == [text |-> text, from |-> 1, to |-> 0]

Init ==
    /\ result \in Results
    /\ mode \in Modes
    /\ mode = "one" => Cardinality({i \in DOMAIN Rows : IsRoot(Rows[i].path)}) <= 1
    /\ ops = <<>>
    /\ row = 0
    /\ mem = FlattenSeq([i \in 1 .. Len(FlattenSeq(result)) |-> RowBytes(i)])
    /\ base = 0 /\ reading = 0 /\ writing = 0
    /\ levels = RootLevels(mode = "one")
    /\ pushed = IF mode = "raw" THEN <<Text(<<"[">>)>> ELSE <<>>
    /\ pending = <<>>
    /\ prefetch = 0
    /\ inPlace = FALSE
    /\ lobs = <<>>
    /\ ended = "no"

Put(at, text) ==
    mem' = [a \in DOMAIN mem |-> IF a \in at + 1 .. at + Len(text) THEN text[a - at] ELSE mem[a]]

\* Mutant of Inject: what was pushed is written over.
InjectOver(text) ==
    IF text = <<>> THEN UNCHANGED <<mem, base, writing, pushed>>
    ELSE IF writing + Len(text) > reading
    THEN /\ pushed' = pushed \o <<View(base, writing), Text(text)>>
         /\ writing' = base
         /\ UNCHANGED <<mem, base>>
    ELSE /\ Put(writing, text)
         /\ writing' = writing + Len(text)
         /\ UNCHANGED <<base, pushed>>

\* state.inject: into the buffer if what was read leaves room for it.
Inject(text) ==
    IF text = <<>> THEN UNCHANGED <<mem, base, writing, pushed>>
    ELSE IF writing + Len(text) > reading
    THEN /\ pushed' = pushed \o <<View(base, writing), Text(text)>>
         /\ base' = reading /\ writing' = reading
         /\ UNCHANGED mem
    ELSE /\ Put(writing, text)
         /\ writing' = writing + Len(text)
         /\ UNCHANGED <<base, pushed>>

\* Mutant of NextBuffer: the writing position is not reset.
NextBufferWithoutReset ==
    /\ pushed' = IF writing > base THEN Append(pushed, View(base, writing)) ELSE pushed
    /\ base' = reading
    /\ UNCHANGED writing

\* state.done when the buffer was read: push what was written, take the next
\* buffer.  It starts where this one ends.
NextBuffer ==
    /\ pushed' = IF writing > base THEN Append(pushed, View(base, writing)) ELSE pushed
    /\ base' = reading /\ writing' = reading

IsRaw == mode \in {"raw", "one"}

\* rsNextRaw; `level.hasProperties = hasProperties` is read by handleLevel only.
RawRow ==
    /\ IsRaw /\ ended = "no" /\ ops = <<>>
    /\ row < Len(Rows) /\ reading = EndOf(row)
    /\ ops' = RowOps(row + 1)
    /\ row' = row + 1
    /\ levels' = LET next == LevelOf(row + 1).levels
                 IN  [next EXCEPT ![Len(next)].hasProperties = HasProperties(row + 1)]
    /\ IF BufferEnd <= reading THEN NextBuffer ELSE UNCHANGED <<pushed, base, writing>>
    /\ UNCHANGED <<result, mode, mem, reading, pending, prefetch, inPlace, lobs, ended>>

\* rsNext takes what is left of a row for the head of the next one: it is not
\* the JSON that _blobs_ and _expands_ are to be, and read() rejects.
RawMisread ==
    /\ IsRaw /\ ended = "no" /\ ops = <<>>
    /\ reading # EndOf(row) /\ reading < BufferEnd
    /\ ended' = "thrown"
    /\ UNCHANGED <<result, mode, row, rawVars, prefetch, inPlace, lobs>>

\* state.done at the end of the result set; an error of the connection is
\* taken for it.
RawEnd(how) ==
    /\ IsRaw /\ ended = "no" /\ ops = <<>>
    /\ BufferEnd <= reading
    /\ how = "end" => row = Len(Rows)
    /\ LET end == HandleLevel(levels, <<>>, <<>>)
       IN  ops' = <<InjectOp(end.text), Op("close", 0, how)>> /\ levels' = end.levels
    /\ UNCHANGED <<result, mode, row, mem, base, reading, writing, pushed, pending,
                   prefetch, inPlace, lobs, ended>>

RawInject ==
    /\ ops # <<>> /\ Head(ops).name = "inject"
    /\ ops' = Tail(ops)
    /\ Inject(Head(ops).arg)
    /\ UNCHANGED <<result, mode, row, levels, reading, pending, prefetch, inPlace, lobs, ended>>

\* state.read
RawRead ==
    /\ ops # <<>> /\ Head(ops).name = "read"
    /\ ops' = Tail(ops)
    /\ reading' = reading + Head(ops).n
    /\ UNCHANGED <<result, mode, row, levels, mem, base, writing, pushed, pending,
                   prefetch, inPlace, lobs, ended>>

\* state.write without an encoding: copyWithin.
RawWrite ==
    /\ ops # <<>> /\ Head(ops).name = "write"
    /\ ops' = Tail(ops)
    /\ LET n == Head(ops).n
       IN  /\ Put(writing, SubSeq(mem, reading + 1, reading + n))
           /\ writing' = writing + n
           /\ reading' = reading + n
    /\ UNCHANGED <<result, mode, row, levels, base, pushed, pending, prefetch, inPlace, lobs, ended>>

\* state.write with an encoding.  Where the text fits into the buffer, it is
\* not written there: buffer.copy copies from the buffer.
RawEncode ==
    /\ ops # <<>> /\ Head(ops).name = "encode"
    /\ ops' = Tail(ops)
    /\ LET n == Head(ops).n
           bytes == pending \o SubSeq(mem, reading + 1, reading + n)
           text == Encoded(bytes)
           after == writing + Len(text)
       IN  /\ pending' = Rest(bytes)
           /\ prefetch' = n
           /\ reading' = reading + n
           /\ IF after > BufferEnd \/ after > reading'
              THEN /\ pushed' = pushed \o <<View(base, writing), Text(text)>>
                   /\ base' = reading' /\ writing' = reading'
                   /\ UNCHANGED inPlace
              ELSE /\ writing' = after
                   /\ inPlace' = TRUE
                   /\ UNCHANGED <<base, pushed>>
    /\ UNCHANGED <<result, mode, row, levels, mem, lobs, ended>>

\* Mutant of Reply: the position asked for counts from zero.
ReplyFromZero(i, b) == SubSeq(Content(i, b), prefetch, Min2(prefetch + LobRead, Blobs(i)[b]))

\* readLob's answer: from the offset on, no more than was asked for.
Reply(i, b) == SubSeq(Content(i, b), prefetch + 1, Min2(prefetch + LobRead, Blobs(i)[b]))
IsLast(i, b) == prefetch + LobRead >= Blobs(i)[b]

\* readBlob next(): the next readLob asks for the same offset.
RawLob ==
    /\ ops # <<>> /\ Head(ops).name = "lob"
    /\ LET i == Head(ops).arg[1]
           b == Head(ops).arg[2]
           bytes == pending \o Reply(i, b)
       IN  /\ ops' = IF IsLast(i, b) THEN Tail(ops) ELSE ops
           /\ Inject(Encoded(bytes))
           /\ pending' = Rest(bytes)
    /\ UNCHANGED <<result, mode, row, levels, reading, prefetch, inPlace, lobs, ended>>

\* readLob fails: so do the promises up to that of read().
RawLobFails ==
    /\ ops # <<>> /\ Head(ops).name = "lob"
    /\ ops' = <<>>
    /\ ended' = "thrown"
    /\ UNCHANGED <<result, mode, row, levels, mem, base, reading, writing, pushed, pending,
                   prefetch, inPlace, lobs>>

\* readBlob after(): `state.inject(encoding.end())`
RawEncodeEnd ==
    /\ ops # <<>> /\ Head(ops).name = "end"
    /\ ops' = Tail(ops)
    /\ Inject(EncodedEnd(pending))
    /\ pending' = <<>>
    /\ UNCHANGED <<result, mode, row, levels, reading, prefetch, inPlace, lobs, ended>>

RawClose ==
    /\ ops # <<>> /\ Head(ops).name = "close"
    /\ ops' = <<>>
    /\ pushed' = IF writing > base THEN Append(pushed, View(base, writing)) ELSE pushed
    /\ ended' = Head(ops).arg
    /\ UNCHANGED <<result, mode, row, levels, mem, base, reading, writing, pending,
                   prefetch, inPlace, lobs>>

----------------------------------------------------------------------------
(* Object mode: a row is pushed with streams of its LOBs                   *)

\* The columns of row i that are returned as streams, and those with a LOB.
Streams(i) == {b \in DOMAIN Blobs(i) : Blobs(i)[b] # Absent}
Lobs(i) == {b \in Streams(i) : Blobs(i)[b] # Null}

\* rsNextObjectMode: readBlob writes what came with the row to a stream that
\* holds it, and waits, until the client reads it.  For null, it returns null,
\* but `?.catch` makes undefined of it: a stream is returned that nothing is
\* written to and that never ends.
ObjectRow ==
    /\ mode = "object" /\ ended = "no"
    /\ row < Len(Rows) /\ IsRoot(Rows[row + 1].path)
    /\ row' = row + 1
    /\ LET new == {<<row', b>> : b \in Streams(row')}
       IN  /\ lobs' = [l \in DOMAIN lobs \cup new |->
                          IF l \notin new THEN lobs[l]
                          ELSE [state |-> IF l[2] \in Lobs(row') THEN "held" ELSE "never",
                                got |-> <<>>]]
           /\ prefetch' = IF Lobs(row') = {} THEN prefetch
                          ELSE Len(Prefetched(row', Max(Lobs(row'))))
    /\ UNCHANGED <<result, mode, rawVars, inPlace, ended>>

\* A row of an expand: handleLevel has deleted the stream it is to be pushed
\* to before it takes it for the result of the new level.
ObjectThrows ==
    /\ mode = "object" /\ ended = "no"
    /\ row < Len(Rows) /\ ~IsRoot(Rows[row + 1].path)
    /\ ended' = "thrown"
    /\ UNCHANGED <<result, mode, row, rawVars, prefetch, inPlace, lobs>>

ObjectEnd(how) ==
    /\ mode = "object" /\ ended = "no"
    /\ how = "end" => row = Len(Rows)
    /\ ended' = how
    /\ UNCHANGED <<result, mode, row, rawVars, prefetch, inPlace, lobs>>

\* The client reads the stream of a LOB: 'resume'.
Resume(l) ==
    /\ lobs[l].state = "held"
    /\ LET i == l[1]
           b == l[2]
       IN  lobs' = [lobs EXCEPT ![l].got = Prefetched(i, b),
                                ![l].state = IF Blobs(i)[b] > PrefetchSize THEN "more" ELSE "end"]
    /\ UNCHANGED <<result, mode, row, rawVars, prefetch, inPlace, ended>>

\* readBlob next(): the offset is that of the LOB read last.
ObjectLob(l) ==
    /\ lobs[l].state = "more"
    /\ LET i == l[1]
           b == l[2]
       IN  lobs' = [lobs EXCEPT ![l].got = @ \o Reply(i, b),
                                ![l].state = IF IsLast(i, b) THEN "end" ELSE "more"]
    /\ UNCHANGED <<result, mode, row, rawVars, prefetch, inPlace, ended>>

\* readLob fails: the stream emits the error.
ObjectLobFails(l) ==
    /\ lobs[l].state = "more"
    /\ lobs' = [lobs EXCEPT ![l].state = "failed"]
    /\ UNCHANGED <<result, mode, row, rawVars, prefetch, inPlace, ended>>

Next ==
    \/ RawRow \/ RawMisread \/ RawInject \/ RawRead \/ RawWrite \/ RawEncode
    \/ RawLob \/ RawLobFails \/ RawEncodeEnd \/ RawClose
    \/ ObjectRow \/ ObjectThrows
    \/ \E how \in {"end", "error"} : RawEnd(how) \/ ObjectEnd(how)
    \/ \E l \in DOMAIN lobs : Resume(l) \/ ObjectLob(l) \/ ObjectLobFails(l)

Spec == Init /\ [][Next]_vars

----------------------------------------------------------------------------
\* What the client gets of a stream that has pushed these texts and views.
Output ==
    FlattenSeq([p \in DOMAIN pushed |->
        IF pushed[p].text # <<>> THEN pushed[p].text
        ELSE SubSeq(mem, pushed[p].from + 1, pushed[p].to)])

BlobText(i, b) ==
    IF Blobs(i)[b] = Absent THEN <<>>
    ELSE Separator(i, b) \o <<"key">>
         \o IF Blobs(i)[b] = Null THEN <<"null">>
            ELSE <<"quote">> \o Base64(Content(i, b)) \o <<"quote">>
\* The JSON object of a row, and of the rows of its expands, among the first n
\* rows: a member for every expand, those that have rows first.
Of(n, i, p) == {j \in 1 .. n : IsStrictPrefix(Rows[i].path, Rows[j].path)
                               /\ Len(Rows[j].path) = Len(Rows[i].path) + 2
                               /\ Rows[j].path[Len(Rows[i].path) + 1] = p}
\* text[i] is the text of row i.
List(text, rows) ==
    LET sorted == Ascending(rows)
    IN  FlattenSeq([k \in DOMAIN sorted |-> Comma(k > 1) \o text[sorted[k]]])
Member(text, rows, many, p) ==
    <<p>> \o IF rows = {} THEN <<IF many THEN "[]" ELSE "null">>
             ELSE IF many THEN <<"[">> \o List(text, rows) \o <<"]">>
             ELSE List(text, rows)
Expected(n) ==
    LET text[i \in 1 .. n] ==
            LET names == DOMAIN Rows[i].expands
                filled == {p \in names : Of(n, i, p) # {}}
                order == Ascending(filled) \o Ascending(names \ filled)
            IN  SubSeq(Json(i), 1, Rows[i].json - 1)
                \o FlattenSeq([b \in DOMAIN Blobs(i) |-> BlobText(i, b)])
                \o FlattenSeq([m \in DOMAIN order |->
                      Comma(m > 1 \/ HasProperties(i))
                      \o Member(text, Of(n, i, order[m]), Rows[i].expands[order[m]] = "many", order[m])])
                \o <<"}">>
        all == List(text, {i \in 1 .. n : IsRoot(Rows[i].path)})
    IN  IF mode = "one" THEN all ELSE <<"[">> \o all \o <<"]">>

\* The positions stay within the current buffer, and what is written never
\* runs over what is still to be read (state.inject, state.write).
TypeOK ==
    /\ base <= writing /\ writing <= reading /\ reading <= Len(mem)
    /\ ops = <<>> => reading <= BufferEnd
    /\ row \in 0 .. Len(Rows)
    /\ ended \in {"no", "end", "error", "thrown"}

\* A raw stream that has ended gave the rows it took as one JSON array, each
\* of them once and complete, also after an error of the connection, and all
\* of them without one: though the views it pushed are of memory it goes on
\* writing, and though columns may be left out of a row (nextBlob).  (Not if a
\* LOB was encoded in place, see RawEncode.)
RawOutput ==
    IsRaw /\ ended \in {"end", "error"} /\ ~inPlace =>
        /\ Output = Expected(row)
        /\ ended = "end" => row = Len(Rows)

\* No LOB in front of another column is null, or came whole with its row.
ReadThrough(i) ==
    \A b \in 1 .. Len(Blobs(i)) - 1 :
        Blobs(i)[b] = Absent \/ (Blobs(i)[b] \in Nat /\ Blobs(i)[b] > PrefetchSize)
\* Between two rows the reader is where a row ends, exactly as long as there was
\* no such row: columns that are not part of a row are skipped, LOBs that are
\* continued by readLob do not move it, and what nextBlob leaves of a row is
\* never made up for by what is read later.  (stream.js rsNextRaw)
RowsRead ==
    IsRaw /\ ended = "no" /\ ops = <<>> =>
        (reading = EndOf(row) <=> \A i \in 1 .. row : ReadThrough(i))

\* parseRows makes of the rows, which HANA returns in the order of their paths,
\* the records they come from: each where its path says, in that order.
ParsedRows ==
    LET records == {Rows[i] : i \in DOMAIN Rows}
        parsed == ParseRows(Ordered(records))
        objects == Objects(records)
    IN  parsed.ret = objects.ret /\ parsed.at = objects.at

\* What was pushed stays as it is (views of memory in hdb.js).
PushedStays ==
    [][IsPrefix(Output, Output')]_vars

\* The part of a LOB that is still to be read is asked for at the right place:
\* no part of it is, or the LOB read last came with as much of it as any does.
AtItsOffset(l) ==
    \/ Blobs(l[1])[l[2]] <= PrefetchSize
    \/ \A i \in l[1] .. row : Lobs(i) # {} => Blobs(i)[Max(Lobs(i))] >= PrefetchSize

\* A stream of a LOB that ends has given the LOB, and none of those that one
\* readLob is enough for gives anything else, in whatever order the client
\* reads them, and if a readLob fails: as long as the rows read since have not
\* moved the offset that all of them share (hdb.js readBlob).  (The stream of
\* a LOB that is null gives nothing and does not end, see ObjectRow.)
LobsArrive ==
    \A l \in DOMAIN lobs :
        LET content == Content(l[1], l[2])
        IN  l[2] \in Lobs(l[1]) /\ AtItsOffset(l) =>
                /\ lobs[l].state = "end" => lobs[l].got = content
                /\ Len(content) <= PrefetchSize + LobRead => IsPrefix(lobs[l].got, content)
=============================================================================
