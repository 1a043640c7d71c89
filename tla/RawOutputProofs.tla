-------------------------- MODULE RawOutputProofs ---------------------------
(***************************************************************************)
(* A raw stream that ended has given the JSON of the rows it took: what    *)
(* the steps that are left lead to, from what was written so far, is that. *)
(***************************************************************************)
EXTENDS ResultRowsProofs

----------------------------------------------------------------------------
(* What the client gets                                                    *)
\* What more is pushed is what the client gets more.
OutputOf(new, m) == FlattenSeq([p \in DOMAIN new |-> Given(new[p], m)])

LEMMA GivenIs == ASSUME NEW v, NEW e, ViewOK(v, e), NEW m PROVE IsSeq(Given(v, m))
<1>1. v.from + 1 \in Int /\ v.to \in Int /\ IsSeq(v.text)
  BY DEF ViewOK
<1> QED BY <1>1, SubSeqIs DEF Given

LEMMA OutputStep ==
    ASSUME Views, Memory, writing \in Nat, writing <= Len(mem), Kept,
           NEW new, IsSeq(new), \A p \in DOMAIN new : ViewOK(new[p], writing'),
           pushed' = pushed \o new
    PROVE  /\ Output' = Output \o OutputOf(new, mem')
           /\ IsSeq(Output) /\ IsSeq(OutputOf(new, mem'))
<1>2. /\ IsSeq(pushed \o new) /\ DOMAIN (pushed \o new) = 1 .. Len(pushed) + Len(new)
      /\ Len(pushed) \in Nat /\ Len(new) \in Nat
      /\ DOMAIN pushed = 1 .. Len(pushed) /\ DOMAIN new = 1 .. Len(new)
      /\ \A i \in 1 .. Len(pushed) : (pushed \o new)[i] = pushed[i]
      /\ \A i \in 1 .. Len(new) : (pushed \o new)[Len(pushed) + i] = new[i]
  BY IsSeqConcat, IsSeqLen DEF Views
<1> DEFINE f == [p \in DOMAIN pushed |-> Given(pushed[p], mem)]
           g == [p \in DOMAIN new |-> Given(new[p], mem')]
           h == [p \in DOMAIN pushed' |-> Given(pushed'[p], mem')]
<1>3. Output = FlattenSeq(f) /\ Output' = FlattenSeq(h) /\ OutputOf(new, mem') = FlattenSeq(g)
  BY DEF Output, OutputOf, Given
<1>5. ASSUME NEW p \in DOMAIN pushed PROVE Given(pushed[p], mem') = Given(pushed[p], mem)
  <2> DEFINE from == pushed[p].from
             to == pushed[p].to
  <2>1. from \in Nat /\ to \in Nat /\ to <= writing
    BY DEF Views, ViewOK
  <2>2. Len(mem) \in Nat
    BY IsSeqLen DEF Memory
  <2>3. /\ IsSeq(SubSeq(mem, from + 1, to)) /\ IsSeq(SubSeq(mem', from + 1, to))
        /\ Len(SubSeq(mem, from + 1, to)) = Len(SubSeq(mem', from + 1, to))
        /\ Len(SubSeq(mem, from + 1, to)) = IF from + 1 <= to THEN to - (from + 1) + 1 ELSE 0
        /\ \A i \in 1 .. to - (from + 1) + 1 :
             SubSeq(mem, from + 1, to)[i] = mem[from + 1 + i - 1]
             /\ SubSeq(mem', from + 1, to)[i] = mem'[from + 1 + i - 1]
    <3>1. from + 1 \in Int /\ to \in Int
      BY <2>1
    <3> HIDE DEF from, to
    <3> QED BY <3>1, SubSeqIs
  <2> HIDE DEF from, to
  <2>4. ASSUME NEW i \in 1 .. Len(SubSeq(mem, from + 1, to))
        PROVE  SubSeq(mem, from + 1, to)[i] = SubSeq(mem', from + 1, to)[i]
    <3>1. i \in 1 .. to - (from + 1) + 1 /\ from + 1 + i - 1 \in 1 .. writing
          /\ from + 1 + i - 1 <= Len(mem)
      BY <2>1, <2>2, <2>3
    <3>2. mem'[from + 1 + i - 1] = mem[from + 1 + i - 1]
      BY <3>1 DEF Kept
    <3> QED BY <2>3, <3>1, <3>2
  <2>5. SubSeq(mem, from + 1, to) = SubSeq(mem', from + 1, to)
    BY <2>3, <2>4, SameSeq
  <2> QED BY <2>5 DEF Given, from, to
<1>6. h = f \o g
  <2> HIDE DEF f, g, h
  <2>1. IsSeq(h) /\ IsSeq(f) /\ IsSeq(g) /\ Len(h) = Len(pushed) + Len(new) /\ Len(f) = Len(pushed) /\ Len(g) = Len(new)
    <3>1. h = [p \in 1 .. Len(pushed) + Len(new) |-> h[p]] /\ f = [p \in 1 .. Len(pushed) |-> f[p]]
          /\ g = [p \in 1 .. Len(new) |-> g[p]]
      BY <1>2 DEF f, g, h
    <3>2. Len(pushed) + Len(new) \in Nat
      BY <1>2
    <3> QED BY <1>2, <3>1, <3>2, FunctionIsSeq
  <2>2. /\ IsSeq(f \o g) /\ Len(f \o g) = Len(pushed) + Len(new)
        /\ \A i \in 1 .. Len(pushed) : (f \o g)[i] = f[i]
        /\ \A i \in 1 .. Len(new) : (f \o g)[Len(pushed) + i] = g[i]
    BY SMTT(60), <2>1, IsSeqConcat
  <2>3. ASSUME NEW k \in 1 .. Len(pushed) + Len(new) PROVE h[k] = (f \o g)[k]
    <3>1. h[k] = Given((pushed \o new)[k], mem')
      BY <1>2 DEF h
    <3>2. CASE k \in 1 .. Len(pushed)
      <4>1. h[k] = Given(pushed[k], mem') /\ f[k] = Given(pushed[k], mem) /\ (f \o g)[k] = f[k]
        BY <1>2, <2>2, <3>1, <3>2 DEF f
      <4>2. Given(pushed[k], mem') = Given(pushed[k], mem)
        BY <1>2, <1>5, <3>2
      <4> QED BY <4>1, <4>2
    <3>3. CASE k \notin 1 .. Len(pushed)
      <4>1. k - Len(pushed) \in 1 .. Len(new) /\ Len(pushed) + (k - Len(pushed)) = k
        BY <1>2, <3>3
      <4>2. h[k] = Given(new[k - Len(pushed)], mem')
        BY <1>2, <3>1, <4>1
      <4>3. g[k - Len(pushed)] = Given(new[k - Len(pushed)], mem')
        BY <1>2, <4>1 DEF g
      <4>4. (f \o g)[k] = g[k - Len(pushed)]
        BY <2>2, <4>1
      <4> QED BY <4>2, <4>3, <4>4
    <3> QED BY <3>2, <3>3
  <2> QED BY <2>1, <2>2, <2>3, SameSeq
<1>7. /\ IsSeq(f) /\ \A p \in DOMAIN f : IsSeq(f[p])
      /\ IsSeq(g) /\ \A p \in DOMAIN g : IsSeq(g[p])
  <2>1. f = [p \in 1 .. Len(pushed) |-> f[p]] /\ g = [p \in 1 .. Len(new) |-> g[p]]
        /\ DOMAIN f = DOMAIN pushed /\ DOMAIN g = DOMAIN new
    BY <1>2
  <2>2. \A p \in DOMAIN pushed : IsSeq(f[p])
    BY GivenIs DEF Views
  <2>3. \A p \in DOMAIN new : IsSeq(g[p])
    BY GivenIs
  <2> HIDE DEF f, g
  <2>4. IsSeq(f) /\ IsSeq(g)
    BY <1>2, <2>1, FunctionIsSeq
  <2> QED BY <2>1, <2>2, <2>3, <2>4
<1> HIDE DEF f, g, h
<1>8. FlattenSeq(h) = FlattenSeq(f) \o FlattenSeq(g)
  BY Zenon, <1>6, <1>7, FlattenBoth
<1>9. IsSeq(FlattenSeq(f)) /\ IsSeq(FlattenSeq(g))
  BY <1>7, FlattenIsSeq
<1> QED BY Zenon, <1>3, <1>8, <1>9

LEMMA GivenOf ==
    ASSUME NEW m
    PROVE  /\ \A text : IsSeq(text) => Given(Text(text), m) = text
           /\ \A from, to : Given(View(from, to), m) = SubSeq(m, from + 1, to)
<1>1. ASSUME NEW text, IsSeq(text) PROVE Given(Text(text), m) = text
  <2>1. CASE text # <<>>
    BY <2>1 DEF Given, Text
  <2>2. CASE text = <<>>
    <3>1. Given(Text(text), m) = SubSeq(m, 2, 0)
      BY <2>2 DEF Given, Text
    <3> DEFINE a == 2
               b == 0
    <3>0. a \in Int /\ b \in Int /\ ~(a <= b)
      OBVIOUS
    <3> HIDE DEF a, b
    <3>4. IsSeq(SubSeq(m, a, b)) /\ Len(SubSeq(m, a, b)) = 0
      BY <3>0, SubSeqIs
    <3>2. IsSeq(SubSeq(m, 2, 0)) /\ Len(SubSeq(m, 2, 0)) = 0
      BY <3>4 DEF a, b
    <3>3. SubSeq(m, 2, 0) = <<>>
      BY <3>2, EmptySeq DEF IsSeq
    <3> QED BY <2>2, <3>1, <3>3
  <2> QED BY <2>1, <2>2
<1>2. ASSUME NEW from, NEW to PROVE Given(View(from, to), m) = SubSeq(m, from + 1, to)
  BY DEF Given, View
<1> QED BY <1>1, <1>2

LEMMA OutputOfOne ==
    ASSUME NEW v, NEW e, ViewOK(v, e), NEW m
    PROVE  OutputOf(<<v>>, m) = Given(v, m)
<1> DEFINE x == Given(v, m)
<1>1. [p \in DOMAIN <<v>> |-> Given(<<v>>[p], m)] = <<x>>
  OBVIOUS
<1>2. IsSeq(x)
  BY GivenIs
<1> HIDE DEF x
<1>3. FlattenSeq(<<x>>) = x
  BY <1>2, FlattenOne
<1> QED BY <1>1, <1>3 DEF OutputOf, x

LEMMA OutputOfTwo ==
    ASSUME NEW v, NEW w, NEW e, ViewOK(v, e), ViewOK(w, e), NEW m
    PROVE  OutputOf(<<v, w>>, m) = Given(v, m) \o Given(w, m)
<1> DEFINE x == Given(v, m)
           y == Given(w, m)
<1>1. [p \in DOMAIN <<v, w>> |-> Given(<<v, w>>[p], m)] = <<x, y>>
  OBVIOUS
<1>2. IsSeq(x) /\ IsSeq(y)
  BY GivenIs
<1> HIDE DEF x, y
<1>3. <<x, y>> = <<x>> \o <<y>>
  BY TwoAreOneAndOne
<1> DEFINE a == <<x>>
           b == <<y>>
<1>4. /\ IsSeq(a) /\ IsSeq(b) /\ \A p \in DOMAIN a : IsSeq(a[p])
      /\ \A p \in DOMAIN b : IsSeq(b[p])
      /\ FlattenSeq(a) = x /\ FlattenSeq(b) = y
  BY <1>2, OneIsSeq, FlattenOne
<1> HIDE DEF a, b
<1>5. FlattenSeq(a \o b) = FlattenSeq(a) \o FlattenSeq(b)
  BY <1>4, FlattenBoth
<1>6. OutputOf(<<v, w>>, m) = FlattenSeq(a \o b)
  BY Zenon, <1>1, <1>3 DEF OutputOf, a, b
<1> QED BY Zenon, <1>4, <1>5, <1>6 DEF x, y

----------------------------------------------------------------------------
(* What was written: what was pushed, and what of the buffer will be       *)
\* Writing to memory changes what is written only.
LEMMA PutWrites ==
    ASSUME NEW at \in Nat, NEW text, IsSeq(text), IsSeq(mem), Put(at, text), at + Len(text) <= Len(mem)
    PROVE  /\ IsSeq(mem') /\ Len(mem') = Len(mem)
           /\ \A a \in 1 .. at : mem'[a] = mem[a]
           /\ \A k \in 1 .. Len(text) : mem'[at + k] = text[k]
           /\ \A a \in at + Len(text) + 1 .. Len(mem) : mem'[a] = mem[a]
<1>1. Len(mem) \in Nat /\ DOMAIN mem = 1 .. Len(mem) /\ Len(text) \in Nat
  BY IsSeqLen
<1>2. IsSeq(mem') /\ Len(mem') = Len(mem) /\ \A a \in 1 .. at : a <= Len(mem) => mem'[a] = mem[a]
  BY PutIs
<1> DEFINE n == Len(text)
           l == Len(mem)
<1>3. n \in Nat /\ l \in Nat /\ at + n <= l
  BY <1>1
<1>4. mem' = [a \in 1 .. l |-> IF a \in at + 1 .. at + n THEN text[a - at] ELSE mem[a]]
  BY <1>1 DEF Put
<1> HIDE DEF n, l
<1>5. \A a \in 1 .. at : a <= l
  BY <1>3
<1>6. ASSUME NEW k \in 1 .. n PROVE mem'[at + k] = text[k]
  <2>1. at + k \in 1 .. l /\ at + k \in at + 1 .. at + n /\ (at + k) - at = k
    BY <1>3
  <2> QED BY <1>4, <2>1
<1>7. ASSUME NEW a \in at + n + 1 .. l PROVE mem'[a] = mem[a]
  <2>1. a \in 1 .. l /\ a \notin at + 1 .. at + n
    BY <1>3
  <2> QED BY <1>4, <2>1
<1> QED BY <1>2, <1>5, <1>6, <1>7 DEF n, l

Written == Output \o SubSeq(mem, base + 1, writing)
\* The positions are in memory.
InMemory == /\ Views /\ Memory /\ base \in Nat /\ writing \in Nat /\ base <= writing /\ writing <= Len(mem)
           /\ Len(mem) \in Nat

LEMMA PlacedIs == ASSUME StreamInv PROVE InMemory
<1>1. writing <= Len(mem)
  BY WithinMemory
<1>2. Len(mem) \in Nat
  BY IsSeqLen DEF StreamInv, Memory
<1> QED BY <1>1, <1>2 DEF InMemory, StreamInv, Positions

LEMMA WrittenIs ==
    ASSUME InMemory
    PROVE  IsSeq(Output) /\ IsSeq(SubSeq(mem, base + 1, writing)) /\ IsSeq(Written)
<1>1. IsSeq(Output)
  <2> DEFINE f == [p \in DOMAIN pushed |-> Given(pushed[p], mem)]
  <2>1. Output = FlattenSeq(f)
    BY DEF Output, Given
  <2>2. Len(pushed) \in Nat /\ DOMAIN pushed = 1 .. Len(pushed)
    BY IsSeqLen DEF InMemory, Views
  <2>3. \A p \in DOMAIN pushed : IsSeq(f[p])
    BY GivenIs DEF InMemory, Views
  <2>4. f = [p \in 1 .. Len(pushed) |-> f[p]] /\ DOMAIN f = DOMAIN pushed
    BY <2>2
  <2> HIDE DEF f
  <2>5. IsSeq(f)
    BY <2>2, <2>4, FunctionIsSeq
  <2> QED BY <2>1, <2>3, <2>4, <2>5, FlattenIsSeq
<1>2. IsSeq(SubSeq(mem, base + 1, writing))
  BY PieceIs DEF InMemory
<1> QED BY <1>1, <1>2, IsSeqConcat DEF Written

\* What was written is pushed with a text after it.
LEMMA WrittenTwo ==
    ASSUME InMemory, NEW text, IsSeq(text), pushed' = pushed \o <<View(base, writing), Text(text)>>,
           UNCHANGED mem, base' \in Nat, writing' = base', writing <= writing'
    PROVE  Written' = Written \o text
<1> DEFINE v == View(base, writing)
           w == Text(text)
           new == <<v, w>>
           piece == SubSeq(mem, base + 1, writing)
<1>1. ViewOK(v, writing') /\ ViewOK(w, writing')
  BY ViewIs, TextIs DEF InMemory
<1>2. IsSeq(new) /\ \A p \in DOMAIN new : ViewOK(new[p], writing')
  <2> HIDE DEF v, w
  <2>1. DOMAIN new = {1, 2} /\ new[1] = v /\ new[2] = w /\ new \in Seq({v, w})
    OBVIOUS
  <2>2. IsSeq(new)
    BY <2>1, SeqIs
  <2> HIDE DEF new
  <2> QED BY <1>1, <2>1, <2>2
<1>3. OutputOf(new, mem') = Given(v, mem') \o Given(w, mem')
  <2> HIDE DEF v, w
  <2> QED BY <1>1, OutputOfTwo
<1>4. Given(v, mem') = piece /\ Given(w, mem') = text
  BY GivenOf
<1>5. Output' = Output \o OutputOf(new, mem')
  <2>1. Kept
    BY KeptSame DEF InMemory
  <2>2. pushed' = pushed \o new
    OBVIOUS
  <2> HIDE DEF new
  <2> QED BY <1>2, <2>1, <2>2, OutputStep DEF InMemory
<1>6. SubSeq(mem', base' + 1, writing') = <<>>
  BY PieceNone
<1>7. IsSeq(Output) /\ IsSeq(piece)
  BY WrittenIs
<1> HIDE DEF v, w, new, piece
<1>8. Output' = Output \o (piece \o text)
  BY <1>3, <1>4, <1>5
<1>9. Output \o (piece \o text) = (Output \o piece) \o text
  BY SMTT(60), <1>7, ConcatAssoc
<1>10. IsSeq(Output \o piece)
  BY Zenon, <1>7, IsSeqConcat
<1> DEFINE o == Output \o piece
<1>11. IsSeq(o)
  BY <1>10
<1> HIDE DEF o
<1>12. IsSeq(o \o text) /\ o = Written
  BY <1>11, IsSeqConcat DEF o, Written, piece
<1> DEFINE x == o \o text
<1>13. x \o <<>> = x
  <2>1. IsSeq(x)
    BY <1>12
  <2> HIDE DEF x
  <2> QED BY <2>1, ConcatNone
<1>14. Written' = Output' \o SubSeq(mem', base' + 1, writing')
  BY DEF Written
<1>15. Output' = x
  BY Zenon, <1>8, <1>9 DEF x, o
<1> QED BY Zenon, <1>6, <1>12, <1>13, <1>14, <1>15 DEF x

\* What was written is pushed.
LEMMA WrittenOne ==
    ASSUME InMemory, pushed' = IF writing > base THEN Append(pushed, View(base, writing)) ELSE pushed,
           UNCHANGED mem, writing' \in Nat, writing <= writing'
    PROVE  Output' = Written
<1> DEFINE v == View(base, writing)
           piece == SubSeq(mem, base + 1, writing)
<1>0. Kept
  BY KeptSame DEF InMemory
<1>1. CASE writing > base
  <2>1. ViewOK(v, writing')
    BY ViewIs DEF InMemory
  <2>2. pushed' = Append(pushed, v)
    BY <1>1
  <2>3. Given(v, mem') = piece
    BY GivenOf
  <2> HIDE DEF v, piece
  <2>4. IsSeq(<<v>>) /\ Len(<<v>>) = 1 /\ <<v>>[1] = v
    BY OneIsSeq
  <2> DEFINE new == <<v>>
  <2>5. IsSeq(new) /\ \A p \in DOMAIN new : ViewOK(new[p], writing')
    BY <2>1, <2>4
  <2>6. pushed' = pushed \o new
    <3>1. pushed \in Seq(Range(pushed) \cup {v})
      BY SeqMonotonic DEF InMemory, Views, IsSeq
    <3> QED BY <2>2, <3>1, AppendIsConcat
  <2>7. OutputOf(new, mem') = Given(v, mem')
    BY <2>1, OutputOfOne
  <2> HIDE DEF new
  <2>8. Output' = Output \o OutputOf(new, mem')
    BY <1>0, <2>5, <2>6, OutputStep DEF InMemory
  <2> QED BY Zenon, <2>3, <2>7, <2>8 DEF Written, piece
<1>2. CASE ~(writing > base)
  <2>1. writing = base /\ pushed' = pushed
    BY <1>2 DEF InMemory
  <2>2. Output' = Output
    BY <2>1 DEF Output
  <2>3. SubSeq(mem, base + 1, base) = <<>>
    BY PieceNone DEF InMemory
  <2>4. Output \o <<>> = Output
    BY WrittenIs, ConcatNone
  <2> QED BY Zenon, <2>1, <2>2, <2>3, <2>4 DEF Written
<1> QED BY <1>1, <1>2

\* Text is written to the buffer.
LEMMA WrittenPut ==
    ASSUME InMemory, NEW text, IsSeq(text), Put(writing, text), writing' = writing + Len(text),
           writing' <= Len(mem), UNCHANGED <<base, pushed>>
    PROVE  Written' = Written \o text
<1>0. Len(text) \in Nat /\ base \in Nat /\ writing \in Nat /\ base <= writing /\ writing <= Len(mem) /\ IsSeq(mem)
  BY IsSeqLen DEF InMemory, Memory
<1>1. /\ IsSeq(mem') /\ Len(mem') = Len(mem)
      /\ \A a \in 1 .. writing : mem'[a] = mem[a]
      /\ \A k \in 1 .. Len(text) : mem'[writing + k] = text[k]
  <2>1. writing + Len(text) <= Len(mem)
    OBVIOUS
  <2> QED BY <1>0, <2>1, PutWrites
<1>2. Output' = Output
  <2>1. Kept
    BY <1>0, <1>1 DEF Kept
  <2> DEFINE new == <<>>
  <2>2. IsSeq(new) /\ DOMAIN new = {} /\ pushed \o new = pushed
    <3>1. DOMAIN new = {}
      OBVIOUS
    <3>2. IsSeq(pushed) /\ IsSeq(<<>>)
      BY OneText DEF InMemory, Views
    <3>3. pushed \o <<>> = pushed
      BY <3>2, ConcatNone
    <3> QED BY <3>1, <3>2, <3>3
  <2>3. OutputOf(new, mem') = <<>>
    <3>1. [p \in DOMAIN new |-> Given(new[p], mem')] = <<>>
      OBVIOUS
    <3> QED BY <3>1, FlattenEmpty DEF OutputOf
  <2> HIDE DEF new
  <2>4. pushed' = pushed \o new
    BY SMTT(60), <2>2
  <2>5. Output' = Output \o OutputOf(new, mem')
    BY <2>1, <2>2, <2>4, OutputStep DEF InMemory
  <2>6. Output \o <<>> = Output
    BY WrittenIs, ConcatNone
  <2> QED BY Zenon, <2>3, <2>5, <2>6
<1> DEFINE piece == SubSeq(mem, base + 1, writing)
<1>3. SubSeq(mem', base + 1, writing + Len(text)) = SubSeq(mem', base + 1, writing) \o SubSeq(mem', writing + 1, writing + Len(text))
  <2> DEFINE c == writing + Len(text)
  <2>1. c \in Nat /\ writing <= c
    BY <1>0
  <2> HIDE DEF c
  <2>2. SubSeq(mem', base + 1, c) = SubSeq(mem', base + 1, writing) \o SubSeq(mem', writing + 1, c)
    BY <1>0, <2>1, PieceSplit
  <2> QED BY <2>2 DEF c
<1>4. SubSeq(mem', base + 1, writing) = piece
  <2>1. \A k \in base + 1 .. writing : mem'[k] = mem[k]
    BY <1>0, <1>1
  <2> QED BY <1>0, <2>1, PieceSame
<1>5. SubSeq(mem', writing + 1, writing + Len(text)) = text
  BY <1>0, <1>1, PieceOf
<1>6. Written' = Output \o (piece \o text)
  <2>1. Written' = Output' \o SubSeq(mem', base' + 1, writing')
    BY DEF Written
  <2> HIDE DEF piece
  <2> QED BY Zenon, <1>2, <1>3, <1>4, <1>5, <2>1
<1>7. IsSeq(Output) /\ IsSeq(piece)
  BY WrittenIs
<1> HIDE DEF piece
<1>8. Output \o (piece \o text) = (Output \o piece) \o text
  BY SMTT(60), <1>7, ConcatAssoc
<1> QED BY Zenon, <1>6, <1>8 DEF Written, piece

----------------------------------------------------------------------------
(* What HANA sent                                                          *)
Sent(n) == FlattenSeq([j \in 1 .. n |-> RowBytes(j)])
Original == Sent(Len(Rows))
Holds(m, p, s) == \A k \in 1 .. Len(s) : m[p + k] = s[k]

LEMMA SentStep ==
    ASSUME result \in Results, NEW n \in Nat, n < Len(Rows)
    PROVE  /\ Sent(n + 1) = Sent(n) \o RowBytes(n + 1)
           /\ IsSeq(Sent(n)) /\ IsSeq(Sent(n + 1)) /\ IsSeq(RowBytes(n + 1))
           /\ Len(Sent(n)) = EndOf(n) /\ Len(Sent(n + 1)) = EndOf(n + 1)
           /\ EndOf(n) \in Nat /\ EndOf(n + 1) \in Nat /\ Len(RowBytes(n + 1)) \in Nat
<1> DEFINE f == [i \in 1 .. n + 1 |-> RowBytes(i)]
           g == [i \in 1 .. n |-> RowBytes(i)]
<1>1. Len(Rows) \in Nat /\ \A i \in 1 .. n + 1 : i \in 1 .. Len(Rows)
  BY RowsAre
<1>2. \A i \in 1 .. n + 1 : IsSeq(RowBytes(i))
  <2> SUFFICES ASSUME NEW i \in 1 .. n + 1 PROVE IsSeq(RowBytes(i))
    OBVIOUS
  <2>1. RowBytes(i) \in Seq(Byte)
    BY <1>1, RowBytesAre
  <2> QED BY <2>1, SeqIs
<1>3. /\ f = [i \in 1 .. n + 1 |-> f[i]] /\ g = [i \in 1 .. n |-> g[i]]
      /\ \A i \in 1 .. n : g[i] = f[i]
      /\ \A i \in 1 .. n + 1 : IsSeq(f[i])
      /\ f[n + 1] = RowBytes(n + 1)
  BY <1>2
<1>4. Sent(n) = FlattenSeq(g) /\ Sent(n + 1) = FlattenSeq(f)
  BY DEF Sent
<1>5. EndOf(n) = Len(Sent(n)) /\ EndOf(n + 1) = Len(Sent(n + 1))
  BY DEF EndOf, Sent
<1> HIDE DEF f, g
<1>6. FlattenSeq(f) = FlattenSeq(g) \o f[n + 1]
  BY <1>3, FlattenLast
<1>7. IsSeq(f) /\ IsSeq(g) /\ Len(f) = n + 1 /\ Len(g) = n
  BY <1>3, FunctionIsSeq
<1>8. IsSeq(FlattenSeq(f)) /\ IsSeq(FlattenSeq(g))
  <2>1. DOMAIN f = 1 .. n + 1 /\ DOMAIN g = 1 .. n
    BY <1>3
  <2>2. \A i \in DOMAIN f : IsSeq(f[i])
    BY <1>3, <2>1
  <2>3. \A i \in DOMAIN g : IsSeq(g[i])
    <3> SUFFICES ASSUME NEW i \in 1 .. n PROVE IsSeq(g[i])
      BY <2>1
    <3>1. i \in 1 .. n + 1
      OBVIOUS
    <3> QED BY <1>3, <3>1
  <2> QED BY <1>7, <2>2, <2>3, FlattenIsSeq
<1>9. IsSeq(RowBytes(n + 1)) /\ n + 1 \in 1 .. n + 1
  <2>1. n + 1 \in 1 .. n + 1
    OBVIOUS
  <2> QED BY <1>2, <2>1
<1>10. Len(Sent(n)) \in Nat /\ Len(Sent(n + 1)) \in Nat /\ Len(RowBytes(n + 1)) \in Nat
  <2>1. IsSeq(Sent(n)) /\ IsSeq(Sent(n + 1))
    BY <1>4, <1>8
  <2> QED BY <1>9, <2>1, IsSeqLen
<1> QED BY Zenon, <1>3, <1>4, <1>5, <1>6, <1>8, <1>9, <1>10

RowsSent(n) == \A r \in 0 .. n - 1 : Holds(Sent(n), EndOf(r), RowBytes(r + 1))

LEMMA SentRows ==
    ASSUME result \in Results
    PROVE  \A n \in 0 .. Len(Rows) : RowsSent(n)
<1>0. Len(Rows) \in Nat
  BY RowsAre
<1> DEFINE P == {n \in Nat : n <= Len(Rows) => RowsSent(n)}
<1>1. 0 \in P
  BY DEF RowsSent
<1>2. ASSUME NEW n \in P PROVE n + 1 \in P
  <2> SUFFICES ASSUME n + 1 <= Len(Rows) PROVE RowsSent(n + 1)
    BY <1>2
  <2>0. n \in Nat /\ n < Len(Rows)
    BY <1>0, <1>2
  <2>1. RowsSent(n)
    BY <1>2, <2>0
  <2> HIDE DEF P
  <2>2. /\ Sent(n + 1) = Sent(n) \o RowBytes(n + 1)
        /\ IsSeq(Sent(n)) /\ IsSeq(RowBytes(n + 1))
        /\ Len(Sent(n)) = EndOf(n) /\ EndOf(n) \in Nat /\ Len(RowBytes(n + 1)) \in Nat
    BY <2>0, SentStep
  <2> DEFINE s == Sent(n)
             t == RowBytes(n + 1)
             u == s \o t
  <2>3. IsSeq(s) /\ IsSeq(t) /\ Sent(n + 1) = u /\ Len(s) = EndOf(n) /\ Len(t) \in Nat /\ Len(s) \in Nat
    BY <2>2
  <2> HIDE DEF s, t
  <2>4. /\ \A i \in 1 .. Len(s) : u[i] = s[i]
        /\ \A i \in 1 .. Len(t) : u[Len(s) + i] = t[i]
    BY SMTT(60), <2>3, IsSeqConcat
  <2> HIDE DEF u
  <2> SUFFICES ASSUME NEW r \in 0 .. n PROVE Holds(u, EndOf(r), RowBytes(r + 1))
    BY <2>0, <2>3 DEF RowsSent
  <2>5. CASE r = n
    BY <2>3, <2>4, <2>5 DEF Holds, t
  <2>6. CASE r # n
    <3>1. r \in Nat /\ r < Len(Rows) /\ r + 1 <= n /\ r \in 0 .. n - 1 /\ r + 1 \in Nat /\ n <= Len(Rows)
      BY <2>0, <2>6, <1>0
    <3>2. Holds(s, EndOf(r), RowBytes(r + 1))
      BY <2>1, <3>1 DEF RowsSent, s
    <3> DEFINE l == Len(RowBytes(r + 1))
               e == EndOf(r)
    <3>3. EndOf(r + 1) = e + l /\ e \in Nat /\ l \in Nat
      BY <3>1, SentStep, EndOfStep
    <3>4. EndOf(r + 1) <= Len(s)
      <4>1. r + 1 \in Nat /\ n \in Nat /\ r + 1 <= n /\ n <= Len(Rows)
        BY <2>0, <3>1
      <4> DEFINE q == r + 1
      <4> HIDE DEF q
      <4>2. q \in Nat /\ n \in Nat /\ q <= n /\ n <= Len(Rows)
        BY <4>1 DEF q
      <4>3. EndOf(q) <= EndOf(n)
        BY <4>2, EndOfMonotone
      <4> QED BY <2>3, <4>3 DEF q
    <3> HIDE DEF e, l
    <3>5. \A k \in 1 .. l : e + k \in 1 .. Len(s)
      BY <2>3, <3>3, <3>4
    <3> QED BY <2>4, <3>2, <3>5 DEF Holds, e, l
  <2> QED BY <2>5, <2>6
<1> HIDE DEF P
<1>3. P = Nat
  <2>1. P \in SUBSET Nat
    BY DEF P
  <2> QED BY <1>1, <1>2, <2>1, SetInduction
<1> QED BY <1>0, <1>3 DEF P

\* Where the bytes of a row are.
LEMMA OriginalRow ==
    ASSUME result \in Results, NEW r \in Nat, r < Len(Rows)
    PROVE  Holds(Original, EndOf(r), RowBytes(r + 1))
<1>1. Len(Rows) \in 0 .. Len(Rows) /\ r \in 0 .. Len(Rows) - 1
  BY RowsAre
<1> QED BY <1>1, SentRows DEF RowsSent, Original

LEMMA HoldsSplit ==
    ASSUME NEW m, NEW p \in Nat, NEW s, NEW t, IsSeq(s), IsSeq(t), Holds(m, p, s \o t)
    PROVE  Holds(m, p, s) /\ Holds(m, p + Len(s), t) /\ p + Len(s) \in Nat
<1> DEFINE u == s \o t
<1>1. /\ Len(u) = Len(s) + Len(t) /\ Len(s) \in Nat /\ Len(t) \in Nat
      /\ \A i \in 1 .. Len(s) : u[i] = s[i]
      /\ \A i \in 1 .. Len(t) : u[Len(s) + i] = t[i]
  BY IsSeqConcat, IsSeqLen
<1>2. \A k \in 1 .. Len(u) : m[p + k] = u[k]
  BY DEF Holds
<1> HIDE DEF u
<1>3. Holds(m, p, s)
  <2>1. \A k \in 1 .. Len(s) : k \in 1 .. Len(u)
    BY <1>1
  <2> QED BY <1>1, <1>2, <2>1 DEF Holds
<1>4. Holds(m, p + Len(s), t)
  <2> SUFFICES ASSUME NEW k \in 1 .. Len(t) PROVE m[p + Len(s) + k] = t[k]
    BY DEF Holds
  <2> DEFINE i == Len(s) + k
  <2>1. i \in 1 .. Len(u) /\ p + i = p + Len(s) + k
    BY <1>1
  <2>2. u[i] = t[k]
    BY <1>1
  <2> HIDE DEF i
  <2> QED BY <1>2, <2>1, <2>2
<1> QED BY <1>1, <1>3, <1>4

LEMMA HoldsPiece ==
    ASSUME NEW m, NEW p \in Nat, NEW s, IsSeq(s), Holds(m, p, s), NEW n \in Nat, n <= Len(s)
    PROVE  SubSeq(m, p + 1, p + n) = SubSeq(s, 1, n)
<1> DEFINE b == p + n
           z == 0
           x == SubSeq(m, p + 1, b)
           y == SubSeq(s, z + 1, n)
<1>1. b \in Nat /\ p <= b /\ b - p = n /\ z \in Nat /\ z <= n /\ n - z = n /\ \A k \in 1 .. n : z + k = k
  OBVIOUS
<1>2. Len(s) \in Nat
  BY IsSeqLen
<1>6. \A k \in 1 .. n : k \in 1 .. Len(s)
  BY <1>2
<1> HIDE DEF b, z
<1>3. IsSeq(x) /\ Len(x) = b - p /\ \A k \in 1 .. b - p : x[k] = m[p + k]
  BY ZenonT(60), <1>1, PieceIs
<1>4. IsSeq(y) /\ Len(y) = n - z /\ \A k \in 1 .. n - z : y[k] = s[z + k]
  <2>1. z \in Nat /\ n \in Nat /\ z <= n
    BY <1>1
  <2>2. \A c, d \in Nat : c <= d => /\ IsSeq(SubSeq(s, c + 1, d)) /\ Len(SubSeq(s, c + 1, d)) = d - c
                                    /\ \A k \in 1 .. d - c : SubSeq(s, c + 1, d)[k] = s[c + k]
    BY PieceIs
  <2> QED BY ZenonT(60), <2>1, <2>2
<1> HIDE DEF x, y
<1>5. Len(x) = n /\ Len(y) = n /\ \A k \in 1 .. n : x[k] = m[p + k] /\ y[k] = s[k]
  BY <1>1, <1>3, <1>4
<1>7. \A k \in 1 .. Len(x) : x[k] = y[k]
  BY <1>5, <1>6 DEF Holds
<1>8. x = y
  BY <1>3, <1>4, <1>5, <1>7, SameSeq
<1>9. z + 1 = 1
  BY DEF z
<1> QED BY <1>8, <1>9 DEF x, y, b

----------------------------------------------------------------------------
(* What steps do, if all that a LOB has left comes with one readLob: from  *)
(* where they read, what is not encoded, how much of a LOB came with its   *)
(* row, and what was written                                               *)
State(at, pend, pre, text) == [at |-> at, pend |-> pend, pre |-> pre, text |-> text]
ToEncode(op, s) == s.pend \o SubSeq(Original, s.at + 1, s.at + op.n)
LeftOfLob(op, s) ==
    s.pend \o SubSeq(Content(op.arg[1], op.arg[2]), s.pre + 1, Blobs(op.arg[1])[op.arg[2]])
TextOf(op, s) ==
    IF op.name = "inject" THEN op.arg
    ELSE IF op.name = "write" THEN SubSeq(Original, s.at + 1, s.at + op.n)
    ELSE IF op.name = "encode" THEN Encoded(ToEncode(op, s))
    ELSE IF op.name = "lob" THEN Encoded(LeftOfLob(op, s))
    ELSE IF op.name = "end" THEN EncodedEnd(s.pend) ELSE <<>>
PendingOf(op, s) ==
    IF op.name = "encode" THEN Rest(ToEncode(op, s))
    ELSE IF op.name = "lob" THEN Rest(LeftOfLob(op, s))
    ELSE IF op.name = "end" THEN <<>> ELSE s.pend
After(op, s) ==
    State(s.at + op.n, PendingOf(op, s), IF op.name = "encode" THEN op.n ELSE s.pre,
          s.text \o TextOf(op, s))
PlayedBy(f, s, x, y) ==
    f[0] = x /\ f[Len(s)] = y /\ \A k \in 1 .. Len(s) : f[k] = After(s[k], f[k - 1])
Plays(s, x, y) == \E f : PlayedBy(f, s, x, y)

LEMMA PlaysNone == ASSUME NEW x, NEW y PROVE Plays(<<>>, x, y) <=> x = y
<1>1. ASSUME Plays(<<>>, x, y) PROVE x = y
  BY <1>1 DEF Plays, PlayedBy
<1>2. ASSUME x = y PROVE Plays(<<>>, x, y)
  <2> DEFINE f == [k \in 0 .. 0 |-> x]
  <2>1. PlayedBy(f, <<>>, x, y)
    BY <1>2 DEF PlayedBy
  <2> HIDE DEF f
  <2> QED BY <2>1 DEF Plays
<1> QED BY <1>1, <1>2

LEMMA PlaysOne ==
    ASSUME NEW o, NEW x, NEW y, y = After(o, x)
    PROVE  Plays(<<o>>, x, y)
<1> DEFINE f == [k \in 0 .. 1 |-> IF k = 0 THEN x ELSE y]
           s == <<o>>
<1>1. f[0] = x /\ f[1] = y
  OBVIOUS
<1>2. Len(s) = 1 /\ s[1] = o
  OBVIOUS
<1> HIDE DEF f, s
<1>3. \A k \in 1 .. Len(s) : f[k] = After(s[k], f[k - 1])
  <2> SUFFICES ASSUME NEW k \in 1 .. 1 PROVE f[k] = After(s[k], f[k - 1])
    BY <1>2
  <2>1. k = 1 /\ k - 1 = 0
    OBVIOUS
  <2>2. f[1] = After(s[1], f[0])
    BY <1>1, <1>2
  <2> QED BY Zenon, <2>1, <2>2
<1>4. PlayedBy(f, s, x, y)
  BY <1>1, <1>2, <1>3 DEF PlayedBy
<1> QED BY <1>4 DEF Plays, s

LEMMA PlaysBoth ==
    ASSUME NEW s, NEW t, IsSeq(s), IsSeq(t), NEW x, NEW y, NEW z, Plays(s, x, y), Plays(t, y, z)
    PROVE  Plays(s \o t, x, z)
<1>1. PICK f : PlayedBy(f, s, x, y)
  BY DEF Plays
<1>2. PICK g : PlayedBy(g, t, y, z)
  BY DEF Plays
<1> DEFINE u == s \o t
           m == Len(s)
           n == Len(t)
           h == [k \in 0 .. m + n |-> IF k <= m THEN f[k] ELSE g[k - m]]
<1>3. /\ Len(u) = m + n /\ m \in Nat /\ n \in Nat
      /\ \A i \in 1 .. m : u[i] = s[i]
      /\ \A i \in 1 .. n : u[m + i] = t[i]
  BY IsSeqConcat, IsSeqLen
<1>4. /\ f[0] = x /\ f[m] = y /\ \A k \in 1 .. m : f[k] = After(s[k], f[k - 1])
      /\ g[0] = y /\ g[n] = z /\ \A k \in 1 .. n : g[k] = After(t[k], g[k - 1])
  BY <1>1, <1>2 DEF PlayedBy
<1> HIDE DEF u, m, n
<1>5. /\ \A k \in 0 .. m : h[k] = f[k]
      /\ \A k \in 0 .. n : h[m + k] = g[k]
  <2>1. ASSUME NEW k \in 0 .. m PROVE h[k] = f[k]
    BY <1>3
  <2>2. ASSUME NEW k \in 0 .. n PROVE h[m + k] = g[k]
    <3>1. CASE k = 0
      <4>1. m + k = m
        BY <1>3, <3>1
      <4>2. h[m] = f[m]
        BY <1>3
      <4> HIDE DEF h
      <4> QED BY <1>4, <3>1, <4>1, <4>2
    <3>2. CASE k # 0
      <4>1. m + k \in 0 .. m + n /\ ~(m + k <= m) /\ (m + k) - m = k
        BY <1>3, <3>2
      <4> QED BY <4>1
    <3> QED BY <3>1, <3>2
  <2> QED BY <2>1, <2>2
<1> HIDE DEF h
<1>6. h[0] = x /\ h[m + n] = z
  <2>1. 0 \in 0 .. m /\ n \in 0 .. n
    BY <1>3
  <2> QED BY <1>4, <1>5, <2>1
<1>7. ASSUME NEW k \in 1 .. m + n PROVE h[k] = After(u[k], h[k - 1])
  <2>1. CASE k <= m
    <3>1. k \in 1 .. m /\ k \in 0 .. m /\ k - 1 \in 0 .. m
      BY <1>3, <2>1
    <3>2. f[k] = After(s[k], f[k - 1]) /\ u[k] = s[k] /\ h[k] = f[k] /\ h[k - 1] = f[k - 1]
      BY <1>3, <1>4, <1>5, <3>1
    <3> QED BY <3>2
  <2>2. CASE ~(k <= m)
    <3> DEFINE i == k - m
               j == i - 1
    <3>1. i \in 1 .. n /\ i \in 0 .. n /\ j \in 0 .. n /\ m + i = k /\ m + j = k - 1 /\ i - 1 = j
      BY <1>3, <2>2
    <3> HIDE DEF i, j
    <3>2. g[i] = After(t[i], g[j])
      BY <1>4, <3>1
    <3>3. u[m + i] = t[i] /\ h[m + i] = g[i] /\ h[m + j] = g[j]
      BY <1>3, <1>5, <3>1
    <3>4. u[k] = t[i] /\ h[k] = g[i] /\ h[k - 1] = g[j]
      BY <3>1, <3>3
    <3> QED BY <3>2, <3>4
  <2> QED BY <2>1, <2>2
<1>8. PlayedBy(h, u, x, z)
  BY <1>3, <1>6, <1>7 DEF PlayedBy
<1> QED BY <1>8 DEF Plays, u

LEMMA PlaysTail ==
    ASSUME NEW s, IsSeq(s), s # <<>>, NEW x, NEW y, Plays(s, x, y)
    PROVE  Plays(Tail(s), After(Head(s), x), y)
<1>1. PICK f : PlayedBy(f, s, x, y)
  BY DEF Plays
<1>2. /\ Len(Tail(s)) = Len(s) - 1 /\ Len(s) \in Nat \ {0}
      /\ \A i \in 1 .. Len(Tail(s)) : Tail(s)[i] = s[i + 1]
      /\ Head(s) = s[1]
  BY HeadTailProperties, IsSeqLen, EmptySeq DEF IsSeq
<1> DEFINE n == Len(s) - 1
           t == Tail(s)
           h == [k \in 0 .. n |-> f[k + 1]]
<1>3. /\ n \in Nat /\ Len(t) = n /\ n + 1 = Len(s) /\ \A i \in 1 .. n : t[i] = s[i + 1]
  BY <1>2
<1>4. f[0] = x /\ f[n + 1] = y /\ \A k \in 1 .. n + 1 : f[k] = After(s[k], f[k - 1])
  BY <1>1, <1>3 DEF PlayedBy
<1>5. f[1] = After(s[1], f[0])
  <2>1. \A k \in 1 .. n + 1 : k = 1 => f[k] = After(s[k], f[0])
    <3> HIDE DEF n
    <3>1. \A k \in 1 .. n + 1 : k = 1 => k - 1 = 0
      OBVIOUS
    <3> QED BY <1>4, <3>1
  <2>2. 1 \in 1 .. n + 1
    BY <1>3
  <2> HIDE DEF n
  <2> QED BY <2>1, <2>2
<1> HIDE DEF n, t
<1>6. h[0] = After(Head(s), x) /\ h[n] = y
  <2>1. h[0] = f[0 + 1] /\ h[n] = f[n + 1]
    BY <1>3
  <2> HIDE DEF h
  <2> QED BY <1>2, <1>4, <1>5, <2>1
<1>7. ASSUME NEW k \in 1 .. n PROVE h[k] = After(t[k], h[k - 1])
  <2> DEFINE q == k + 1
  <2>1. k \in 0 .. n /\ k - 1 \in 0 .. n /\ (k - 1) + 1 = k /\ q \in 1 .. n + 1 /\ q - 1 = k
    BY <1>3
  <2>2. h[k] = f[q] /\ h[k - 1] = f[k] /\ t[k] = s[q]
    BY <1>3, <2>1
  <2> HIDE DEF h, q
  <2>3. f[q] = After(s[q], f[k])
    BY <1>4, <2>1
  <2> QED BY <2>2, <2>3
<1> HIDE DEF h
<1>8. PlayedBy(h, t, After(Head(s), x), y)
  BY <1>3, <1>6, <1>7 DEF PlayedBy
<1> QED BY <1>8 DEF Plays, t

LEMMA StateIs ==
    ASSUME NEW a, NEW p, NEW f, NEW t
    PROVE  /\ State(a, p, f, t).at = a /\ State(a, p, f, t).pend = p
           /\ State(a, p, f, t).pre = f /\ State(a, p, f, t).text = t
BY DEF State

----------------------------------------------------------------------------
(* Encoding, piece by piece                                                *)
Quads(bytes) == [g \in 1 .. Len(bytes) \div 3 |->
                    [k \in 1 .. 4 |-> <<SubSeq(bytes, 3 * g - 2, 3 * g), k>>]]

LEMMA QuadsAre ==
    ASSUME NEW bytes, IsSeq(bytes)
    PROVE  /\ Encoded(bytes) = FlattenSeq(Quads(bytes))
           /\ IsSeq(Quads(bytes)) /\ Len(Quads(bytes)) = Len(bytes) \div 3
           /\ \A g \in DOMAIN Quads(bytes) : IsSeq(Quads(bytes)[g])
           /\ Len(bytes) \in Nat /\ Len(bytes) \div 3 \in Nat
<1> DEFINE n == Len(bytes) \div 3
<1>1. Len(bytes) \in Nat
  BY IsSeqLen
<1>2. n \in Nat
  <2> DEFINE l == Len(bytes)
  <2> HIDE DEF l
  <2>1. l \div 3 \in Nat
    BY <1>1 DEF l
  <2> QED BY <2>1 DEF l
<1>3. Encoded(bytes) = FlattenSeq(Quads(bytes))
  <2>1. DOMAIN Groups(bytes) = 1 .. n /\ \A g \in 1 .. n : Groups(bytes)[g] = SubSeq(bytes, 3 * g - 2, 3 * g)
    BY DEF Groups
  <2>2. [g \in DOMAIN Groups(bytes) |-> [k \in 1 .. 4 |-> <<Groups(bytes)[g], k>>]] = Quads(bytes)
    BY <2>1 DEF Quads
  <2> QED BY <2>2 DEF Encoded
<1>4. DOMAIN Quads(bytes) = 1 .. n /\ Quads(bytes) = [g \in 1 .. n |-> Quads(bytes)[g]]
  BY DEF Quads
<1>5. \A g \in 1 .. n : IsSeq(Quads(bytes)[g])
  <2> SUFFICES ASSUME NEW g \in 1 .. n PROVE IsSeq(Quads(bytes)[g])
    OBVIOUS
  <2> DEFINE x == SubSeq(bytes, 3 * g - 2, 3 * g)
             q == [k \in 1 .. 4 |-> <<x, k>>]
  <2>1. Quads(bytes)[g] = q
    BY DEF Quads
  <2> HIDE DEF x
  <2>2. q = [k \in 1 .. 4 |-> q[k]] /\ 4 \in Nat
    OBVIOUS
  <2> HIDE DEF q
  <2>3. IsSeq(q)
    BY <2>2, FunctionIsSeq
  <2> QED BY <2>1, <2>3
<1> HIDE DEF n
<1>6. IsSeq(Quads(bytes)) /\ Len(Quads(bytes)) = n
  BY <1>2, <1>4, FunctionIsSeq
<1> QED BY <1>1, <1>2, <1>3, <1>4, <1>5, <1>6 DEF n

LEMMA Thirds ==
    ASSUME NEW a \in Nat, NEW b \in Nat
    PROVE  LET m == a \div 3
               n == ((a - 3 * m) + b) \div 3
           IN  /\ m \in Nat /\ n \in Nat /\ a - 3 * m \in Nat /\ 3 * m <= a
               /\ (a + b) \div 3 = m + n
               /\ 3 * n <= a - 3 * m + b
OBVIOUS

\* What is not encoded of the bytes before is encoded with those after them.
LEMMA EncodedBoth ==
    ASSUME NEW x, NEW y, IsSeq(x), IsSeq(y)
    PROVE  /\ Encoded(x \o y) = Encoded(x) \o Encoded(Rest(x) \o y)
           /\ Rest(x \o y) = Rest(Rest(x) \o y)
           /\ IsSeq(Encoded(x)) /\ IsSeq(Rest(x)) /\ IsSeq(Rest(x) \o y)
           /\ IsSeq(Encoded(Rest(x) \o y)) /\ IsSeq(x \o y)
<1> DEFINE a == Len(x)
           b == Len(y)
           m == a \div 3
           d == 3 * m
           r == Rest(x)
           z == r \o y
           u == x \o y
           l == (a - d) + b
           n == l \div 3
<1>1. a \in Nat /\ b \in Nat
  BY IsSeqLen
<1>2. /\ m \in Nat /\ n \in Nat /\ a - d \in Nat /\ d <= a /\ d \in Nat
      /\ (a + b) \div 3 = m + n /\ l \in Nat /\ 3 * n <= l
  <2> HIDE DEF a, b
  <2>1. /\ m \in Nat /\ n \in Nat /\ a - d \in Nat /\ d <= a
        /\ (a + b) \div 3 = m + n /\ 3 * n <= a - d + b
    BY <1>1, Thirds
  <2>2. d \in Nat /\ l \in Nat
    BY <1>1, <2>1
  <2> QED BY <2>1, <2>2
<1>3. r = SubSeq(x, d + 1, a)
  BY DEF Rest
<1>4. IsSeq(r) /\ IsSeq(Encoded(x))
  BY EncodedIs
<1>5. Len(r) = a - d /\ \A k \in 1 .. a - d : r[k] = x[d + k]
  <2> HIDE DEF a, d, r
  <2> QED BY <1>1, <1>2, <1>3, PieceIs
<1>6. /\ IsSeq(u) /\ Len(u) = a + b
      /\ \A i \in 1 .. a : u[i] = x[i]
      /\ \A i \in 1 .. b : u[a + i] = y[i]
  BY IsSeqConcat
<1> HIDE DEF r
<1>7. /\ IsSeq(z) /\ Len(z) = Len(r) + b
      /\ \A i \in 1 .. Len(r) : z[i] = r[i]
      /\ \A i \in 1 .. b : z[Len(r) + i] = y[i]
  BY <1>4, IsSeqConcat
<1> HIDE DEF a, b, z, u
<1>8. Len(z) = l
  BY <1>5, <1>7
<1>9. ASSUME NEW k \in 1 .. l PROVE u[d + k] = z[k]
  <2> HIDE DEF m
  <2>1. CASE k <= a - d
    <3> HIDE DEF d
    <3>1. k \in 1 .. a - d /\ d + k \in 1 .. a /\ k \in 1 .. Len(r)
      BY <1>1, <1>2, <1>5, <2>1
    <3> QED BY <1>5, <1>6, <1>7, <3>1
  <2>2. CASE ~(k <= a - d)
    <3> DEFINE i == k - (a - d)
    <3> HIDE DEF d
    <3>1. i \in 1 .. b /\ (a - d) + i = k /\ a + i = d + k
      BY <1>1, <1>2, <2>2
    <3> HIDE DEF i
    <3>2. z[Len(r) + i] = y[i] /\ u[a + i] = y[i]
      BY <1>6, <1>7, <3>1
    <3> QED BY <1>5, <3>1, <3>2
  <2> QED BY <2>1, <2>2
<1>10. /\ IsSeq(Quads(x)) /\ Len(Quads(x)) = m /\ Encoded(x) = FlattenSeq(Quads(x))
       /\ \A g \in DOMAIN Quads(x) : IsSeq(Quads(x)[g])
  BY QuadsAre DEF a
<1>11. /\ IsSeq(Quads(z)) /\ Len(Quads(z)) = n /\ Encoded(z) = FlattenSeq(Quads(z))
       /\ \A g \in DOMAIN Quads(z) : IsSeq(Quads(z)[g])
  BY <1>7, <1>8, QuadsAre
<1>12. /\ IsSeq(Quads(u)) /\ Len(Quads(u)) = m + n /\ Encoded(u) = FlattenSeq(Quads(u))
  BY <1>2, <1>6, QuadsAre
<1>13. Quads(u) = Quads(x) \o Quads(z)
  <2> DEFINE s == Quads(x)
             t == Quads(z)
             v == Quads(u)
  <2>1. \A g \in 1 .. m : s[g] = [k \in 1 .. 4 |-> <<SubSeq(x, 3 * g - 2, 3 * g), k>>]
    BY DEF Quads, a
  <2>2. \A g \in 1 .. n : t[g] = [k \in 1 .. 4 |-> <<SubSeq(z, 3 * g - 2, 3 * g), k>>]
    BY <1>8 DEF Quads
  <2>3. \A g \in 1 .. m + n : v[g] = [k \in 1 .. 4 |-> <<SubSeq(u, 3 * g - 2, 3 * g), k>>]
    BY <1>2, <1>6 DEF Quads
  <2>4. IsSeq(s) /\ IsSeq(t) /\ IsSeq(v) /\ Len(s) = m /\ Len(t) = n /\ Len(v) = m + n
    BY <1>10, <1>11, <1>12
  <2> HIDE DEF s, t, v
  <2>5. /\ IsSeq(s \o t) /\ Len(s \o t) = Len(s) + Len(t)
        /\ \A i \in 1 .. Len(s) : (s \o t)[i] = s[i]
        /\ \A i \in 1 .. Len(t) : (s \o t)[Len(s) + i] = t[i]
    BY SMTT(60), <2>4, IsSeqConcat
  <2>6. ASSUME NEW g \in 1 .. m PROVE v[g] = s[g]
    <3> DEFINE c == 3 * g - 3
               e == 3 * g
    <3>0. c \in Nat /\ e \in Nat /\ c <= e /\ e <= d /\ c + 1 = 3 * g - 2 /\ g \in 1 .. m + n
      <4> HIDE DEF n
      <4>1. m \in Nat /\ n \in Nat
        BY <1>2
      <4> HIDE DEF m
      <4> QED BY <4>1
    <3> HIDE DEF c, e, d
    <3>1. \A k \in c + 1 .. e : u[k] = x[k]
      <4>1. \A k \in c + 1 .. e : k \in 1 .. a
        BY <1>1, <1>2, <3>0
      <4> QED BY <1>6, <4>1
    <3>2. SubSeq(u, c + 1, e) = SubSeq(x, c + 1, e)
      BY <3>0, <3>1, PieceSame
    <3>3. SubSeq(u, 3 * g - 2, 3 * g) = SubSeq(x, 3 * g - 2, 3 * g)
      BY <3>0, <3>2 DEF e
    <3> HIDE DEF m, n
    <3>4. g \in 1 .. m + n
      BY <3>0
    <3>5. v[g] = [k \in 1 .. 4 |-> <<SubSeq(u, 3 * g - 2, 3 * g), k>>]
      BY <2>3, <3>4
    <3>6. s[g] = [k \in 1 .. 4 |-> <<SubSeq(x, 3 * g - 2, 3 * g), k>>]
      BY <2>1
    <3> QED BY Zenon, <3>3, <3>5, <3>6
  <2>7. ASSUME NEW j \in 1 .. n PROVE v[m + j] = t[j]
    <3> DEFINE c == 3 * j - 3
               e == 3 * j
               g == m + j
    <3>0. c \in Nat /\ e \in Nat /\ c <= e /\ e <= l /\ c + 1 = 3 * j - 2
          /\ (d + c) + 1 = 3 * g - 2 /\ d + e = 3 * g /\ g \in 1 .. m + n
      <4>1. m \in Nat /\ n \in Nat /\ l \in Nat /\ 3 * n <= l
        BY <1>2
      <4> HIDE DEF m, n, l
      <4> QED BY <4>1
    <3>1. d \in Nat
      BY <1>2
    <3> HIDE DEF c, e, d, g
    <3>2. \A k \in c + 1 .. e : u[d + k] = z[k]
      <4>1. \A k \in c + 1 .. e : k \in 1 .. l
        <5>1. l \in Nat
          BY <1>2
        <5> HIDE DEF l
        <5> QED BY <3>0, <5>1
      <4> QED BY <1>9, <4>1
    <3>3. SubSeq(u, (d + c) + 1, d + e) = SubSeq(z, c + 1, e)
      BY <3>0, <3>1, <3>2, PieceShift
    <3>4. SubSeq(u, 3 * g - 2, 3 * g) = SubSeq(z, 3 * j - 2, 3 * j)
      BY <3>0, <3>3 DEF e
    <3> HIDE DEF m, n
    <3>5. v[g] = [k \in 1 .. 4 |-> <<SubSeq(u, 3 * g - 2, 3 * g), k>>]
      BY <2>3, <3>0
    <3>6. t[j] = [k \in 1 .. 4 |-> <<SubSeq(z, 3 * j - 2, 3 * j), k>>]
      BY <2>2
    <3>7. v[g] = t[j]
      BY Zenon, <3>4, <3>5, <3>6
    <3> QED BY <3>7 DEF g
  <2>8. ASSUME NEW k \in 1 .. m + n PROVE v[k] = (s \o t)[k]
    <3>0. m \in Nat /\ n \in Nat
      BY <1>2
    <3> HIDE DEF m, n
    <3>1. CASE k <= m
      <4>1. k \in 1 .. m
        BY <3>0, <3>1
      <4> QED BY <2>4, <2>5, <2>6, <4>1
    <3>2. CASE ~(k <= m)
      <4> DEFINE j == k - m
      <4>1. j \in 1 .. n /\ m + j = k
        BY <3>0, <3>2
      <4> HIDE DEF j
      <4>2. v[m + j] = t[j] /\ (s \o t)[Len(s) + j] = t[j]
        BY <2>4, <2>5, <2>7, <4>1
      <4> QED BY <2>4, <4>1, <4>2
    <3> QED BY <3>1, <3>2
  <2> DEFINE w == s \o t
  <2>9. IsSeq(w) /\ Len(w) = m + n /\ \A k \in 1 .. m + n : v[k] = w[k]
    BY <2>4, <2>5, <2>8
  <2> HIDE DEF w, m, n
  <2>10. v = w
    BY <2>4, <2>9, SameSeq
  <2> QED BY <2>10 DEF w, s, t, v
<1>14. Encoded(u) = Encoded(x) \o Encoded(z)
  <2> DEFINE s == Quads(x)
             t == Quads(z)
  <2>1. IsSeq(s) /\ IsSeq(t) /\ (\A g \in DOMAIN s : IsSeq(s[g])) /\ (\A g \in DOMAIN t : IsSeq(t[g]))
    BY <1>10, <1>11
  <2> HIDE DEF s, t
  <2>2. FlattenSeq(s \o t) = FlattenSeq(s) \o FlattenSeq(t)
    BY <2>1, FlattenBoth
  <2> QED BY Zenon, <1>10, <1>11, <1>12, <1>13, <2>2 DEF s, t
<1>15. Rest(u) = Rest(z)
  <2>1. Rest(u) = SubSeq(u, 3 * (m + n) + 1, a + b)
    BY <1>2, <1>6 DEF Rest
  <2>2. Rest(z) = SubSeq(z, 3 * n + 1, l)
    BY <1>8 DEF Rest
  <2> DEFINE c == 3 * n
  <2>3. c \in Nat /\ l \in Nat /\ c <= l /\ d \in Nat /\ (d + c) + 1 = 3 * (m + n) + 1 /\ d + l = a + b
    <3>1. m \in Nat /\ n \in Nat /\ l \in Nat /\ 3 * n <= l /\ d + l = a + b /\ d \in Nat
      <4>1. d \in Nat /\ l \in Nat /\ n \in Nat /\ m \in Nat /\ 3 * n <= l
        BY <1>2
      <4>2. d + l = a + b
        <5> HIDE DEF d
        <5> QED BY <1>1, <4>1
      <4> QED BY <4>1, <4>2
    <3> HIDE DEF m, n, l
    <3> QED BY <3>1
  <2>4. \A k \in c + 1 .. l : u[d + k] = z[k]
    <3>1. \A k \in c + 1 .. l : k \in 1 .. l
      <4> HIDE DEF c, l
      <4> QED BY <2>3
    <3> QED BY <1>9, <3>1
  <2> HIDE DEF c, l, d
  <2>5. SubSeq(u, (d + c) + 1, d + l) = SubSeq(z, c + 1, l)
    BY <2>3, <2>4, PieceShift
  <2> QED BY <2>1, <2>2, <2>3, <2>5 DEF c
<1>16. IsSeq(Encoded(z))
  BY <1>7, EncodedIs
<1> QED BY <1>4, <1>6, <1>7, <1>14, <1>15, <1>16 DEF r, z, u

LEMMA PlaysTwo ==
    ASSUME NEW o, NEW v, NEW x, NEW y, NEW z, y = After(o, x), z = After(v, y)
    PROVE  Plays(<<o, v>>, x, z)
<1>1. IsSeq(<<o>>) /\ IsSeq(<<v>>)
  BY OneIsSeq
<1>2. Plays(<<o>>, x, y) /\ Plays(<<v>>, y, z)
  BY PlaysOne
<1>3. <<o, v>> = <<o>> \o <<v>>
  BY TwoAreOneAndOne
<1> DEFINE a == <<o>>
           c == <<v>>
<1>4. IsSeq(a) /\ IsSeq(c) /\ Plays(a, x, y) /\ Plays(c, y, z) /\ <<o, v>> = a \o c
  BY <1>1, <1>2, <1>3
<1> HIDE DEF a, c
<1> QED BY <1>4, PlaysBoth

LEMMA PlaysFour ==
    ASSUME NEW o, NEW u, NEW v, NEW r, NEW x, NEW y, NEW z, NEW w, NEW e,
           y = After(o, x), z = After(u, y), w = After(v, z), e = After(r, w)
    PROVE  Plays(<<o, u, v, r>>, x, e) /\ IsSeq(<<o, u, v, r>>)
<1>1. IsSeq(<<o, u>>) /\ IsSeq(<<v, r>>)
  BY TwoIsSeq
<1>2. Plays(<<o, u>>, x, z) /\ Plays(<<v, r>>, z, e)
  BY PlaysTwo
<1>4. <<o, u, v, r>> = <<o, u>> \o <<v, r>>
  OBVIOUS
<1> DEFINE a == <<o, u>>
           c == <<v, r>>
<1>5. IsSeq(a) /\ IsSeq(c) /\ Plays(a, x, z) /\ Plays(c, z, e) /\ <<o, u, v, r>> = a \o c
  BY <1>1, <1>2, <1>4
<1> HIDE DEF a, c
<1>6. IsSeq(a \o c)
  BY <1>5, IsSeqConcat
<1> QED BY <1>5, <1>6, PlaysBoth

\* The whole LOB is encoded, in one part or in two.
LEMMA LobIs ==
    ASSUME result \in Results, NEW i \in 1 .. Len(Rows), NEW b \in Lobs(i),
           NEW c, c = Content(i, b), NEW q, q = Prefetched(i, b)
    PROVE  /\ IsSeq(c) /\ IsSeq(q)
           /\ Blobs(i)[b] > PrefetchSize => c = q \o SubSeq(c, Len(q) + 1, Blobs(i)[b])
           /\ ~(Blobs(i)[b] > PrefetchSize) => c = q
<1>1. /\ q \in Seq(Byte) /\ c \in Seq(Byte)
      /\ Blobs(i)[b] \in Nat /\ PrefetchSize \in Nat
      /\ Len(c) = Blobs(i)[b]
      /\ Blobs(i)[b] <= PrefetchSize => q = c
      /\ Blobs(i)[b] >= PrefetchSize => Len(q) = PrefetchSize
  BY LobParts
<1>2. IsSeq(c) /\ IsSeq(q)
  BY <1>1, SeqIs
<1>3. CASE Blobs(i)[b] > PrefetchSize
  <2> DEFINE l == Blobs(i)[b]
             n == PrefetchSize
             z == 0
  <2>1. Len(q) = n /\ n <= l /\ l \in Nat /\ n \in Nat /\ Len(c) = l /\ z <= n /\ z \in Nat
    BY <1>1, <1>3
  <2>2. q = SubSeq(c, z + 1, n)
    <3>1. Min2(PrefetchSize, Blobs(i)[b]) = PrefetchSize
      BY <1>1, <1>3 DEF Min2
    <3>2. q = SubSeq(c, 1, PrefetchSize)
      BY <3>1 DEF Prefetched
    <3> QED BY <3>2
  <2>3. c = SubSeq(c, z + 1, l)
    <3>1. c = SubSeq(c, 1, Len(c))
      BY <1>2, WholePiece
    <3> QED BY <3>1, <2>1
  <2> HIDE DEF l, n, z
  <2>4. SubSeq(c, z + 1, l) = SubSeq(c, z + 1, n) \o SubSeq(c, n + 1, l)
    BY SMTT(60), <2>1, PieceSplit
  <2>5. c = q \o SubSeq(c, Len(q) + 1, l)
    BY <2>1, <2>2, <2>3, <2>4
  <2> QED BY <1>2, <1>3, <2>5 DEF l
<1>4. CASE ~(Blobs(i)[b] > PrefetchSize)
  BY <1>1, <1>2, <1>4
<1> QED BY <1>3, <1>4

----------------------------------------------------------------------------
(* What the steps of a LOB do                                              *)
LEMMA AfterEncoding ==
    ASSUME NEW o, o.name = "encode", NEW s
    PROVE  After(o, s) = State(s.at + o.n, Rest(ToEncode(o, s)), o.n, s.text \o Encoded(ToEncode(o, s)))
BY DEF After, PendingOf, TextOf

LEMMA AfterLobs ==
    ASSUME NEW o, o.name = "lob", o.n = 0, NEW s, s.at \in Nat
    PROVE  After(o, s) = State(s.at, Rest(LeftOfLob(o, s)), s.pre, s.text \o Encoded(LeftOfLob(o, s)))
<1>1. s.at + o.n = s.at
  OBVIOUS
<1>2. TextOf(o, s) = Encoded(LeftOfLob(o, s)) /\ PendingOf(o, s) = Rest(LeftOfLob(o, s))
  BY DEF TextOf, PendingOf
<1> QED BY <1>1, <1>2 DEF After

\* The steps that encode a LOB, whose part in the row comes next.
Encoding(i, b) ==
    <<Op("encode", Len(Prefetched(i, b)), <<>>)>>
    \o (IF Blobs(i)[b] > PrefetchSize THEN <<Op("lob", 0, <<i, b>>)>> ELSE <<>>)

LEMMA PlaysEncoding ==
    ASSUME result \in Results, NEW i \in 1 .. Len(Rows), NEW b \in Lobs(i),
           NEW p \in Nat, Holds(Original, p, Prefetched(i, b)), NEW f, NEW V, IsSeq(V),
           NEW n, n = Len(Prefetched(i, b))
    PROVE  /\ Plays(Encoding(i, b), State(p, <<>>, f, V),
                    State(p + n, Rest(Content(i, b)), n, V \o Encoded(Content(i, b))))
           /\ IsSeq(Encoding(i, b)) /\ IsSeq(V \o Encoded(Content(i, b))) /\ n \in Nat
<1> DEFINE c == Content(i, b)
           q == Prefetched(i, b)
           l == Blobs(i)[b]
           y == SubSeq(c, n + 1, l)
           no == <<>>
           o == Op("encode", n, no)
           x0 == State(p, no, f, V)
           x1 == State(p + n, Rest(q), n, V \o Encoded(q))
<1>1. /\ IsSeq(c) /\ IsSeq(q)
      /\ l > PrefetchSize => c = q \o y
      /\ ~(l > PrefetchSize) => c = q
  BY LobIs
<1>2. n \in Nat
  BY <1>1, IsSeqLen
<1>3. no \o SubSeq(Original, p + 1, p + n) = q
  <2>1. Holds(Original, p, q)
    OBVIOUS
  <2>2. n <= Len(q) /\ n = Len(q)
    BY <1>2
  <2> HIDE DEF q
  <2>3. SubSeq(Original, p + 1, p + n) = SubSeq(q, 1, n)
    BY <1>1, <1>2, <2>1, <2>2, HoldsPiece
  <2>4. SubSeq(q, 1, n) = q
    BY <1>1, <2>2, WholePiece
  <2> QED BY <1>1, <2>3, <2>4, ConcatNone
<1> HIDE DEF no
<1>4. After(o, x0) = x1
  <2> HIDE DEF q
  <2>1. o.name = "encode" /\ o.n = n /\ x0.at = p /\ x0.pend = no /\ x0.text = V
    BY OpIs, StateIs
  <2> HIDE DEF o, x0
  <2>2. ToEncode(o, x0) = q
    BY <1>3, <2>1 DEF ToEncode
  <2>3. After(o, x0) = State(x0.at + o.n, Rest(ToEncode(o, x0)), o.n, x0.text \o Encoded(ToEncode(o, x0)))
    BY <2>1, AfterEncoding
  <2> QED BY <2>1, <2>2, <2>3
<1>5. IsSeq(<<o>>) /\ Plays(<<o>>, x0, x1)
  BY <1>4, OneIsSeq, PlaysOne
<1>6. IsSeq(Encoded(q)) /\ IsSeq(Rest(q)) /\ IsSeq(Encoded(c)) /\ IsSeq(V \o Encoded(c)) /\ IsSeq(V \o Encoded(q))
  <2> HIDE DEF c, q
  <2>1. IsSeq(Encoded(q)) /\ IsSeq(Rest(q)) /\ IsSeq(Encoded(c))
    BY <1>1, EncodedIs
  <2> QED BY <2>1, IsSeqConcat
<1>7. CASE l > PrefetchSize
  <2> DEFINE pr == <<i, b>>
             v == Op("lob", 0, pr)
             r == Rest(q)
             W == V \o Encoded(q)
             u == r \o y
             a == p + n
             x2 == State(a, Rest(u), n, W \o Encoded(u))
  <2>1. c = q \o y /\ IsSeq(y)
    <3>1. l \in Nat /\ n + 1 \in Int
      BY <1>2, LobParts
    <3>2. c = q \o y
      BY <1>1, <1>7
    <3> HIDE DEF c, q, l
    <3>3. IsSeq(y)
      BY <3>1, SubSeqIs
    <3> QED BY <3>2, <3>3
  <2>2. Encoded(c) = Encoded(q) \o Encoded(u) /\ Rest(c) = Rest(u) /\ IsSeq(Encoded(u))
    <3> HIDE DEF c, q, y
    <3> QED BY <1>1, <2>1, EncodedBoth
  <2>3. After(v, x1) = x2
    <3>1. a \in Nat
      BY <1>2
    <3> HIDE DEF pr
    <3>2. v.name = "lob" /\ v.n = 0 /\ v.arg = pr /\ x1.at = a /\ x1.pend = r /\ x1.pre = n /\ x1.text = W
      <4>1. v.name = "lob" /\ v.n = 0 /\ v.arg = pr
        BY OpIs
      <4>2. x1 = State(a, r, n, W)
        OBVIOUS
      <4> HIDE DEF v, x1, r, W, a
      <4>3. x1.at = a /\ x1.pend = r /\ x1.pre = n /\ x1.text = W
        BY <4>2, StateIs
      <4> QED BY <4>1, <4>3
    <3>3. pr[1] = i /\ pr[2] = b
      BY DEF pr
    <3> HIDE DEF v, x1, r, W, a
    <3>4. LeftOfLob(v, x1) = u
      BY <3>2, <3>3 DEF LeftOfLob
    <3> HIDE DEF u
    <3>5. After(v, x1) = State(x1.at, Rest(LeftOfLob(v, x1)), x1.pre, x1.text \o Encoded(LeftOfLob(v, x1)))
      BY <3>1, <3>2, AfterLobs
    <3> QED BY <3>2, <3>4, <3>5
  <2>4. x2 = State(p + n, Rest(c), n, V \o Encoded(c))
    <3>1. W \o Encoded(u) = V \o Encoded(c)
      <4> DEFINE e == Encoded(q)
                 g == Encoded(u)
      <4>1. IsSeq(e) /\ IsSeq(g) /\ Encoded(c) = e \o g
        BY <1>6, <2>2
      <4> HIDE DEF e, g
      <4>2. (V \o e) \o g = V \o (e \o g)
        BY SMTT(60), <4>1, ConcatAssoc
      <4> QED BY <4>1, <4>2 DEF e, g
    <3> QED BY <2>2, <3>1
  <2>5. Encoding(i, b) = <<o, v>>
    <3>1. Encoding(i, b) = <<o>> \o <<v>>
      BY <1>7 DEF Encoding, no
    <3> QED BY <3>1, TwoAreOneAndOne
  <2>6. Plays(<<o, v>>, x0, x2)
    <3>1. x1 = After(o, x0) /\ x2 = After(v, x1)
      BY <1>4, <2>3
    <3> HIDE DEF o, v, x0, x1, x2
    <3> QED BY <3>1, PlaysTwo
  <2>7. IsSeq(<<o, v>>)
    BY TwoIsSeq
  <2>8. Plays(Encoding(i, b), State(p, <<>>, f, V), x2)
    BY <2>5, <2>6 DEF no
  <2> HIDE DEF x2, o, v
  <2> QED BY <1>2, <1>6, <2>4, <2>5, <2>7, <2>8
<1>8. CASE ~(l > PrefetchSize)
  <2>1. c = q
    BY <1>1, <1>8
  <2>2. Encoding(i, b) = <<o>>
    <3>1. Encoding(i, b) = <<o>> \o <<>>
      BY <1>8 DEF Encoding, no
    <3> HIDE DEF o
    <3>2. IsSeq(<<o>>)
      BY OneIsSeq
    <3> QED BY <3>1, <3>2, ConcatNone
  <2>3. x1 = State(p + n, Rest(c), n, V \o Encoded(c))
    BY <2>1
  <2>4. Plays(Encoding(i, b), State(p, <<>>, f, V), x1)
    BY <1>5, <2>2 DEF no
  <2> HIDE DEF x1, o
  <2> QED BY <1>2, <1>5, <1>6, <2>2, <2>3, <2>4
<1> QED BY <1>7, <1>8

LEMMA AfterInject ==
    ASSUME NEW text, NEW a \in Nat, NEW p, NEW f, NEW W
    PROVE  After(InjectOp(text), State(a, p, f, W)) = State(a, p, f, W \o text)
<1> DEFINE o == InjectOp(text)
           s == State(a, p, f, W)
<1>1. o.name = "inject" /\ o.n = 0 /\ o.arg = text
  BY OpIs DEF InjectOp
<1>2. s.at = a /\ s.pend = p /\ s.pre = f /\ s.text = W
  BY StateIs
<1> HIDE DEF o, s
<1>3. s.at + o.n = a
  BY <1>1, <1>2
<1>4. TextOf(o, s) = text /\ PendingOf(o, s) = p
  BY <1>1, <1>2 DEF TextOf, PendingOf
<1>5. After(o, s) = State(a, p, f, W \o text)
  BY <1>1, <1>2, <1>3, <1>4 DEF After
<1> QED BY <1>5 DEF o, s

LEMMA AfterRead ==
    ASSUME NEW n \in Nat, NEW arg, NEW a \in Nat, NEW p, NEW f, NEW W, IsSeq(W)
    PROVE  After(Op("read", n, arg), State(a, p, f, W)) = State(a + n, p, f, W)
<1> DEFINE o == Op("read", n, arg)
           s == State(a, p, f, W)
<1>1. o.name = "read" /\ o.n = n
  BY OpIs
<1>2. s.at = a /\ s.pend = p /\ s.pre = f /\ s.text = W
  BY StateIs
<1> HIDE DEF o, s
<1>4. TextOf(o, s) = <<>> /\ PendingOf(o, s) = p
  BY <1>1, <1>2 DEF TextOf, PendingOf
<1>5. W \o <<>> = W
  BY ConcatNone
<1>6. After(o, s) = State(a + n, p, f, W)
  BY <1>1, <1>2, <1>4, <1>5 DEF After
<1> QED BY <1>6 DEF o, s

LEMMA AfterWrite ==
    ASSUME NEW n \in Nat, NEW arg, NEW a \in Nat, NEW p, NEW f, NEW W
    PROVE  After(Op("write", n, arg), State(a, p, f, W)) = State(a + n, p, f, W \o SubSeq(Original, a + 1, a + n))
<1> DEFINE o == Op("write", n, arg)
           s == State(a, p, f, W)
<1>1. o.name = "write" /\ o.n = n
  BY OpIs
<1>2. s.at = a /\ s.pend = p /\ s.pre = f /\ s.text = W
  BY StateIs
<1> HIDE DEF o, s
<1>4. TextOf(o, s) = SubSeq(Original, a + 1, a + n) /\ PendingOf(o, s) = p
  BY <1>1, <1>2 DEF TextOf, PendingOf
<1>6. After(o, s) = State(a + n, p, f, W \o SubSeq(Original, a + 1, a + n))
  BY <1>1, <1>2, <1>4 DEF After
<1> QED BY <1>6 DEF o, s

LEMMA AfterEnd ==
    ASSUME NEW arg, NEW a \in Nat, NEW p, NEW f, NEW W
    PROVE  After(Op("end", 0, arg), State(a, p, f, W)) = State(a, <<>>, f, W \o EncodedEnd(p))
<1> DEFINE o == Op("end", 0, arg)
           s == State(a, p, f, W)
<1>1. o.name = "end" /\ o.n = 0
  BY OpIs
<1>2. s.at = a /\ s.pend = p /\ s.pre = f /\ s.text = W
  BY StateIs
<1> HIDE DEF o, s
<1>3. s.at + o.n = a
  BY <1>1, <1>2
<1>4. TextOf(o, s) = EncodedEnd(p) /\ PendingOf(o, s) = <<>>
  BY <1>1, <1>2 DEF TextOf, PendingOf
<1>6. After(o, s) = State(a, <<>>, f, W \o EncodedEnd(p))
  BY <1>1, <1>2, <1>3, <1>4 DEF After
<1> QED BY <1>6 DEF o, s

\* Two texts.
LEMMA PlaysTexts ==
    ASSUME NEW s, NEW t, NEW a \in Nat, NEW p, NEW f, NEW W, IsSeq(s), IsSeq(t), IsSeq(W)
    PROVE  /\ Plays(<<InjectOp(s), InjectOp(t)>>, State(a, p, f, W), State(a, p, f, W \o (s \o t)))
           /\ IsSeq(<<InjectOp(s), InjectOp(t)>>) /\ IsSeq(W \o (s \o t))
<1> DEFINE o == InjectOp(s)
           v == InjectOp(t)
           x == State(a, p, f, W)
           y == State(a, p, f, W \o s)
           z == State(a, p, f, (W \o s) \o t)
<1>1. y = After(o, x) /\ z = After(v, y)
  BY AfterInject
<1>2. (W \o s) \o t = W \o (s \o t) /\ IsSeq(W \o (s \o t))
  BY SMTT(60), ConcatAssoc, IsSeqConcat
<1> HIDE DEF o, v, x, y, z
<1>3. Plays(<<o, v>>, x, z) /\ IsSeq(<<o, v>>)
  BY <1>1, PlaysTwo, TwoIsSeq
<1> QED BY <1>2, <1>3 DEF o, v, x, z

\* Bytes are skipped, and a text is given.
LEMMA PlaysSkip ==
    ASSUME NEW n \in Nat, NEW arg, NEW t, NEW a \in Nat, NEW p, NEW f, NEW W, IsSeq(t), IsSeq(W)
    PROVE  /\ Plays(<<Op("read", n, arg), InjectOp(t)>>, State(a, p, f, W), State(a + n, p, f, W \o t))
           /\ IsSeq(<<Op("read", n, arg), InjectOp(t)>>) /\ IsSeq(W \o t) /\ a + n \in Nat
<1> DEFINE o == Op("read", n, arg)
           v == InjectOp(t)
           x == State(a, p, f, W)
           y == State(a + n, p, f, W)
           z == State(a + n, p, f, W \o t)
<1>1. y = After(o, x)
  BY AfterRead
<1>2. a + n \in Nat
  OBVIOUS
<1>3. z = After(v, y)
  BY <1>2, AfterInject
<1>4. IsSeq(W \o t)
  BY IsSeqConcat
<1> HIDE DEF o, v, x, y, z
<1>5. Plays(<<o, v>>, x, z) /\ IsSeq(<<o, v>>)
  BY <1>1, <1>3, PlaysTwo, TwoIsSeq
<1> QED BY <1>2, <1>4, <1>5 DEF o, v, x, z

\* The encoding of a LOB ends.
LEMMA PlaysEnd ==
    ASSUME NEW arg, NEW t, NEW a \in Nat, NEW p, NEW f, NEW W, IsSeq(t), IsSeq(W), IsSeq(p)
    PROVE  /\ Plays(<<Op("end", 0, arg), InjectOp(t)>>, State(a, p, f, W),
                    State(a, <<>>, f, W \o (EncodedEnd(p) \o t)))
           /\ IsSeq(<<Op("end", 0, arg), InjectOp(t)>>) /\ IsSeq(EncodedEnd(p))
<1> DEFINE o == Op("end", 0, arg)
           v == InjectOp(t)
           no == <<>>
           e == EncodedEnd(p)
           x == State(a, p, f, W)
           y == State(a, no, f, W \o e)
           z == State(a, no, f, (W \o e) \o t)
<1>1. y = After(o, x)
  BY AfterEnd
<1> HIDE DEF no
<1>3. z = After(v, y)
  BY AfterInject
<1>4. IsSeq(e)
  BY EncodedIs
<1> HIDE DEF e
<1>5. (W \o e) \o t = W \o (e \o t)
  BY SMTT(60), <1>4, ConcatAssoc
<1> HIDE DEF o, v, x, y, z
<1>6. Plays(<<o, v>>, x, z) /\ IsSeq(<<o, v>>)
  BY <1>1, <1>3, PlaysTwo, TwoIsSeq
<1> QED BY <1>4, <1>5, <1>6 DEF o, v, x, z, e, no

Quoted(sk, t, g, z) == sk \o ((t \o (g \o z)) \o t)
ByParts(W, sk, t, g, z) == (((W \o sk) \o t) \o g) \o (z \o t)

LEMMA FiveTexts ==
    ASSUME NEW W, NEW sk, NEW t, NEW g, NEW z, IsSeq(W), IsSeq(sk), IsSeq(t), IsSeq(g), IsSeq(z)
    PROVE  ByParts(W, sk, t, g, z) = W \o Quoted(sk, t, g, z)
<1> DEFINE gz == g \o z
           zt == z \o t
           ws == W \o sk
           tg == t \o g
           tgz == t \o gz
           gzt == gz \o t
           body == t \o gzt
<1>1. IsSeq(gz) /\ IsSeq(zt) /\ IsSeq(ws) /\ IsSeq(tg)
  BY IsSeqConcat
<1>2. IsSeq(tgz) /\ IsSeq(gzt)
  <2> HIDE DEF gz
  <2> QED BY <1>1, IsSeqConcat
<1>3. IsSeq(body)
  <2> HIDE DEF gzt
  <2> QED BY <1>2, IsSeqConcat
<1>4. tgz \o t = body
  <2>1. IsSeq(gz)
    BY <1>1
  <2> HIDE DEF gz
  <2> QED BY SMTT(60), <2>1, ConcatAssoc
<1>5. gzt = g \o zt
  BY SMTT(60), ConcatAssoc
<1>6. tg \o zt = body
  <2>1. IsSeq(zt)
    BY <1>1
  <2> HIDE DEF zt
  <2>2. tg \o zt = t \o (g \o zt)
    BY SMTT(60), <2>1, ConcatAssoc
  <2> HIDE DEF tg
  <2> QED BY <1>5, <2>2
<1>7. (ws \o t) \o g = ws \o tg
  <2>1. IsSeq(ws)
    BY <1>1
  <2> HIDE DEF ws
  <2> QED BY SMTT(60), <2>1, ConcatAssoc
<1>8. (ws \o tg) \o zt = ws \o (tg \o zt)
  <2>1. IsSeq(ws) /\ IsSeq(tg) /\ IsSeq(zt)
    BY <1>1
  <2> HIDE DEF ws, tg, zt
  <2> QED BY SMTT(60), <2>1, ConcatAssoc
<1>9. ws \o body = W \o (sk \o body)
  <2> HIDE DEF body
  <2> QED BY SMTT(60), <1>3, ConcatAssoc
<1>10. ((ws \o t) \o g) \o zt = W \o (sk \o body)
  <2> HIDE DEF ws, zt, body, tg
  <2> QED BY <1>6, <1>7, <1>8, <1>9
<1> HIDE DEF body
<1>11. ByParts(W, sk, t, g, z) = ((ws \o t) \o g) \o zt /\ Quoted(sk, t, g, z) = sk \o (tgz \o t)
  BY DEF ByParts, Quoted
<1> HIDE DEF ws, zt, tgz
<1> QED BY <1>4, <1>10, <1>11

LEMMA OneTexts ==
    /\ IsSeq(<<"key">>) /\ IsSeq(<<"null">>) /\ IsSeq(<<"quote">>) /\ IsSeq(<<>>)
<1> DEFINE k == "key"
           n == "null"
           q == "quote"
<1> HIDE DEF k, n, q
<1>1. IsSeq(<<k>>) /\ IsSeq(<<n>>) /\ IsSeq(<<q>>) /\ IsSeq(<<>>)
  BY OneIsSeq
<1> QED BY <1>1 DEF k, n, q

\* What a LOB column without a LOB does.
LEMMA PlaysNull ==
    ASSUME NEW i, NEW b, NEW a \in Nat, NEW p, NEW f, NEW W, IsSeq(W),
           Blobs(i)[b] = Null
    PROVE  /\ Plays(BlobOps(i, b), State(a, p, f, W), State(a + 2, p, f, W \o BlobText(i, b)))
           /\ IsSeq(BlobOps(i, b))
<1> DEFINE s == Separator(i, b)
           k == <<"key">>
           t == <<"null">>
           no == <<>>
           u == <<InjectOp(s), InjectOp(k)>>
           v == <<Op("read", 2, no), InjectOp(t)>>
           V == W \o (s \o k)
           x == State(a, p, f, W)
           y == State(a, p, f, V)
           z == State(a + 2, p, f, V \o t)
<1>0. Null # Absent
  BY StreamAssumption
<1>1. IsSeq(s) /\ IsSeq(k) /\ IsSeq(t) /\ IsSeq(s \o k)
  BY SeparatorIs, OneTexts, IsSeqConcat
<1>2. BlobOps(i, b) = u \o v /\ BlobText(i, b) = (s \o k) \o t
  <2>1. BlobOps(i, b) = u \o v
    BY <1>0 DEF BlobOps
  <2>2. BlobText(i, b) = s \o k \o t
    BY <1>0 DEF BlobText
  <2> QED BY <2>1, <2>2
<1> HIDE DEF s, k, t, no
<1>3. Plays(u, x, y) /\ IsSeq(u) /\ IsSeq(V)
  BY <1>1, PlaysTexts
<1> HIDE DEF V
<1>4. Plays(v, y, z) /\ IsSeq(v)
  <2> DEFINE n == 2
             o == Op("read", n, no)
  <2>1. n \in Nat
    OBVIOUS
  <2> HIDE DEF n
  <2>2. /\ Plays(<<o, InjectOp(t)>>, State(a, p, f, V), State(a + n, p, f, V \o t))
        /\ IsSeq(<<o, InjectOp(t)>>)
    BY <1>1, <1>3, <2>1, PlaysSkip
  <2> QED BY <2>2 DEF n
<1>5. V \o t = W \o ((s \o k) \o t)
  <2> DEFINE sk == s \o k
  <2> HIDE DEF sk
  <2>1. (W \o sk) \o t = W \o (sk \o t)
    BY SMTT(60), <1>1, ConcatAssoc DEF sk
  <2> QED BY <2>1 DEF sk, V
<1> HIDE DEF u, v, x, y
<1>6. Plays(u \o v, x, z) /\ IsSeq(u \o v)
  BY <1>3, <1>4, PlaysBoth, IsSeqConcat
<1> QED BY <1>2, <1>5, <1>6 DEF x

\* A LOB is given as text.
LEMMA PlaysLob ==
    ASSUME result \in Results, NEW i \in 1 .. Len(Rows), NEW b \in Lobs(i),
           NEW a \in Nat, Holds(Original, a, BlobBytes(i, b)), NEW f, NEW W, IsSeq(W),
           NEW n, n = Len(Prefetched(i, b))
    PROVE  /\ Plays(BlobOps(i, b), State(a, <<>>, f, W),
                    State(a + Len(BlobBytes(i, b)), <<>>, n, W \o BlobText(i, b)))
           /\ IsSeq(BlobOps(i, b))
<1> DEFINE s == Separator(i, b)
           k == <<"key">>
           t == <<"quote">>
           no == <<>>
           c == Content(i, b)
           q == Prefetched(i, b)
           h == LobHeader
           r == Rest(c)
           u == <<InjectOp(s), InjectOp(k)>>
           v == <<Op("read", h, no), InjectOp(t)>>
           e == Encoding(i, b)
           w == <<Op("end", 0, no), InjectOp(t)>>
           V1 == W \o (s \o k)
           V2 == V1 \o t
           V3 == V2 \o Encoded(c)
           V4 == V3 \o (EncodedEnd(r) \o t)
           x0 == State(a, no, f, W)
           x1 == State(a, no, f, V1)
           x2 == State(a + h, no, f, V2)
           x3 == State(a + h + n, r, n, V3)
           x4 == State(a + h + n, no, n, V4)
<1>0. Blobs(i)[b] \notin {Absent, Null}
  BY DEF Lobs, Streams
<1>1. IsSeq(s) /\ IsSeq(k) /\ IsSeq(t) /\ IsSeq(s \o k) /\ IsSeq(c) /\ IsSeq(q) /\ IsSeq(r) /\ IsSeq(Encoded(c))
  <2>1. IsSeq(s) /\ IsSeq(k) /\ IsSeq(t) /\ IsSeq(s \o k)
    BY SeparatorIs, OneTexts, IsSeqConcat
  <2>2. IsSeq(c) /\ IsSeq(q)
    BY LobIs
  <2> HIDE DEF c
  <2>3. IsSeq(r) /\ IsSeq(Encoded(c))
    BY <2>2, EncodedIs
  <2> QED BY <2>1, <2>2, <2>3
<1>2. h \in Nat /\ n \in Nat /\ a + h \in Nat /\ a + h + n \in Nat
  <2>1. h \in Nat
    BY StreamAssumption
  <2>2. n \in Nat
    BY <1>1, IsSeqLen
  <2> QED BY <2>1, <2>2
<1>3. BlobBytes(i, b) = Bytes("header", h) \o q /\ Len(BlobBytes(i, b)) = h + n
      /\ Holds(Original, a + h, q)
  <2> DEFINE g == Bytes("header", h)
  <2>1. BlobBytes(i, b) = g \o q
    BY <1>0 DEF BlobBytes
  <2>2. g \in Seq({"header"} \X Nat) /\ Len(g) = h
    BY <1>2, BytesType
  <2> HIDE DEF g, q
  <2>3. IsSeq(g)
    BY <2>2, SeqIs
  <2>4. Holds(Original, a, g \o q)
    BY <2>1
  <2>5. Holds(Original, a + Len(g), q)
    BY <1>1, <2>3, <2>4, HoldsSplit
  <2>6. Len(g \o q) = Len(g) + Len(q) /\ n = Len(q)
    <3>1. Len(g \o q) = Len(g) + Len(q)
      BY <1>1, <2>3, IsSeqConcat
    <3> QED BY <3>1 DEF q
  <2> QED BY <2>1, <2>2, <2>5, <2>6 DEF g
<1>4. BlobOps(i, b) = u \o (v \o e \o w)
  <2> DEFINE o == Op("read", h, no)
             j == InjectOp(t)
             m == Op("encode", n, no)
             l == IF Blobs(i)[b] > PrefetchSize THEN <<Op("lob", 0, <<i, b>>)>> ELSE <<>>
  <2>1. BlobOps(i, b) = u \o (<<o, j, m>> \o l \o w)
    BY <1>0 DEF BlobOps
  <2>2. e = <<m>> \o l
    BY DEF Encoding
  <2>3. IsSeq(l)
    <3>1. IsSeq(<<Op("lob", 0, <<i, b>>)>>)
      <4> DEFINE lob == Op("lob", 0, <<i, b>>)
      <4> HIDE DEF lob
      <4>1. IsSeq(<<lob>>)
        BY OneIsSeq
      <4> QED BY <4>1 DEF lob
    <3> QED BY <3>1, OneTexts
  <2>4. v = <<o, j>>
    OBVIOUS
  <2> HIDE DEF o, j, m, l, u, w, v, e
  <2>5. <<o, j, m>> = <<o, j>> \o <<m>>
    OBVIOUS
  <2>6. IsSeq(<<o, j>>) /\ IsSeq(<<m>>)
    BY OneIsSeq, TwoIsSeq
  <2>7. (v \o <<m>>) \o l = v \o (<<m>> \o l)
    BY <2>3, <2>4, <2>6, ConcatAssoc
  <2>8. <<o, j, m>> \o l = v \o e
    BY <2>2, <2>4, <2>5, <2>7
  <2> QED BY <2>1, <2>8
<1>5. BlobText(i, b) = (s \o k) \o ((t \o (Encoded(c) \o EncodedEnd(r))) \o t)
  <2>1. BlobText(i, b) = s \o k \o (t \o Base64(c) \o t)
    BY <1>0 DEF BlobText
  <2>2. Base64(c) = Encoded(c) \o EncodedEnd(r)
    BY DEF Base64
  <2> HIDE DEF s, k, t, c, r
  <2> QED BY <2>1, <2>2
<1> HIDE DEF s, k, t, no
<1>6. Plays(u, x0, x1) /\ IsSeq(u) /\ IsSeq(V1)
  BY <1>1, PlaysTexts
<1>7. Plays(v, x1, x2) /\ IsSeq(v) /\ IsSeq(V2)
  <2> HIDE DEF h, V1
  <2> QED BY <1>1, <1>2, <1>6, PlaysSkip
<1>8. Plays(e, x2, x3) /\ IsSeq(e) /\ IsSeq(V3)
  <2> DEFINE p == a + h
  <2>1. Holds(Original, p, Prefetched(i, b)) /\ p \in Nat
    BY <1>2, <1>3
  <2> HIDE DEF p, V2
  <2>2. /\ Plays(Encoding(i, b), State(p, <<>>, f, V2),
                    State(p + n, Rest(Content(i, b)), n, V2 \o Encoded(Content(i, b))))
        /\ IsSeq(Encoding(i, b)) /\ IsSeq(V2 \o Encoded(Content(i, b)))
    BY <1>7, <2>1, PlaysEncoding
  <2> QED BY <2>2 DEF p, no
<1>9. Plays(w, x3, x4) /\ IsSeq(w) /\ IsSeq(EncodedEnd(r))
  <2> DEFINE p == a + h + n
  <2> HIDE DEF r, V3, p, c
  <2>1. /\ Plays(w, State(p, r, n, V3), State(p, <<>>, n, V3 \o (EncodedEnd(r) \o t)))
        /\ IsSeq(w) /\ IsSeq(EncodedEnd(r))
    BY <1>1, <1>2, <1>8, PlaysEnd DEF p
  <2> QED BY <2>1 DEF p, no
<1>10. V4 = W \o BlobText(i, b)
  <2> DEFINE sk == s \o k
             g == Encoded(c)
             z == EncodedEnd(r)
  <2>1. IsSeq(sk) /\ IsSeq(g) /\ IsSeq(z) /\ IsSeq(t)
    BY <1>1, <1>9
  <2>2. /\ BlobText(i, b) = Quoted(sk, t, g, z)
        /\ V4 = ByParts(W, sk, t, g, z)
    BY <1>5 DEF Quoted, ByParts
  <2> HIDE DEF sk, g, z, V4
  <2>3. ByParts(W, sk, t, g, z) = W \o Quoted(sk, t, g, z)
    BY <2>1, FiveTexts
  <2> QED BY <2>2, <2>3
<1>11. Plays(BlobOps(i, b), x0, x4) /\ IsSeq(BlobOps(i, b))
  <2> HIDE DEF u, v, e, w, x0, x1, x2, x3, x4
  <2>1. Plays(v \o e, x1, x3) /\ IsSeq(v \o e)
    BY <1>7, <1>8, PlaysBoth, IsSeqConcat
  <2> DEFINE ve == v \o e
  <2> HIDE DEF ve
  <2>2. Plays(ve \o w, x1, x4) /\ IsSeq(ve \o w)
    BY <1>9, <2>1, PlaysBoth, IsSeqConcat DEF ve
  <2> DEFINE vew == ve \o w
  <2> HIDE DEF vew
  <2>3. Plays(u \o vew, x0, x4) /\ IsSeq(u \o vew)
    BY <1>6, <2>2, PlaysBoth, IsSeqConcat DEF vew
  <2> QED BY <1>4, <2>3 DEF vew, ve
<1>12. a + h + n = a + Len(BlobBytes(i, b))
  <2> DEFINE l == Len(BlobBytes(i, b))
  <2>1. l = h + n
    BY <1>3
  <2> HIDE DEF l, h
  <2>2. a + h + n = a + l
    BY <1>2, <2>1
  <2> QED BY <2>2 DEF l
<1> HIDE DEF V4, h
<1> QED BY <1>10, <1>11, <1>12 DEF no

LEMMA ColumnIs ==
    ASSUME result \in Results, NEW i \in 1 .. Len(Rows), NEW b \in DOMAIN Blobs(i)
    PROVE  /\ IsSeq(BlobOps(i, b)) /\ IsSeq(BlobBytes(i, b)) /\ IsSeq(BlobText(i, b))
           /\ Len(BlobBytes(i, b)) \in Nat
<1>1. RowSteps(BlobOps(i, b)) /\ BlobBytes(i, b) \in Seq(Byte)
  BY BlobSteps
<1>2. IsSeq(BlobBytes(i, b)) /\ IsSeq(BlobOps(i, b))
  BY <1>1, SeqIs DEF RowSteps
<1> QED BY <1>2, IsSeqLen, BlobTextIs

\* What a LOB column does.
LEMMA PlaysColumn ==
    ASSUME result \in Results, NEW i \in 1 .. Len(Rows), NEW b \in DOMAIN Blobs(i),
           NEW a \in Nat, Holds(Original, a, BlobBytes(i, b)), NEW f, NEW W, IsSeq(W)
    PROVE  \E g : Plays(BlobOps(i, b), State(a, <<>>, f, W),
                        State(a + Len(BlobBytes(i, b)), <<>>, g, W \o BlobText(i, b)))
<1>1. CASE b \in Lobs(i)
  <2> DEFINE n == Len(Prefetched(i, b))
  <2>1. n = Len(Prefetched(i, b))
    OBVIOUS
  <2> HIDE DEF n
  <2>2. Plays(BlobOps(i, b), State(a, <<>>, f, W),
              State(a + Len(BlobBytes(i, b)), <<>>, n, W \o BlobText(i, b)))
    BY <1>1, <2>1, PlaysLob
  <2> QED BY <2>2
<1>2. CASE b \notin Lobs(i)
  <2> DEFINE l == Len(BlobBytes(i, b))
             no == <<>>
  <2>1. Blobs(i)[b] \in {Absent, Null}
    BY <1>2 DEF Lobs, Streams
  <2>2. l = 2
    <3>1. BlobBytes(i, b) = Bytes("null", 2)
      BY <2>1 DEF BlobBytes
    <3> DEFINE two == 2
    <3>2. two \in Nat
      OBVIOUS
    <3> HIDE DEF two
    <3>3. Len(Bytes("null", two)) = two
      BY <3>2, BytesType
    <3> QED BY <3>1, <3>3 DEF two
  <2>3. CASE Blobs(i)[b] = Absent
    <3> DEFINE o == Op("read", l, no)
               x == State(a, no, f, W)
               y == State(a + l, no, f, W)
    <3>1. BlobOps(i, b) = <<o>>
      BY <2>2, <2>3 DEF BlobOps
    <3>2. W \o BlobText(i, b) = W
      BY <2>3, ConcatNone DEF BlobText
    <3>3. l \in Nat
      BY <2>2
    <3> HIDE DEF l, no
    <3>4. y = After(o, x)
      BY <3>3, AfterRead
    <3> HIDE DEF o, x, y
    <3>5. Plays(<<o>>, x, y)
      BY <3>4, PlaysOne
    <3>6. Plays(BlobOps(i, b), State(a, no, f, W), State(a + l, no, f, W \o BlobText(i, b)))
      BY <3>1, <3>2, <3>5 DEF x, y
    <3> QED BY <3>6 DEF l, no
  <2>4. CASE Blobs(i)[b] = Null
    <3>1. Plays(BlobOps(i, b), State(a, no, f, W), State(a + 2, no, f, W \o BlobText(i, b)))
      <4> HIDE DEF no
      <4> QED BY <2>4, PlaysNull
    <3>2. a + 2 = a + l
      BY <2>2
    <3> HIDE DEF l
    <3>3. Plays(BlobOps(i, b), State(a, no, f, W), State(a + l, no, f, W \o BlobText(i, b)))
      BY <3>1, <3>2
    <3> QED BY <3>3 DEF l
  <2> QED BY <2>1, <2>3, <2>4
<1> QED BY <1>1, <1>2

\* The first n of some parts.
LEMMA HoldsFirst ==
    ASSUME NEW m, NEW p \in Nat, NEW l \in Nat, NEW f, f = [b \in 1 .. l |-> f[b]],
           \A b \in 1 .. l : IsSeq(f[b]), Holds(m, p, FlattenSeq(f)),
           NEW n \in 0 .. l, NEW g, g = [b \in 1 .. n |-> f[b]]
    PROVE  Holds(m, p, FlattenSeq(g))
<1>1. IsSeq(f) /\ Len(f) = l
  BY FunctionIsSeq
<1> DEFINE t == SubSeq(f, n + 1, l)
<1>2. f = g \o t /\ IsSeq(g) /\ IsSeq(t)
      /\ (\A b \in DOMAIN g : IsSeq(g[b])) /\ \A b \in DOMAIN t : IsSeq(t[b])
  <2> DEFINE z == 0
  <2>1. z \in Nat /\ z <= n /\ n <= l /\ n \in Nat
    OBVIOUS
  <2>2. g = SubSeq(f, z + 1, n)
    <3>1. z + 1 = 1 /\ n - 1 + 1 = n
      OBVIOUS
    <3>2. SubSeq(f, 1, n) = [k \in 1 .. n |-> f[k]]
      <4>1. SubSeq(f, 1, n) = [k \in 1 .. (1 + n - 1) |-> f[k + 1 - 1]]
        OBVIOUS
      <4>2. \A k \in 1 .. n : k + 1 - 1 = k
        OBVIOUS
      <4>3. 1 + n - 1 = n
        OBVIOUS
      <4> QED BY <4>1, <4>2, <4>3
    <3> QED BY <3>1, <3>2
  <2>3. f = SubSeq(f, z + 1, l)
    <3>1. SubSeq(f, 1, Len(f)) = f
      BY <1>1, WholePiece
    <3> QED BY <1>1, <3>1
  <2> HIDE DEF z
  <2>4. f = g \o t
    <3>1. SubSeq(f, z + 1, l) = SubSeq(f, z + 1, n) \o SubSeq(f, n + 1, l)
      BY ZenonT(60), <2>1, PieceSplit
    <3> QED BY <2>2, <2>3, <3>1
  <2>5. IsSeq(g) /\ Len(g) = n
    <3>1. g = [b \in 1 .. n |-> g[b]]
      OBVIOUS
    <3> QED BY <2>1, <3>1, FunctionIsSeq
  <2>6. IsSeq(t) /\ Len(t) = l - n /\ \A k \in 1 .. l - n : t[k] = f[n + k]
    <3> HIDE DEF t
    <3> QED BY <2>1, PieceIs DEF t
  <2>7. \A b \in DOMAIN t : IsSeq(t[b])
    <3>1. DOMAIN t = 1 .. l - n
      BY <2>6, IsSeqLen
    <3> HIDE DEF t
    <3> SUFFICES ASSUME NEW b \in 1 .. l - n PROVE IsSeq(t[b])
      BY <3>1
    <3>2. n + b \in 1 .. l
      BY <2>1
    <3>3. t[b] = f[n + b]
      BY <2>6
    <3> QED BY <3>2, <3>3
  <2>8. \A b \in DOMAIN g : IsSeq(g[b])
    OBVIOUS
  <2> HIDE DEF t
  <2> QED BY <2>4, <2>5, <2>6, <2>7, <2>8
<1> DEFINE x == FlattenSeq(g)
           y == FlattenSeq(t)
<1>3. FlattenSeq(f) = x \o y /\ IsSeq(x) /\ IsSeq(y)
  <2> HIDE DEF t
  <2>2. FlattenSeq(f) = x \o y
    BY <1>2, FlattenBoth
  <2>3. IsSeq(x) /\ IsSeq(y)
    BY <1>2, FlattenIsSeq
  <2> QED BY <2>2, <2>3
<1>4. Holds(m, p, x \o y)
  BY <1>3
<1> HIDE DEF x, y
<1>5. Holds(m, p, x)
  BY <1>3, <1>4, HoldsSplit
<1> QED BY <1>5 DEF x

----------------------------------------------------------------------------
(* What the steps of a row do                                              *)
\* The steps, the bytes and the text of the first n LOB columns of row i.
OpsTo(i, n) == FlattenSeq([b \in 1 .. n |-> BlobOps(i, b)])
BytesTo(i, n) == FlattenSeq([b \in 1 .. n |-> BlobBytes(i, b)])
TextTo(i, n) == FlattenSeq([b \in 1 .. n |-> BlobText(i, b)])

LEMMA BlobsAre ==
    ASSUME result \in Results, NEW i \in 1 .. Len(Rows)
    PROVE  Len(Blobs(i)) \in Nat /\ DOMAIN Blobs(i) = 1 .. Len(Blobs(i)) /\ i \in Nat
<1>1. IsRow(Rows[i]) /\ i \in Nat
  BY RowsAre
<1> QED BY <1>1, LenProperties DEF IsRow, Blobs

LEMMA ToNone == ASSUME NEW i PROVE OpsTo(i, 0) = <<>> /\ BytesTo(i, 0) = <<>> /\ TextTo(i, 0) = <<>>
<1>1. [b \in 1 .. 0 |-> BlobOps(i, b)] = <<>>
  OBVIOUS
<1>2. [b \in 1 .. 0 |-> BlobBytes(i, b)] = <<>>
  OBVIOUS
<1>3. [b \in 1 .. 0 |-> BlobText(i, b)] = <<>>
  OBVIOUS
<1> QED BY <1>1, <1>2, <1>3, FlattenEmpty DEF OpsTo, BytesTo, TextTo

LEMMA ToStep ==
    ASSUME result \in Results, NEW i \in 1 .. Len(Rows), NEW n \in Nat, n < Len(Blobs(i))
    PROVE  /\ OpsTo(i, n + 1) = OpsTo(i, n) \o BlobOps(i, n + 1)
           /\ BytesTo(i, n + 1) = BytesTo(i, n) \o BlobBytes(i, n + 1)
           /\ TextTo(i, n + 1) = TextTo(i, n) \o BlobText(i, n + 1)
<1>1. \A b \in 1 .. n + 1 : IsSeq(BlobOps(i, b)) /\ IsSeq(BlobBytes(i, b)) /\ IsSeq(BlobText(i, b))
  <2> SUFFICES ASSUME NEW b \in 1 .. n + 1
               PROVE  IsSeq(BlobOps(i, b)) /\ IsSeq(BlobBytes(i, b)) /\ IsSeq(BlobText(i, b))
    OBVIOUS
  <2> DEFINE l == Len(Blobs(i))
  <2>1. l \in Nat /\ DOMAIN Blobs(i) = 1 .. l /\ n < l
    BY BlobsAre
  <2> HIDE DEF l
  <2>2. b \in DOMAIN Blobs(i)
    BY <2>1
  <2> QED BY <2>2, ColumnIs
<1>2. OpsTo(i, n + 1) = OpsTo(i, n) \o BlobOps(i, n + 1)
  <2> DEFINE f == [b \in 1 .. n + 1 |-> BlobOps(i, b)]
             g == [b \in 1 .. n |-> BlobOps(i, b)]
  <2>1. f = [b \in 1 .. n + 1 |-> f[b]] /\ g = [b \in 1 .. n |-> g[b]]
    OBVIOUS
  <2>2. (\A b \in 1 .. n : g[b] = f[b]) /\ f[n + 1] = BlobOps(i, n + 1)
    OBVIOUS
  <2>3. \A b \in 1 .. n + 1 : IsSeq(f[b])
    BY <1>1
  <2> HIDE DEF f, g
  <2>4. FlattenSeq(f) = FlattenSeq(g) \o f[n + 1]
    BY <2>1, <2>2, <2>3, FlattenLast
  <2> QED BY <2>2, <2>4 DEF f, g, OpsTo
<1>3. BytesTo(i, n + 1) = BytesTo(i, n) \o BlobBytes(i, n + 1)
  <2> DEFINE f == [b \in 1 .. n + 1 |-> BlobBytes(i, b)]
             g == [b \in 1 .. n |-> BlobBytes(i, b)]
  <2>1. f = [b \in 1 .. n + 1 |-> f[b]] /\ g = [b \in 1 .. n |-> g[b]]
    OBVIOUS
  <2>2. (\A b \in 1 .. n : g[b] = f[b]) /\ f[n + 1] = BlobBytes(i, n + 1)
    OBVIOUS
  <2>3. \A b \in 1 .. n + 1 : IsSeq(f[b])
    BY <1>1
  <2> HIDE DEF f, g
  <2>4. FlattenSeq(f) = FlattenSeq(g) \o f[n + 1]
    BY <2>1, <2>2, <2>3, FlattenLast
  <2> QED BY <2>2, <2>4 DEF f, g, BytesTo
<1>4. TextTo(i, n + 1) = TextTo(i, n) \o BlobText(i, n + 1)
  <2> DEFINE f == [b \in 1 .. n + 1 |-> BlobText(i, b)]
             g == [b \in 1 .. n |-> BlobText(i, b)]
  <2>1. f = [b \in 1 .. n + 1 |-> f[b]] /\ g = [b \in 1 .. n |-> g[b]]
    OBVIOUS
  <2>2. (\A b \in 1 .. n : g[b] = f[b]) /\ f[n + 1] = BlobText(i, n + 1)
    OBVIOUS
  <2>3. \A b \in 1 .. n + 1 : IsSeq(f[b])
    BY <1>1
  <2> HIDE DEF f, g
  <2>4. FlattenSeq(f) = FlattenSeq(g) \o f[n + 1]
    BY <2>1, <2>2, <2>3, FlattenLast
  <2> QED BY <2>2, <2>4 DEF f, g, TextTo
<1> QED BY <1>2, <1>3, <1>4

LEMMA ToIs ==
    ASSUME result \in Results, NEW i \in 1 .. Len(Rows), NEW n \in 0 .. Len(Blobs(i))
    PROVE  /\ IsSeq(OpsTo(i, n)) /\ IsSeq(BytesTo(i, n)) /\ IsSeq(TextTo(i, n))
           /\ Len(BytesTo(i, n)) \in Nat
<1>1. \A b \in 1 .. n : IsSeq(BlobOps(i, b)) /\ IsSeq(BlobBytes(i, b)) /\ IsSeq(BlobText(i, b))
  <2> SUFFICES ASSUME NEW b \in 1 .. n
               PROVE  IsSeq(BlobOps(i, b)) /\ IsSeq(BlobBytes(i, b)) /\ IsSeq(BlobText(i, b))
    OBVIOUS
  <2> DEFINE l == Len(Blobs(i))
  <2>1. l \in Nat /\ DOMAIN Blobs(i) = 1 .. l /\ n \in 0 .. l
    BY BlobsAre
  <2> HIDE DEF l
  <2>2. b \in DOMAIN Blobs(i)
    BY <2>1
  <2> QED BY <2>2, ColumnIs
<1>2. n \in Nat
  BY BlobsAre
<1>3. IsSeq(OpsTo(i, n))
  <2> DEFINE f == [b \in 1 .. n |-> BlobOps(i, b)]
  <2>1. f = [b \in 1 .. n |-> f[b]] /\ (\A b \in 1 .. n : IsSeq(f[b])) /\ DOMAIN f = 1 .. n
    BY <1>1
  <2> HIDE DEF f
  <2>2. IsSeq(FlattenSeq(f))
    BY <1>2, <2>1, FunctionIsSeq, FlattenIsSeq
  <2> QED BY <2>2 DEF f, OpsTo
<1>4. IsSeq(BytesTo(i, n))
  <2> DEFINE f == [b \in 1 .. n |-> BlobBytes(i, b)]
  <2>1. f = [b \in 1 .. n |-> f[b]] /\ (\A b \in 1 .. n : IsSeq(f[b])) /\ DOMAIN f = 1 .. n
    BY <1>1
  <2> HIDE DEF f
  <2>2. IsSeq(FlattenSeq(f))
    BY <1>2, <2>1, FunctionIsSeq, FlattenIsSeq
  <2> QED BY <2>2 DEF f, BytesTo
<1>5. IsSeq(TextTo(i, n))
  <2> DEFINE f == [b \in 1 .. n |-> BlobText(i, b)]
  <2>1. f = [b \in 1 .. n |-> f[b]] /\ (\A b \in 1 .. n : IsSeq(f[b])) /\ DOMAIN f = 1 .. n
    BY <1>1
  <2> HIDE DEF f
  <2>2. IsSeq(FlattenSeq(f))
    BY <1>2, <2>1, FunctionIsSeq, FlattenIsSeq
  <2> QED BY <2>2 DEF f, TextTo
<1> QED BY <1>3, <1>4, <1>5, IsSeqLen

Played(i, n, a, f, W) ==
    \E g : Plays(OpsTo(i, n), State(a, <<>>, f, W),
                 State(a + Len(BytesTo(i, n)), <<>>, g, W \o TextTo(i, n)))

LEMMA PlaysColumns ==
    ASSUME result \in Results, NEW i \in 1 .. Len(Rows), NEW l, l = Len(Blobs(i)),
           NEW a \in Nat, Holds(Original, a, BytesTo(i, l)), NEW f, NEW W, IsSeq(W)
    PROVE  Played(i, l, a, f, W)
<1> DEFINE P == {n \in Nat : n <= l => Played(i, n, a, f, W)}
<1>1. l \in Nat
  BY BlobsAre
<1>2. 0 \in P
  <2> DEFINE z == 0
  <2>1. OpsTo(i, z) = <<>> /\ BytesTo(i, z) = <<>> /\ TextTo(i, z) = <<>>
    BY ToNone
  <2>2. a + Len(<<>>) = a
    OBVIOUS
  <2>3. W \o <<>> = W
    BY ConcatNone
  <2> HIDE DEF z
  <2>4. Plays(OpsTo(i, z), State(a, <<>>, f, W), State(a + Len(BytesTo(i, z)), <<>>, f, W \o TextTo(i, z)))
    <3> DEFINE x == State(a, <<>>, f, W)
               no == <<>>
    <3>1. Plays(no, x, x)
      <4> HIDE DEF x
      <4> QED BY PlaysNone
    <3> QED BY <2>1, <2>2, <2>3, <3>1
  <2>5. Played(i, z, a, f, W)
    BY <2>4 DEF Played
  <2> QED BY <2>5 DEF z
<1>3. \A n \in P : n + 1 \in P
  <2> SUFFICES ASSUME NEW n \in Nat, Played(i, n, a, f, W), n + 1 <= l
               PROVE  Played(i, n + 1, a, f, W)
    BY <1>1
  <2> DEFINE q == n + 1
             p == a + Len(BytesTo(i, n))
             V == W \o TextTo(i, n)
  <2>1. n < l /\ q \in 1 .. l /\ n \in 0 .. l /\ q \in DOMAIN Blobs(i) /\ q \in 0 .. l
    BY <1>1, BlobsAre
  <2>2. PICK g : Plays(OpsTo(i, n), State(a, <<>>, f, W), State(p, <<>>, g, V))
    BY DEF Played
  <2>3. /\ OpsTo(i, q) = OpsTo(i, n) \o BlobOps(i, q)
        /\ BytesTo(i, q) = BytesTo(i, n) \o BlobBytes(i, q)
        /\ TextTo(i, q) = TextTo(i, n) \o BlobText(i, q)
    BY <2>1, ToStep
  <2>4. /\ IsSeq(OpsTo(i, n)) /\ IsSeq(BytesTo(i, n)) /\ IsSeq(TextTo(i, n))
        /\ Len(BytesTo(i, n)) \in Nat
    BY <2>1, ToIs
  <2> HIDE DEF q
  <2>5. IsSeq(BlobOps(i, q)) /\ IsSeq(BlobBytes(i, q)) /\ IsSeq(BlobText(i, q)) /\ Len(BlobBytes(i, q)) \in Nat
    BY <2>1, ColumnIs
  <2>6. Holds(Original, a, BytesTo(i, q))
    <3> DEFINE s == [b \in 1 .. l |-> BlobBytes(i, b)]
               r == [b \in 1 .. q |-> s[b]]
    <3>1. Holds(Original, a, FlattenSeq(s))
      BY DEF BytesTo
    <3>2. FlattenSeq(r) = BytesTo(i, q)
      <4>1. \A b \in 1 .. q : b \in 1 .. l
        BY <1>1, <2>1
      <4>2. r = [b \in 1 .. q |-> BlobBytes(i, b)]
        BY <4>1
      <4> QED BY <4>2 DEF BytesTo
    <3>3. s = [b \in 1 .. l |-> s[b]]
      OBVIOUS
    <3>4. \A b \in 1 .. l : IsSeq(s[b])
      <4>1. DOMAIN Blobs(i) = 1 .. l
        BY BlobsAre
      <4> QED BY <4>1, ColumnIs
    <3>5. r = [b \in 1 .. q |-> s[b]]
      OBVIOUS
    <3> HIDE DEF s, r
    <3>6. Holds(Original, a, FlattenSeq(r))
      BY <1>1, <2>1, <3>1, <3>3, <3>4, <3>5, HoldsFirst
    <3> QED BY <3>2, <3>6
  <2>7. Holds(Original, p, BlobBytes(i, q)) /\ p \in Nat
    <3> DEFINE s == BytesTo(i, n)
               t == BlobBytes(i, q)
    <3>1. Holds(Original, a, s \o t) /\ IsSeq(s) /\ IsSeq(t)
      BY <2>3, <2>4, <2>5, <2>6
    <3> HIDE DEF s, t
    <3>2. Holds(Original, a + Len(s), t) /\ a + Len(s) \in Nat
      BY <3>1, HoldsSplit
    <3> QED BY <3>2 DEF s, t
  <2>8. IsSeq(V)
    BY <2>4, IsSeqConcat
  <2>9. PICK h : Plays(BlobOps(i, q), State(p, <<>>, g, V), State(p + Len(BlobBytes(i, q)), <<>>, h, V \o BlobText(i, q)))
    <3> HIDE DEF p, V
    <3> QED BY <2>1, <2>7, <2>8, PlaysColumn
  <2>10. p + Len(BlobBytes(i, q)) = a + Len(BytesTo(i, q))
    <3> DEFINE s == BytesTo(i, n)
               t == BlobBytes(i, q)
               u == Len(s)
               w == Len(t)
               v == Len(BytesTo(i, q))
    <3>1. Len(s \o t) = Len(s) + Len(t)
      <4>1. IsSeq(s) /\ IsSeq(t)
        BY <2>4, <2>5
      <4> HIDE DEF s, t
      <4> QED BY <4>1, IsSeqConcat
    <3>2. v = u + w /\ u \in Nat /\ w \in Nat
      BY <2>3, <2>4, <2>5, <3>1
    <3> HIDE DEF u, w, v
    <3>3. (a + u) + w = a + v
      BY <3>2
    <3> QED BY <3>3 DEF u, w, v
  <2>11. V \o BlobText(i, q) = W \o TextTo(i, q)
    <3> DEFINE s == TextTo(i, n)
               t == BlobText(i, q)
    <3>1. IsSeq(W) /\ IsSeq(s) /\ IsSeq(t)
      BY <2>4, <2>5
    <3> HIDE DEF s, t
    <3>2. (W \o s) \o t = W \o (s \o t)
      BY SMTT(60), <3>1, ConcatAssoc
    <3> QED BY <2>3, <3>2 DEF s, t
  <2>12. Plays(OpsTo(i, q), State(a, <<>>, f, W), State(a + Len(BytesTo(i, q)), <<>>, h, W \o TextTo(i, q)))
    <3> DEFINE x == State(a, <<>>, f, W)
               y == State(p, <<>>, g, V)
               z == State(a + Len(BytesTo(i, q)), <<>>, h, W \o TextTo(i, q))
               s == OpsTo(i, n)
               t == BlobOps(i, q)
    <3>1. Plays(s, x, y) /\ IsSeq(s) /\ IsSeq(t)
      BY <2>2, <2>4, <2>5
    <3>2. Plays(t, y, z)
      <4> HIDE DEF p, V
      <4> QED BY <2>9, <2>10, <2>11
    <3> HIDE DEF x, y, z, s, t
    <3>3. Plays(s \o t, x, z)
      BY <3>1, <3>2, PlaysBoth
    <3> QED BY <2>3, <3>3 DEF x, z, s, t
  <2> QED BY <2>12 DEF Played, q
<1> HIDE DEF P
<1>4. P = Nat
  <2>1. P \in SUBSET Nat
    BY DEF P
  <2> QED BY <1>2, <1>3, <2>1, SetInduction
<1>5. l \in P
  BY <1>1, <1>4
<1>6. l <= l
  BY <1>1
<1> QED BY <1>5, <1>6 DEF P

\* A row, which is read from where the one before it ended.
LEMMA PlaysRow ==
    ASSUME result \in Results, NEW n \in Nat, n < Len(Rows), NEW i, i = n + 1,
           NEW text, text = LevelOf(i).text, IsSeq(text), NEW f, NEW W, IsSeq(W), Whole(i)
    PROVE  /\ \E g : Plays(RowOps(i), State(EndOf(n), <<>>, f, W),
                           State(EndOf(i), <<>>, g, (W \o text) \o Body(i)))
           /\ IsSeq(RowOps(i))
<1> DEFINE e == EndOf(n)
           h == HeadSize
           j == Rows[i].json
           l == Len(Blobs(i))
           head == Bytes("head", h)
           json == Json(i)
           rest == BytesTo(i, l)
           no == <<>>
           one == 1
           k == j - 1
           V == W \o text
           piece == SubSeq(json, 1, k)
           o1 == Op("read", h, no)
           o2 == InjectOp(text)
           o3 == Op("write", k, no)
           o4 == Op("read", one, no)
           x0 == State(e, no, f, W)
           x1 == State(e + h, no, f, W)
           x2 == State(e + h, no, f, V)
           x3 == State(e + h + k, no, f, V \o piece)
           x4 == State(e + h + k + one, no, f, V \o piece)
           four == <<o1, o2, o3, o4>>
           ops4 == OpsTo(i, l)
<1>1. i \in 1 .. Len(Rows) /\ IsRow(Rows[i]) /\ Len(Rows) \in Nat
  <2>1. i \in 1 .. Len(Rows) /\ Len(Rows) \in Nat
    BY RowsAre
  <2> QED BY <2>1, RowsAre
<1>2. /\ h \in Nat /\ j \in Nat /\ k \in Nat /\ k <= j /\ k + 1 = j /\ l \in Nat /\ e \in Nat
      /\ one \in Nat
  <2>1. h \in Nat
    BY StreamAssumption
  <2>2. j \in Nat \ {0}
    BY <1>1 DEF IsRow
  <2>3. l \in Nat
    BY <1>1, BlobsAre
  <2>4. e \in Nat
    <3>1. n \in 0 .. Len(Rows)
      BY <1>1
    <3> QED BY <3>1, EndOfIs
  <2> HIDE DEF j
  <2> QED BY <2>1, <2>2, <2>3, <2>4
<1>3. RowBytes(i) = (head \o json) \o rest
  <2>1. [b \in DOMAIN Blobs(i) |-> BlobBytes(i, b)] = [b \in 1 .. l |-> BlobBytes(i, b)]
    BY <1>1, BlobsAre
  <2> QED BY <2>1 DEF RowBytes, BytesTo
<1>4. RowOps(i) = four \o ops4
  <2>1. \A b \in DOMAIN Blobs(i) : NextBlob(i, b) = BlobOps(i, b)
    <3>1. \A b \in DOMAIN Blobs(i) : ~\E c \in 1 .. b - 1 : Stops(i, c)
      BY <1>1, WholeIs
    <3> QED BY <3>1 DEF NextBlob
  <2>2. [b \in DOMAIN Blobs(i) |-> NextBlob(i, b)] = [b \in DOMAIN Blobs(i) |-> BlobOps(i, b)]
    BY SMTT(60), <2>1
  <2>3. [b \in DOMAIN Blobs(i) |-> BlobOps(i, b)] = [b \in 1 .. l |-> BlobOps(i, b)]
    BY <1>1, BlobsAre
  <2> QED BY <2>2, <2>3 DEF RowOps, OpsTo
<1>5. Body(i) = piece \o TextTo(i, l)
  <2>1. [b \in DOMAIN Blobs(i) |-> BlobText(i, b)] = [b \in 1 .. l |-> BlobText(i, b)]
    BY <1>1, BlobsAre
  <2> QED BY <2>1 DEF Body, TextTo
<1>6. IsSeq(head) /\ IsSeq(json) /\ IsSeq(rest) /\ Len(head) = h /\ Len(json) = j
      /\ IsSeq(ops4) /\ IsSeq(TextTo(i, l)) /\ Len(rest) \in Nat
  <2>1. IsSeq(head) /\ Len(head) = h
    <3>1. head \in Seq({"head"} \X Nat) /\ Len(head) = h
      BY <1>2, BytesType
    <3> HIDE DEF head
    <3> QED BY <3>1, SeqIs
  <2>2. IsSeq(json) /\ Len(json) = j
    <3> DEFINE part == <<"json", i>>
    <3>1. json = Bytes(part, j)
      BY DEF Json
    <3> HIDE DEF part, j, json
    <3>2. Bytes(part, j) \in Seq({part} \X Nat) /\ Len(Bytes(part, j)) = j
      BY <1>2, BytesType
    <3> QED BY <3>1, <3>2, SeqIs
  <2>3. IsSeq(rest) /\ IsSeq(ops4) /\ IsSeq(TextTo(i, l)) /\ Len(rest) \in Nat
    <3>1. l \in 0 .. l
      BY <1>2
    <3> QED BY <1>1, <3>1, ToIs
  <2> HIDE DEF head, json, rest, ops4
  <2> QED BY <2>1, <2>2, <2>3
<1>7. Holds(Original, e, (head \o json) \o rest)
  <2>1. Holds(Original, e, RowBytes(i))
    BY OriginalRow
  <2> QED BY <1>3, <2>1
<1> HIDE DEF h, j, l, head, json, rest, no, k, ops4
<1>8. IsSeq(head \o json) /\ Len(head \o json) = h + j /\ Len((head \o json) \o rest) = (h + j) + Len(rest)
  <2>1. IsSeq(head \o json) /\ Len(head \o json) = h + j
    BY <1>6, IsSeqConcat
  <2> DEFINE hj == head \o json
  <2> HIDE DEF hj
  <2>2. Len(hj \o rest) = Len(hj) + Len(rest)
    BY <1>6, <2>1, IsSeqConcat DEF hj
  <2> QED BY <2>1, <2>2 DEF hj
<1>9. Holds(Original, e + h, json) /\ Holds(Original, e + (h + j), rest)
  <2> DEFINE hj == head \o json
  <2>1. IsSeq(hj) /\ Len(hj) = h + j /\ Holds(Original, e, hj \o rest)
    BY <1>7, <1>8
  <2> HIDE DEF hj, e
  <2>2. Holds(Original, e, hj) /\ Holds(Original, e + Len(hj), rest)
    BY <1>2, <1>6, <2>1, HoldsSplit
  <2>3. Holds(Original, e + Len(head), json)
    BY <1>2, <1>6, <2>2, HoldsSplit DEF hj
  <2> QED BY <1>6, <2>1, <2>2, <2>3
<1> HIDE DEF e
<1>10. SubSeq(Original, e + h + 1, e + h + k) = piece
  <2> DEFINE p == e + h
  <2>1. p \in Nat /\ k <= Len(json) /\ Holds(Original, p, json)
    BY <1>2, <1>6, <1>9
  <2> HIDE DEF p
  <2>2. SubSeq(Original, p + 1, p + k) = SubSeq(json, 1, k)
    BY SMTT(60), <1>2, <1>6, <2>1, HoldsPiece
  <2> QED BY <2>2 DEF p
<1>11. IsSeq(piece) /\ IsSeq(V) /\ IsSeq(V \o piece)
  <2>1. 1 \in Int /\ k \in Int
    BY <1>2
  <2>2. IsSeq(piece)
    BY <2>1, SubSeqIs
  <2>3. IsSeq(V)
    BY IsSeqConcat
  <2> HIDE DEF V, piece
  <2> QED BY <2>2, <2>3, IsSeqConcat
<1>12. e + h \in Nat /\ e + h + k \in Nat /\ e + h + k + one = e + (h + j) /\ e + h + k + one \in Nat
  BY <1>2
<1> HIDE DEF piece, V, one
<1>13. x1 = After(o1, x0)
  BY <1>2, AfterRead
<1>14. x2 = After(o2, x1)
  BY <1>12, AfterInject DEF V
<1>15. x3 = After(o3, x2)
  <2> DEFINE p == e + h
  <2>1. p \in Nat /\ SubSeq(Original, p + 1, p + k) = piece
    BY <1>10, <1>12
  <2>2. x2 = State(p, no, f, V) /\ x3 = State(p + k, no, f, V \o piece)
    OBVIOUS
  <2> HIDE DEF p, x2, x3
  <2>3. After(o3, State(p, no, f, V)) = State(p + k, no, f, V \o SubSeq(Original, p + 1, p + k))
    BY <1>2, <2>1, AfterWrite
  <2> QED BY <2>1, <2>2, <2>3
<1>16. x4 = After(o4, x3)
  <2> DEFINE p == e + h + k
             Y == V \o piece
  <2>1. p \in Nat /\ IsSeq(Y) /\ one \in Nat
    BY <1>2, <1>11, <1>12
  <2> HIDE DEF p, Y
  <2>2. After(o4, State(p, no, f, Y)) = State(p + one, no, f, Y)
    BY <2>1, AfterRead
  <2> QED BY <2>2 DEF p, Y
<1>17. Plays(four, x0, x4) /\ IsSeq(four)
  <2> HIDE DEF o1, o2, o3, o4, x0, x1, x2, x3, x4
  <2> QED BY <1>13, <1>14, <1>15, <1>16, PlaysFour
<1>18. PICK g : Plays(ops4, x4, State(EndOf(i), no, g, (W \o text) \o Body(i)))
  <2> DEFINE p == e + (h + j)
             Y == V \o piece
  <2>1. p \in Nat /\ IsSeq(Y) /\ Holds(Original, p, BytesTo(i, l)) /\ l = Len(Blobs(i))
    BY <1>9, <1>11, <1>12 DEF rest, l
  <2> HIDE DEF p, Y
  <2>2. Played(i, l, p, f, Y)
    BY <1>1, <2>1, PlaysColumns
  <2>3. PICK g : Plays(OpsTo(i, l), State(p, <<>>, f, Y), State(p + Len(BytesTo(i, l)), <<>>, g, Y \o TextTo(i, l)))
    BY <2>2 DEF Played
  <2>4. p + Len(BytesTo(i, l)) = EndOf(i)
    <3> DEFINE w == Len(rest)
               b == Len(RowBytes(i))
    <3>1. EndOf(i) = e + b
      BY EndOfStep DEF e
    <3>2. b = (h + j) + w /\ w \in Nat
      BY SMTT(60), <1>3, <1>6, <1>8
    <3>3. w = Len(BytesTo(i, l))
      BY DEF rest
    <3> HIDE DEF w, b
    <3> QED BY <1>2, <3>1, <3>2, <3>3 DEF p
  <2>5. Y \o TextTo(i, l) = (W \o text) \o Body(i)
    <3> DEFINE t == TextTo(i, l)
    <3>1. IsSeq(t)
      BY <1>6
    <3> HIDE DEF t
    <3>2. (V \o piece) \o t = V \o (piece \o t)
      BY SMTT(60), <1>11, <3>1, ConcatAssoc
    <3> QED BY <1>5, <3>2 DEF t, V, Y, piece
  <2>6. x4 = State(p, no, f, Y)
    BY <1>12 DEF p, Y
  <2> HIDE DEF x4
  <2> QED BY <2>3, <2>4, <2>5, <2>6 DEF no, ops4
<1>19. Plays(RowOps(i), x0, State(EndOf(i), no, g, (W \o text) \o Body(i))) /\ IsSeq(RowOps(i))
  <2> DEFINE z == State(EndOf(i), no, g, (W \o text) \o Body(i))
  <2> HIDE DEF z, four, x0, x4
  <2>1. Plays(four \o ops4, x0, z) /\ IsSeq(four \o ops4)
    BY <1>6, <1>17, <1>18, PlaysBoth, IsSeqConcat DEF z
  <2> QED BY <1>4, <2>1 DEF z
<1> QED BY <1>19 DEF no, e

----------------------------------------------------------------------------
(* What is the same as long as the result is                               *)
LEMMA Rigid ==
    ASSUME UNCHANGED result
    PROVE  /\ Rows' = Rows /\ Original' = Original
           /\ \A i, b : Content(i, b)' = Content(i, b)
           /\ \A i : Blobs(i)' = Blobs(i)
<1>1. Rows' = Rows
  BY DEF Rows
<1>2. Original' = Original
  BY <1>1 DEF Original, Sent, RowBytes, Json, BlobBytes, Blobs, Prefetched, Content, Bytes, Min2
<1>3. \A i, b : Content(i, b)' = Content(i, b)
  BY <1>1 DEF Content, Blobs, Bytes
<1>4. \A i : Blobs(i)' = Blobs(i)
  BY <1>1 DEF Blobs
<1> QED BY <1>1, <1>2, <1>3, <1>4

LEMMA RigidAfter ==
    ASSUME UNCHANGED result
    PROVE  \A o, s : After(o, s)' = After(o, s)
<1> SUFFICES ASSUME NEW o, NEW s PROVE After(o, s)' = After(o, s)
  OBVIOUS
<1>1. Original' = Original
  BY Rigid
<1>2. \A i, b : Content(i, b)' = Content(i, b)
  BY Rigid
<1>3. \A i : Blobs(i)' = Blobs(i)
  BY Rigid
<1>4. ToEncode(o, s)' = ToEncode(o, s)
  BY <1>1 DEF ToEncode
<1>5. LeftOfLob(o, s)' = LeftOfLob(o, s)
  BY <1>2, <1>3 DEF LeftOfLob
<1>6. TextOf(o, s)' = TextOf(o, s)
  BY <1>1, <1>4, <1>5 DEF TextOf
<1>7. PendingOf(o, s)' = PendingOf(o, s)
  BY <1>4, <1>5 DEF PendingOf
<1> QED BY <1>6, <1>7 DEF After

LEMMA RigidPlays ==
    ASSUME UNCHANGED result
    PROVE  \A s, x, y : Plays(s, x, y)' <=> Plays(s, x, y)
<1>1. \A o, s : After(o, s)' = After(o, s)
  BY RigidAfter
<1>2. ASSUME NEW s, NEW x, NEW y PROVE Plays(s, x, y)' <=> Plays(s, x, y)
  BY <1>1 DEF Plays, PlayedBy
<1> QED BY <1>2

LEMMA RigidExpected ==
    ASSUME UNCHANGED <<result, mode>>
    PROVE  \A n : Expected(n)' = Expected(n)
<1>1. Rows' = Rows
  BY DEF Rows
<1>2. ASSUME NEW n PROVE Expected(n)' = Expected(n)
  BY <1>1 DEF Expected, Of, HasProperties, Json, BlobText, Blobs, Separator, Content, Bytes, List, Member
<1> QED BY <1>2

LEMMA RigidDown ==
    ASSUME UNCHANGED <<result, mode>>
    PROVE  /\ \A n, k : Down(n, k)' = Down(n, k)
           /\ RowsSound' <=> RowsSound
<1>1. Rows' = Rows
  BY DEF Rows
<1>2. \A r : PathOf(r)' = PathOf(r)
  BY <1>1 DEF PathOf
<1>3. \A n, k : Anc(n, k)' = Anc(n, k)
  BY <1>1, <1>2 DEF Anc, IsAnc, PathOf
<1>4. \A n, k : IsMany(n, k)' = IsMany(n, k)
  <2> SUFFICES ASSUME NEW n, NEW k PROVE IsMany(n, k)' = IsMany(n, k)
    OBVIOUS
  <2>1. Anc(n, k - 1)' = Anc(n, k - 1) /\ PathOf(n)' = PathOf(n)
    BY <1>2, <1>3
  <2> QED BY <1>1, <2>1 DEF IsMany
<1>5. \A n, i : RowLevel(n, i)' = RowLevel(n, i)
  <2> SUFFICES ASSUME NEW n, NEW i PROVE RowLevel(n, i)' = RowLevel(n, i)
    OBVIOUS
  <2> QED BY <1>1 DEF RowLevel, Level, Unfilled, Filled, Of, HasProperties, Blobs, PathOf
<1>6. \A n, k : Up(n, k)' = Up(n, k)
  <2> SUFFICES ASSUME NEW n, NEW k PROVE Up(n, k)' = Up(n, k)
    OBVIOUS
  <2>1. Anc(n, k)' = Anc(n, k) /\ IsMany(n, k)' = IsMany(n, k)
    BY <1>3, <1>4
  <2>2. RowLevel(n, Anc(n, k))' = RowLevel(n, Anc(n, k))
    BY <1>1, <2>1 DEF RowLevel, Level, Unfilled, Filled, Of, HasProperties, Blobs, PathOf
  <2> QED BY <2>1, <2>2 DEF Up
<1>7. \A n, k : Down(n, k)' = Down(n, k)
  <2> SUFFICES ASSUME NEW n, NEW k PROVE Down(n, k)' = Down(n, k)
    OBVIOUS
  <2>1. PathOf(n)' = PathOf(n)
    BY <1>2
  <2>2. [i \in 1 .. Len(PathOf(n)) - k |-> Up(n, Len(PathOf(n)) + 1 - i)]'
        = [i \in 1 .. Len(PathOf(n)) - k |-> Up(n, Len(PathOf(n)) + 1 - i)]
    BY <1>6, <2>1
  <2> QED BY <2>2 DEF Down
<1>8. RowsSound' <=> RowsSound
  BY <1>1 DEF RowsSound, InPathOrder
<1> QED BY <1>7, <1>8

LEMMA RigidLevels ==
    ASSUME UNCHANGED <<result, mode>>
    PROVE  \A L, n : Describes(L, n)' <=> Describes(L, n)
<1>1. Rows' = Rows
  BY DEF Rows
<1> SUFFICES ASSUME NEW L, NEW n PROVE Describes(L, n)' <=> Describes(L, n)
  OBVIOUS
<1> QED BY <1>1 DEF Describes, Fits, ListLevel, RowLevel, Level, Unfilled, Filled, Of, HasProperties,
              Blobs, PathOf, Anc, IsAnc, IsMany, Up, Elements, Kids

----------------------------------------------------------------------------
(* What a raw stream gives: the invariant                                  *)
Closing == ops # <<>> /\ ops[Len(ops)].name = "close"
\* A readLob that does not get the rest of a LOB is repeated for ever.
Stuck == ops # <<>> /\ Head(ops).name = "lob" /\ ~IsLast(Head(ops).arg[1], Head(ops).arg[2])
Now == State(reading, pending, prefetch, Written)
\* What is still to be read is as HANA sent it.
Fresh == \A a \in reading + 1 .. Len(mem) : mem[a] = Original[a]
\* What the steps lead to.
Leads(fin) ==
    /\ Closing => fin.text = Expected(row)
    /\ ~Closing => /\ fin.pend = <<>> /\ Describes(levels, row)
                   /\ fin.text \o Down(row, 0) = Expected(row)
GoesOn == \E fin : Plays(ops, Now, fin) /\ Leads(fin)
RawOK ==
    /\ Fresh
    /\ ended # "no" => ops = <<>> /\ Output = Expected(row) /\ (ended = "end" => row = Len(Rows))
    /\ ended = "no" => Stuck \/ GoesOn
    /\ Closing /\ ops[Len(ops)].arg = "end" => row = Len(Rows)
\* No row was left before its end.
AllRead == \A j \in 1 .. row : Whole(j)
RawInv == IsRaw /\ ~inPlace /\ RowsSound /\ AllRead /\ ended # "thrown" => RawOK
\* The stream ends only if that is so: else it does not get to the end of a
\* buffer, but misreads what is left of a row.
EndsRead == IsRaw /\ (Closing \/ ended \in {"end", "error"}) => AllRead

LEMMA ClosingTail ==
    ASSUME OpsOK, ops # <<>>, ops' = Tail(ops), Head(ops).name # "close"
    PROVE  /\ Closing' <=> Closing
           /\ Closing => ops'[Len(ops')] = ops[Len(ops)]
<1>1. IsSeq(ops) /\ Len(ops) \in Nat /\ DOMAIN ops = 1 .. Len(ops) /\ Len(ops) # 0 /\ Head(ops) = ops[1]
  BY IsSeqLen DEF OpsOK, IsSeq
<1>2. Len(ops') = Len(ops) - 1 /\ \A k \in 1 .. Len(ops) - 1 : ops'[k] = ops[k + 1]
  <2>1. ops \in Seq(Range(ops))
    BY <1>1 DEF IsSeq
  <2> QED BY <1>1, <2>1
<1>3. ops' # <<>> <=> Len(ops) > 1
  <2>1. Tail(ops) \in Seq(Range(ops))
    BY <1>1 DEF IsSeq
  <2>2. Tail(ops) # <<>> <=> Len(Tail(ops)) # 0
    <3> DEFINE t == Tail(ops)
               S == Range(ops)
    <3>1. t \in Seq(S)
      BY <2>1
    <3> HIDE DEF t, S
    <3>2. t # <<>> <=> Len(t) # 0
      BY <3>1, EmptySeq
    <3> QED BY <3>2 DEF t
  <2>3. Len(Tail(ops)) = Len(ops) - 1
    BY <1>2
  <2>4. Len(ops) - 1 # 0 <=> Len(ops) > 1
    <3> DEFINE l == Len(ops)
    <3>1. l \in Nat /\ l # 0
      BY <1>1
    <3> HIDE DEF l
    <3> QED BY SMTT(60), <3>1 DEF l
  <2> QED BY <2>2, <2>3, <2>4
<1>4. CASE Len(ops) > 1
  <2>1. ops'[Len(ops')] = ops[Len(ops)]
    BY <1>1, <1>2, <1>4
  <2> QED BY <1>3, <1>4, <2>1 DEF Closing
<1>5. CASE ~(Len(ops) > 1)
  <2>1. Len(ops) = 1
    BY <1>1, <1>5
  <2> QED BY <1>1, <1>3, <1>5, <2>1 DEF Closing
<1> QED BY <1>4, <1>5

\* A step is done as it was foreseen.
LEMMA StepDone ==
    ASSUME StreamInv, RawOK, ended = "no", ops # <<>>, ~Stuck, Head(ops).name # "close",
           UNCHANGED <<result, mode, row, levels, ended>>, ops' = Tail(ops),
           Now' = After(Head(ops), Now), Fresh'
    PROVE  RawOK'
<1>1. PICK fin : Plays(ops, Now, fin) /\ Leads(fin)
  BY DEF RawOK, GoesOn
<1>2. OpsOK /\ IsSeq(ops)
  BY DEF StreamInv, OpsOK
<1>3. Plays(ops', Now', fin)
  BY <1>1, <1>2, PlaysTail
<1>4. Plays(ops, Now, fin)'
  <2>1. \A s, x, y : Plays(s, x, y)' <=> Plays(s, x, y)
    BY RigidPlays
  <2> QED BY <1>3, <2>1
<1>5. Closing' <=> Closing
  BY <1>2, ClosingTail
<1>6. Expected(row)' = Expected(row)
  <2>1. \A n : Expected(n)' = Expected(n)
    BY RigidExpected
  <2> QED BY <2>1
<1>7. Down(row, 0)' = Down(row, 0)
  <2>1. \A n, k : Down(n, k)' = Down(n, k)
    BY RigidDown
  <2> QED BY <2>1
<1>8. Describes(levels, row)' <=> Describes(levels, row)
  <2>1. \A n : Describes(levels, n)' <=> Describes(levels, n)
    BY RigidLevels
  <2> QED BY <2>1
<1>9. Leads(fin)'
  BY <1>1, <1>5, <1>6, <1>7, <1>8 DEF Leads
<1>10. Rows' = Rows
  BY Rigid
<1>11. (Closing /\ ops[Len(ops)].arg = "end" => row = Len(Rows))'
  <2>1. Closing => ops'[Len(ops')] = ops[Len(ops)]
    BY <1>2, ClosingTail
  <2>2. Closing /\ ops[Len(ops)].arg = "end" => row = Len(Rows)
    BY DEF RawOK
  <2> QED BY <1>5, <1>10, <2>1, <2>2
<1>12. GoesOn'
  BY <1>4, <1>9 DEF GoesOn
<1> QED BY <1>11, <1>12 DEF RawOK

----------------------------------------------------------------------------
(* Each step preserves the invariant                                       *)
LEMMA AfterNamed ==
    ASSUME NEW o, NEW a \in Nat, NEW p, NEW f, NEW W, IsSeq(W), NEW s, s = State(a, p, f, W)
    PROVE  /\ o.name = "inject" /\ o.n = 0 => After(o, s) = State(a, p, f, W \o o.arg)
           /\ o.name = "read" => After(o, s) = State(a + o.n, p, f, W)
           /\ o.name = "write" => After(o, s) = State(a + o.n, p, f, W \o SubSeq(Original, a + 1, a + o.n))
           /\ o.name = "encode" => After(o, s) = State(a + o.n, Rest(ToEncode(o, s)), o.n, W \o Encoded(ToEncode(o, s)))
           /\ o.name = "lob" /\ o.n = 0 => After(o, s) = State(a, Rest(LeftOfLob(o, s)), f, W \o Encoded(LeftOfLob(o, s)))
           /\ o.name = "end" /\ o.n = 0 => After(o, s) = State(a, <<>>, f, W \o EncodedEnd(p))
<1>1. s.at = a /\ s.pend = p /\ s.pre = f /\ s.text = W
  BY StateIs
<1>2. o.n = 0 => a + o.n = a
  OBVIOUS
<1>3. W \o <<>> = W
  BY ConcatNone
<1>4. o.name = "inject" /\ o.n = 0 => After(o, s) = State(a, p, f, W \o o.arg)
  BY <1>1, <1>2 DEF After, TextOf, PendingOf
<1>5. o.name = "read" => After(o, s) = State(a + o.n, p, f, W)
  BY <1>1, <1>3 DEF After, TextOf, PendingOf
<1>6. o.name = "write" => After(o, s) = State(a + o.n, p, f, W \o SubSeq(Original, a + 1, a + o.n))
  BY <1>1 DEF After, TextOf, PendingOf
<1>7. o.name = "encode" => After(o, s) = State(a + o.n, Rest(ToEncode(o, s)), o.n, W \o Encoded(ToEncode(o, s)))
  BY <1>1 DEF After, TextOf, PendingOf
<1>8. o.name = "lob" /\ o.n = 0 => After(o, s) = State(a, Rest(LeftOfLob(o, s)), f, W \o Encoded(LeftOfLob(o, s)))
  BY <1>1, <1>2 DEF After, TextOf, PendingOf
<1>9. o.name = "end" /\ o.n = 0 => After(o, s) = State(a, <<>>, f, W \o EncodedEnd(p))
  BY <1>1, <1>2 DEF After, TextOf, PendingOf
<1> QED BY <1>4, <1>5, <1>6, <1>7, <1>8, <1>9

\* What the invariant says of positions and memory.
LEMMA NowIs ==
    ASSUME StreamInv
    PROVE  /\ InMemory /\ IsSeq(mem) /\ reading \in Nat /\ writing \in Nat /\ base \in Nat
           /\ writing <= reading /\ base <= writing /\ reading <= Len(mem) /\ Len(mem) \in Nat
           /\ IsSeq(Written) /\ IsSeq(Output) /\ IsSeq(pending)
           /\ Now = State(reading, pending, prefetch, Written)
<1>1. InMemory
  BY PlacedIs
<1>2. reading <= Len(mem)
  BY WithinMemory
<1>3. reading \in Nat /\ writing \in Nat /\ base \in Nat /\ writing <= reading /\ base <= writing
  BY DEF StreamInv, Positions
<1>4. IsSeq(mem) /\ IsSeq(pending)
  BY DEF StreamInv, Memory
<1> QED BY <1>1, <1>2, <1>3, <1>4, WrittenIs, IsSeqLen DEF Now

LEMMA InjectWrites ==
    ASSUME StreamInv, Fresh, NEW text, IsSeq(text), Inject(text), UNCHANGED <<result, reading>>
    PROVE  Written' = Written \o text /\ Fresh'
<1>1. /\ InMemory /\ IsSeq(mem) /\ reading \in Nat /\ writing \in Nat /\ base \in Nat
      /\ writing <= reading /\ reading <= Len(mem) /\ Len(mem) \in Nat /\ IsSeq(Written)
  BY NowIs
<1>2. Original' = Original
  BY Rigid
<1>3. CASE text = <<>>
  <2>1. UNCHANGED <<mem, base, writing, pushed>>
    BY <1>3 DEF Inject
  <2>2. Written' = Written
    BY <2>1 DEF Written, Output
  <2>3. Written \o text = Written
    BY <1>1, <1>3, ConcatNone
  <2>4. Fresh'
    BY <1>2, <2>1 DEF Fresh
  <2> QED BY <2>2, <2>3, <2>4
<1>4. CASE text # <<>> /\ writing + Len(text) > reading
  <2>1. /\ pushed' = pushed \o <<View(base, writing), Text(text)>>
        /\ base' = reading /\ writing' = reading /\ UNCHANGED mem
    BY <1>4 DEF Inject
  <2>2. base' \in Nat /\ writing' = base' /\ writing <= writing'
    BY <1>1, <2>1
  <2>3. Written' = Written \o text
    BY <1>1, <2>1, <2>2, WrittenTwo
  <2>4. Fresh'
    BY <1>2, <2>1 DEF Fresh
  <2> QED BY <2>3, <2>4
<1>5. CASE text # <<>> /\ ~(writing + Len(text) > reading)
  <2>1. Put(writing, text) /\ writing' = writing + Len(text) /\ UNCHANGED <<base, pushed>>
    BY <1>5 DEF Inject
  <2>2. Len(text) \in Nat
    BY IsSeqLen
  <2> DEFINE l == Len(text)
             m == Len(mem)
  <2>3. l \in Nat /\ m \in Nat /\ ~(writing + l > reading) /\ reading <= m /\ writing' = writing + l
    BY <1>1, <1>5, <2>1, <2>2
  <2>4. writing + l <= reading /\ writing + l <= m /\ writing' <= m
    <3> HIDE DEF l, m
    <3> QED BY <1>1, <2>3
  <2>5. Written' = Written \o text
    BY <1>1, <2>1, <2>4, WrittenPut
  <2>6. /\ Len(mem') = Len(mem)
        /\ \A a \in writing + l + 1 .. m : mem'[a] = mem[a]
    BY <1>1, <2>1, <2>4, PutWrites
  <2>7. Fresh'
    <3>1. \A a \in reading + 1 .. m : mem'[a] = Original[a]
      <4> SUFFICES ASSUME NEW a \in reading + 1 .. m PROVE mem'[a] = Original[a]
        OBVIOUS
      <4>1. mem[a] = Original[a]
        BY DEF Fresh
      <4>2. a \in writing + l + 1 .. m
        <5> HIDE DEF l, m
        <5> QED BY <1>1, <2>3, <2>4
      <4> QED BY <2>6, <4>1, <4>2
    <3> QED BY <1>2, <2>6, <3>1 DEF Fresh
  <2> QED BY <2>5, <2>7
<1> QED BY <1>3, <1>4, <1>5

\* The next step of a row.
LEMMA HeadIs ==
    ASSUME StreamInv, RawOK, ops # <<>>
    PROVE  /\ ended = "no"
           /\ Head(ops).name # "close" => RowStep(Head(ops))
           /\ Head(ops).n \in Nat
<1>1. OpsOK
  BY DEF StreamInv
<1>2. RowStep(Head(ops)) \/ CloseStep(Head(ops))
  BY <1>1, OpsTail
<1>3. ended = "no"
  BY DEF RawOK
<1>4. Head(ops).n \in Nat
  BY <1>1, OpsTail
<1> QED BY <1>2, <1>3, <1>4 DEF CloseStep

LEMMA NowAfter ==
    ASSUME StreamInv
    PROVE  /\ Now' = State(reading', pending', prefetch', Written')
           /\ \A o : /\ o.name = "inject" /\ o.n = 0 => After(o, Now) = State(reading, pending, prefetch, Written \o o.arg)
                     /\ o.name = "read" => After(o, Now) = State(reading + o.n, pending, prefetch, Written)
                     /\ o.name = "write" => After(o, Now) = State(reading + o.n, pending, prefetch, Written \o SubSeq(Original, reading + 1, reading + o.n))
                     /\ o.name = "encode" => After(o, Now) = State(reading + o.n, Rest(ToEncode(o, Now)), o.n, Written \o Encoded(ToEncode(o, Now)))
                     /\ o.name = "lob" /\ o.n = 0 => After(o, Now) = State(reading, Rest(LeftOfLob(o, Now)), prefetch, Written \o Encoded(LeftOfLob(o, Now)))
                     /\ o.name = "end" /\ o.n = 0 => After(o, Now) = State(reading, <<>>, prefetch, Written \o EncodedEnd(pending))
<1>1. reading \in Nat /\ IsSeq(Written) /\ Now = State(reading, pending, prefetch, Written)
  BY NowIs
<1>2. Now' = State(reading', pending', prefetch', Written')
  BY DEF Now, State
<1> QED BY <1>1, <1>2, AfterNamed

LEMMA RawOKInject == ASSUME StreamInv, RawOK, RawInject PROVE RawOK'
<1> DEFINE o == Head(ops)
           text == o.arg
<1>1. /\ ops # <<>> /\ o.name = "inject" /\ ops' = Tail(ops) /\ Inject(text)
      /\ UNCHANGED <<result, mode, row, levels, reading, pending, prefetch, ended>>
  BY DEF RawInject
<1>2. ended = "no" /\ RowStep(o) /\ ~Stuck
  BY <1>1, HeadIs DEF Stuck
<1>3. IsSeq(text) /\ o.n = 0 /\ Fresh
  BY <1>1, <1>2 DEF RowStep, RawOK
<1>4. Written' = Written \o text /\ Fresh'
  BY <1>1, <1>3, InjectWrites
<1>5. Now' = After(o, Now)
  BY <1>1, <1>3, <1>4, NowAfter
<1> QED BY <1>1, <1>2, <1>4, <1>5, StepDone

LEMMA RawOKRead == ASSUME StreamInv, RawOK, RawRead PROVE RawOK'
<1> DEFINE o == Head(ops)
<1>1. /\ ops # <<>> /\ o.name = "read" /\ ops' = Tail(ops) /\ reading' = reading + o.n
      /\ UNCHANGED <<result, mode, row, levels, mem, base, writing, pushed, pending, prefetch, ended>>
  BY DEF RawRead
<1>2. ended = "no" /\ RowStep(o) /\ ~Stuck /\ o.n \in Nat
  BY <1>1, HeadIs DEF Stuck
<1>3. Written' = Written
  BY <1>1 DEF Written, Output
<1>4. Fresh'
  <2>1. Fresh /\ Original' = Original /\ reading \in Nat
    BY <1>1, Rigid, NowIs DEF RawOK
  <2> DEFINE n == o.n
  <2>2. n \in Nat /\ reading' = reading + n
    BY <1>1, <1>2
  <2> HIDE DEF n
  <2>3. \A a \in reading' + 1 .. Len(mem) : a \in reading + 1 .. Len(mem)
    BY <2>1, <2>2
  <2> QED BY <1>1, <2>1, <2>3 DEF Fresh
<1>5. Now' = After(o, Now)
  BY <1>1, <1>3, NowAfter
<1> QED BY <1>1, <1>2, <1>4, <1>5, StepDone

LEMMA RawOKEnd == ASSUME StreamInv, RawOK, RawEncodeEnd PROVE RawOK'
<1> DEFINE o == Head(ops)
           text == EncodedEnd(pending)
<1>1. /\ ops # <<>> /\ o.name = "end" /\ ops' = Tail(ops) /\ Inject(text) /\ pending' = <<>>
      /\ UNCHANGED <<result, mode, row, levels, reading, prefetch, ended>>
  BY DEF RawEncodeEnd
<1>2. ended = "no" /\ RowStep(o) /\ ~Stuck
  BY <1>1, HeadIs DEF Stuck
<1>3. IsSeq(text) /\ o.n = 0 /\ Fresh
  <2>1. IsSeq(pending)
    BY NowIs
  <2>2. IsSeq(text)
    BY <2>1, EncodedIs
  <2> QED BY <1>1, <1>2, <2>2 DEF RowStep, RawOK
<1>4. Written' = Written \o text /\ Fresh'
  BY <1>1, <1>3, InjectWrites
<1>5. Now' = After(o, Now)
  BY <1>1, <1>3, <1>4, NowAfter
<1> QED BY <1>1, <1>2, <1>4, <1>5, StepDone

LEMMA FreshPiece ==
    ASSUME StreamInv, Fresh, NEW n \in Nat, reading + n <= Len(mem)
    PROVE  /\ SubSeq(mem, reading + 1, reading + n) = SubSeq(Original, reading + 1, reading + n)
           /\ IsSeq(SubSeq(mem, reading + 1, reading + n))
           /\ Len(SubSeq(mem, reading + 1, reading + n)) = n
<1> DEFINE l == Len(mem)
           b == reading + n
<1>1. reading \in Nat /\ l \in Nat /\ b \in Nat /\ reading <= b /\ b <= l /\ b - reading = n
  BY NowIs
<1>2. \A k \in reading + 1 .. b : mem[k] = Original[k]
  <2>1. \A k \in reading + 1 .. l : mem[k] = Original[k]
    BY DEF Fresh
  <2> HIDE DEF l, b
  <2> QED BY <1>1, <2>1
<1> HIDE DEF l, b
<1>3. SubSeq(mem, reading + 1, b) = SubSeq(Original, reading + 1, b)
  BY <1>1, <1>2, PieceSame
<1>4. IsSeq(SubSeq(mem, reading + 1, b)) /\ Len(SubSeq(mem, reading + 1, b)) = n
  BY <1>1, PieceIs
<1> QED BY <1>3, <1>4 DEF b

LEMMA RawOKWrite == ASSUME StreamInv, RawOK, RawWrite, StreamInv' PROVE RawOK'
<1> DEFINE o == Head(ops)
           n == o.n
           text == SubSeq(mem, reading + 1, reading + n)
           l == Len(mem)
<1>1. /\ ops # <<>> /\ o.name = "write" /\ ops' = Tail(ops)
      /\ Put(writing, text) /\ writing' = writing + n /\ reading' = reading + n
      /\ UNCHANGED <<result, mode, row, levels, base, pushed, pending, prefetch, ended>>
  BY DEF RawWrite
<1>2. ended = "no" /\ RowStep(o) /\ ~Stuck /\ n \in Nat
  BY <1>1, HeadIs DEF Stuck
<1>3. /\ InMemory /\ IsSeq(mem) /\ reading \in Nat /\ writing \in Nat
      /\ writing <= reading /\ reading <= l /\ l \in Nat /\ IsSeq(Written)
  BY NowIs
<1>4. l = EndOf(Len(Rows)) /\ Len(mem') = l
  <2>1. Len(mem) = EndOf(Len(Rows)) /\ (Len(mem) = EndOf(Len(Rows)))'
    BY DEF StreamInv, Memory
  <2>2. EndOf(Len(Rows))' = EndOf(Len(Rows))
    <3>1. Rows' = Rows /\ \A i \in Nat : EndOf(i)' = EndOf(i)
      BY <1>1, Unchanged
    <3>2. Len(Rows) \in Nat
      BY RowsAre DEF StreamInv
    <3> QED BY <3>1, <3>2
  <2> QED BY <2>1, <2>2
<1>5. reading + n <= l
  <2>1. (reading <= Len(mem))'
    <3>1. TypeOK'
      BY InvTypeOK, PTL
    <3> QED BY <3>1 DEF TypeOK
  <2> QED BY <1>1, <1>4, <2>1
<1>6. text = SubSeq(Original, reading + 1, reading + n) /\ IsSeq(text) /\ Len(text) = n
  BY <1>2, <1>5, FreshPiece DEF RawOK
<1>7. Written' = Written \o text
  <2>1. writing' = writing + Len(text)
    BY <1>1, <1>6
  <2>2. writing' <= Len(mem)
    <3> HIDE DEF n, l
    <3>1. writing + n <= l
      BY <1>2, <1>3, <1>5
    <3> QED BY <1>1, <3>1 DEF l, n
  <2>3. Put(writing, text) /\ UNCHANGED <<base, pushed>>
    BY <1>1
  <2> HIDE DEF text
  <2> QED BY <1>3, <1>6, <2>1, <2>2, <2>3, WrittenPut
<1>8. Fresh'
  <2>1. Original' = Original
    BY <1>1, Rigid
  <2>2. writing + Len(text) <= Len(mem)
    <3> HIDE DEF n, l
    <3>1. writing + n <= l
      BY <1>2, <1>3, <1>5
    <3> QED BY <1>6, <3>1 DEF l, n
  <2>3. \A a \in writing + Len(text) + 1 .. Len(mem) : mem'[a] = mem[a]
    <3>1. Put(writing, text)
      BY <1>1
    <3> HIDE DEF text
    <3> QED BY <1>3, <1>6, <2>2, <3>1, PutWrites
  <2>4. \A a \in writing + n + 1 .. l : mem'[a] = mem[a]
    BY <1>6, <2>3
  <2>5. \A a \in reading + 1 .. l : mem[a] = Original[a]
    BY DEF Fresh, RawOK
  <2>6. \A a \in (reading + n) + 1 .. l : mem'[a] = Original[a]
    <3> HIDE DEF n, l
    <3> SUFFICES ASSUME NEW a \in (reading + n) + 1 .. l PROVE mem'[a] = Original[a]
      OBVIOUS
    <3>1. a \in reading + 1 .. l /\ a \in writing + n + 1 .. l
      BY <1>2, <1>3
    <3> QED BY <2>4, <2>5, <3>1
  <2> QED BY <1>1, <1>4, <2>1, <2>6 DEF Fresh
<1>9. Now' = After(o, Now)
  <2>1. After(o, Now) = State(reading + n, pending, prefetch, Written \o text)
    BY <1>1, <1>6, NowAfter
  <2>2. Now' = State(reading', pending', prefetch', Written')
    BY NowAfter
  <2> HIDE DEF text, n
  <2> QED BY <1>1, <1>7, <2>1, <2>2
<1> QED BY <1>1, <1>2, <1>8, <1>9, StepDone

\* Memory stays, so it is not read beyond its end.
LEMMA ReadingWithin ==
    ASSUME StreamInv', UNCHANGED mem
    PROVE  reading' <= Len(mem)
<1>1. TypeOK'
  BY InvTypeOK, PTL
<1> QED BY <1>1 DEF TypeOK

LEMMA RawOKEncode == ASSUME StreamInv, RawOK, RawEncode, StreamInv', ~inPlace' PROVE RawOK'
<1> DEFINE o == Head(ops)
           n == o.n
           bytes == pending \o SubSeq(mem, reading + 1, reading + n)
           text == Encoded(bytes)
           after == writing + Len(text)
<1>1. /\ ops # <<>> /\ o.name = "encode" /\ ops' = Tail(ops)
      /\ pending' = Rest(bytes) /\ prefetch' = n /\ reading' = reading + n
      /\ UNCHANGED <<result, mode, row, levels, mem, ended>>
      /\ pushed' = pushed \o <<View(base, writing), Text(text)>>
      /\ base' = reading' /\ writing' = reading'
  <2>1. IF after > BufferEnd \/ after > reading'
        THEN /\ pushed' = pushed \o <<View(base, writing), Text(text)>>
             /\ base' = reading' /\ writing' = reading'
             /\ UNCHANGED inPlace
        ELSE /\ writing' = after
             /\ inPlace' = TRUE
             /\ UNCHANGED <<base, pushed>>
    BY DEF RawEncode
  <2>2. /\ ops # <<>> /\ o.name = "encode" /\ ops' = Tail(ops)
        /\ pending' = Rest(bytes) /\ prefetch' = n /\ reading' = reading + n
        /\ UNCHANGED <<result, mode, row, levels, mem, ended>>
    BY DEF RawEncode
  <2> HIDE DEF text, after, n, bytes, o
  <2> QED BY <2>1, <2>2
<1>2. ended = "no" /\ RowStep(o) /\ ~Stuck /\ n \in Nat
  BY <1>1, HeadIs DEF Stuck
<1>3. /\ InMemory /\ reading \in Nat /\ writing \in Nat /\ writing <= reading
      /\ IsSeq(Written) /\ IsSeq(pending) /\ Now = State(reading, pending, prefetch, Written)
  BY NowIs
<1>4. reading + n <= Len(mem)
  BY <1>1, ReadingWithin
<1>5. bytes = ToEncode(o, Now) /\ IsSeq(bytes)
  <2>1. /\ SubSeq(mem, reading + 1, reading + n) = SubSeq(Original, reading + 1, reading + n)
        /\ IsSeq(SubSeq(mem, reading + 1, reading + n))
    BY <1>2, <1>4, FreshPiece DEF RawOK
  <2>2. Now.at = reading /\ Now.pend = pending
    BY <1>3, StateIs
  <2>3. bytes = ToEncode(o, Now)
    BY <2>1, <2>2 DEF ToEncode
  <2> DEFINE piece == SubSeq(mem, reading + 1, reading + n)
  <2>4. IsSeq(pending \o piece)
    <3>1. IsSeq(piece)
      BY <2>1
    <3> HIDE DEF piece
    <3> QED BY <1>3, <3>1, IsSeqConcat
  <2> QED BY <2>3, <2>4
<1> HIDE DEF bytes
<1>6. IsSeq(text)
  BY <1>5, EncodedIs
<1>7. Written' = Written \o text
  <2>1. base' \in Nat /\ writing' = base' /\ writing <= writing'
    <3> HIDE DEF n
    <3> QED BY <1>1, <1>2, <1>3
  <2>2. pushed' = pushed \o <<View(base, writing), Text(text)>> /\ UNCHANGED mem
    BY <1>1
  <2> HIDE DEF text
  <2> QED BY <1>3, <1>6, <2>1, <2>2, WrittenTwo
<1>8. Fresh'
  <2>1. Original' = Original /\ Fresh
    BY <1>1, Rigid DEF RawOK
  <2>2. \A a \in reading' + 1 .. Len(mem) : a \in reading + 1 .. Len(mem)
    <3> HIDE DEF n
    <3> QED BY <1>1, <1>2, <1>3
  <2> QED BY <1>1, <2>1, <2>2 DEF Fresh
<1>9. Now' = After(o, Now)
  <2>1. After(o, Now) = State(reading + n, Rest(bytes), n, Written \o text)
    BY <1>1, <1>5, NowAfter
  <2>2. Now' = State(reading', pending', prefetch', Written')
    BY NowAfter
  <2> HIDE DEF text, n
  <2> QED BY <1>1, <1>7, <2>1, <2>2
<1> QED BY <1>1, <1>2, <1>8, <1>9, StepDone

LEMMA RawOKLob == ASSUME StreamInv, RawOK, RawLob PROVE RawOK'
<1> DEFINE o == Head(ops)
           i == o.arg[1]
           b == o.arg[2]
           bytes == pending \o Reply(i, b)
           text == Encoded(bytes)
<1>1. /\ ops # <<>> /\ o.name = "lob"
      /\ ops' = IF IsLast(i, b) THEN Tail(ops) ELSE ops
      /\ Inject(text) /\ pending' = Rest(bytes)
      /\ UNCHANGED <<result, mode, row, levels, reading, prefetch, inPlace, ended>>
  BY DEF RawLob
<1>2. ended = "no" /\ RowStep(o)
  BY <1>1, HeadIs
<1>3. o.n = 0 /\ IsLob(i, b) /\ Fresh
  BY <1>1, <1>2 DEF RowStep, RawOK
<1>4. IsSeq(bytes) /\ IsSeq(text)
  <2>1. IsSeq(pending)
    BY NowIs
  <2>2. IsSeq(Reply(i, b))
    <3> DEFINE x == prefetch + 1
               y == Min2(prefetch + LobRead, Blobs(i)[b])
    <3>1. x \in Int /\ y \in Int
      <4>1. prefetch \in Nat /\ LobRead \in Nat /\ Blobs(i)[b] \in Nat
        BY <1>3, StreamAssumption DEF StreamInv, IsLob
      <4> QED BY <4>1 DEF Min2
    <3>2. Reply(i, b) = SubSeq(Content(i, b), x, y)
      BY DEF Reply
    <3> HIDE DEF x, y
    <3> QED BY <3>1, <3>2, SubSeqIs
  <2>3. IsSeq(bytes)
    <3> DEFINE r == Reply(i, b)
    <3>1. IsSeq(r)
      BY <2>2
    <3> HIDE DEF r
    <3>2. IsSeq(pending \o r)
      BY <2>1, <3>1, IsSeqConcat
    <3> QED BY <3>2 DEF r
  <2> HIDE DEF bytes
  <2> QED BY <2>3, EncodedIs
<1>5. Written' = Written \o text /\ Fresh'
  <2> HIDE DEF text
  <2> QED BY <1>1, <1>3, <1>4, InjectWrites
<1>6. CASE ~IsLast(i, b)
  <2>1. ops' = ops
    BY SMTT(60), <1>1, <1>6
  <2>2. IsLast(i, b)' <=> IsLast(i, b)
    BY <1>1, <2>1 DEF IsLast, Blobs, Rows
  <2>3. Stuck'
    BY <1>1, <1>6, <2>1, <2>2 DEF Stuck
  <2>4. Rows' = Rows
    BY <1>1, Rigid
  <2>5. (Closing /\ ops[Len(ops)].arg = "end" => row = Len(Rows))'
    <3>1. Closing /\ ops[Len(ops)].arg = "end" => row = Len(Rows)
      BY DEF RawOK
    <3> QED BY <1>1, <2>1, <2>4, <3>1 DEF Closing
  <2>6. (ended = "no")'
    BY SMTT(60), <1>1, <1>2
  <2> QED BY <1>5, <2>3, <2>5, <2>6 DEF RawOK
<1>7. CASE IsLast(i, b)
  <2>1. ops' = Tail(ops) /\ ~Stuck
    BY SMTT(60), <1>1, <1>7 DEF Stuck
  <2>2. bytes = LeftOfLob(o, Now)
    <3>1. Min2(prefetch + LobRead, Blobs(i)[b]) = Blobs(i)[b]
      <4>1. prefetch \in Nat /\ LobRead \in Nat /\ Blobs(i)[b] \in Nat
        BY <1>3, StreamAssumption DEF StreamInv, IsLob
      <4>2. prefetch + LobRead >= Blobs(i)[b]
        BY <1>7 DEF IsLast
      <4> QED BY <4>1, <4>2 DEF Min2
    <3>2. Reply(i, b) = SubSeq(Content(i, b), prefetch + 1, Blobs(i)[b])
      BY <3>1 DEF Reply
    <3>3. Now.pend = pending /\ Now.pre = prefetch
      BY NowIs, StateIs
    <3> QED BY <3>2, <3>3 DEF LeftOfLob
  <2>3. Now' = After(o, Now)
    <3> HIDE DEF bytes
    <3>1. After(o, Now) = State(reading, Rest(bytes), prefetch, Written \o text)
      BY <1>1, <1>3, <2>2, NowAfter
    <3>2. Now' = State(reading', pending', prefetch', Written')
      BY NowAfter
    <3> HIDE DEF text
    <3> QED BY <1>1, <1>5, <3>1, <3>2
  <2> QED BY <1>1, <1>2, <1>5, <2>1, <2>3, StepDone
<1> QED BY <1>6, <1>7

LEMMA AfterText == ASSUME NEW o, NEW s PROVE After(o, s).text = s.text \o TextOf(o, s)
BY DEF After, State

\* Between two rows.
LEMMA BetweenRows ==
    ASSUME StreamInv, RawOK, ended = "no", ops = <<>>
    PROVE  /\ pending = <<>> /\ Describes(levels, row) /\ Written \o Down(row, 0) = Expected(row)
<1>1. ~Stuck /\ ~Closing
  BY DEF Stuck, Closing
<1>2. PICK fin : Plays(ops, Now, fin) /\ Leads(fin)
  BY <1>1 DEF RawOK, GoesOn
<1>3. fin = Now
  <2> DEFINE x == Now
  <2>1. Plays(<<>>, x, fin)
    BY <1>2
  <2> HIDE DEF x
  <2>2. x = fin
    BY <2>1, PlaysNone
  <2> QED BY <2>2 DEF x
<1>4. Now.pend = pending /\ Now.text = Written
  BY NowIs, StateIs
<1> QED BY <1>1, <1>2, <1>3, <1>4 DEF Leads

\* The steps of a row do not close the stream.
LEMMA NotClosing == ASSUME NEW s, RowSteps(s), ops' = s PROVE ~Closing'
<1>1. s = <<>> \/ RowStep(s[Len(s)])
  <2>1. s \in Seq(Range(s)) /\ DOMAIN s = 1 .. Len(s) /\ Len(s) \in Nat
    BY IsSeqLen DEF RowSteps, IsSeq
  <2>2. ASSUME s # <<>> PROVE Len(s) \in DOMAIN s
    <3>1. Len(s) # 0
      BY <2>1, <2>2, EmptySeq
    <3> QED BY <2>1, <3>1
  <2> QED BY <2>2 DEF RowSteps
<1> QED BY <1>1 DEF Closing, RowStep

\* The step that closes it is the last one.
LEMMA HeadCloses ==
    ASSUME OpsOK, ops # <<>>, Head(ops).name = "close"
    PROVE  Closing /\ ops[Len(ops)] = Head(ops) /\ CloseStep(Head(ops)) /\ Tail(ops) = <<>>
<1> DEFINE o == Head(ops)
<1>1. IsSeq(ops) /\ Tail(ops) = <<>> /\ CloseStep(o)
  <2>1. RowStep(o) \/ (CloseStep(o) /\ Tail(ops) = <<>>)
    BY OpsTail
  <2>2. ~RowStep(o)
    BY DEF RowStep
  <2> QED BY <2>1, <2>2 DEF OpsOK
<1>2. Len(ops) = 1 /\ o = ops[1]
  <2>1. ops \in Seq(Range(ops))
    BY <1>1 DEF IsSeq
  <2> DEFINE s == ops
             S == Range(ops)
  <2>2. s \in Seq(S) /\ s # <<>> /\ Tail(s) = <<>>
    BY <1>1, <2>1
  <2> HIDE DEF s, S
  <2>3. Len(s) = 1
    <3>1. Len(Tail(s)) = Len(s) - 1 /\ Len(s) \in Nat
      BY <2>2, EmptySeq
    <3>2. Len(Tail(s)) = Len(<<>>)
      BY <2>2
    <3>3. Len(<<>>) = 0
      OBVIOUS
    <3> QED BY <3>1, <3>2, <3>3
  <2> QED BY <2>3 DEF s
<1> QED BY <1>1, <1>2 DEF Closing

LEMMA RawOKClose == ASSUME StreamInv, RawOK, RawClose PROVE RawOK'
<1> DEFINE o == Head(ops)
<1>1. /\ ops # <<>> /\ o.name = "close" /\ ops' = <<>> /\ ended' = o.arg
      /\ pushed' = IF writing > base THEN Append(pushed, View(base, writing)) ELSE pushed
      /\ UNCHANGED <<result, mode, row, levels, mem, base, reading, writing, pending, prefetch>>
  BY DEF RawClose
<1>2. ended = "no" /\ ~Stuck
  BY <1>1, HeadIs DEF Stuck
<1>3. OpsOK /\ IsSeq(ops) /\ Tail(ops) = <<>> /\ CloseStep(o)
  BY <1>1, HeadCloses DEF StreamInv, OpsOK
<1>4. Closing /\ ops[Len(ops)] = o
  BY <1>1, <1>3, HeadCloses
<1>5. PICK fin : Plays(ops, Now, fin) /\ Leads(fin)
  BY <1>2 DEF RawOK, GoesOn
<1>6. fin.text = Expected(row)
  BY <1>4, <1>5 DEF Leads
<1>7. fin = After(o, Now)
  <2> DEFINE x == After(o, Now)
  <2>1. Plays(Tail(ops), x, fin)
    BY <1>1, <1>3, <1>5, PlaysTail
  <2>2. Plays(<<>>, x, fin)
    BY <1>3, <2>1
  <2> HIDE DEF x
  <2>3. x = fin
    BY <2>2, PlaysNone
  <2> QED BY <2>3 DEF x
<1>8. Written = Expected(row)
  <2>1. Now.text = Written /\ IsSeq(Written)
    BY NowIs, StateIs
  <2>2. TextOf(o, Now) = <<>>
    BY <1>1 DEF TextOf
  <2>3. After(o, Now).text = Written \o <<>>
    BY <2>1, <2>2, AfterText
  <2>4. Written \o <<>> = Written
    BY <2>1, ConcatNone
  <2> QED BY <1>6, <1>7, <2>3, <2>4
<1>9. Output' = Written
  <2>1. InMemory /\ writing \in Nat
    BY NowIs
  <2>2. writing' \in Nat /\ writing <= writing' /\ UNCHANGED mem
    BY <1>1, <2>1
  <2> QED BY <1>1, <2>1, <2>2, WrittenOne
<1>10. Expected(row)' = Expected(row)
  <2>1. \A n : Expected(n)' = Expected(n)
    BY <1>1, RigidExpected
  <2> QED BY <1>1, <2>1
<1>11. Fresh' /\ Rows' = Rows
  <2>1. Fresh /\ Original' = Original /\ Rows' = Rows
    BY <1>1, Rigid DEF RawOK
  <2> QED BY <1>1, <2>1 DEF Fresh
<1>12. (ended = "end" => row = Len(Rows))'
  <2>1. o.arg = "end" => row = Len(Rows)
    BY <1>4 DEF RawOK
  <2> QED BY <1>1, <1>11, <2>1
<1>13. (ended # "no")' /\ ~Closing'
  BY <1>1, <1>3 DEF Closing, CloseStep
<1>14. (ops = <<>> /\ Output = Expected(row))'
  BY <1>1, <1>8, <1>9, <1>10
<1> QED BY <1>11, <1>12, <1>13, <1>14 DEF RawOK

LEMMA RawOKEndOf == ASSUME StreamInv, RawOK, RowsSound, NEW how \in {"end", "error"}, RawEnd(how) PROVE RawOK'
<1> DEFINE text == HandleLevel(levels, <<>>, <<>>).text
           o == InjectOp(text)
           v == Op("close", 0, how)
           x == Now
           y == State(reading, pending, prefetch, Written \o text)
<1>1. /\ ended = "no" /\ ops = <<>> /\ (how = "end" => row = Len(Rows)) /\ ops' = <<o, v>>
      /\ UNCHANGED <<result, mode, row, mem, base, reading, writing, pushed, pending, prefetch, inPlace, ended>>
  BY DEF RawEnd
<1>2. Describes(levels, row) /\ Written \o Down(row, 0) = Expected(row)
  BY <1>1, BetweenRows
<1>3. text = Down(row, 0)
  <2>1. Sound /\ row \in 0 .. Len(Rows)
    BY DEF StreamInv, Sound
  <2> QED BY <1>2, <2>1, LevelsEnd
<1>4. reading \in Nat /\ IsSeq(Written) /\ x = State(reading, pending, prefetch, Written)
  BY NowIs
<1> HIDE DEF text
<1>5. y = After(o, x)
  BY <1>4, AfterInject
<1>6. PICK fin : fin = After(v, y) /\ Plays(<<o, v>>, x, fin)
  <2> DEFINE z == After(v, y)
  <2> HIDE DEF o, v, x, y
  <2>1. Plays(<<o, v>>, x, z)
    BY <1>5, PlaysTwo
  <2> QED BY <2>1
<1>7. fin.text = Expected(row)
  <2>1. y.text = Written \o text
    BY DEF State
  <2>2. Written \o text = Expected(row)
    BY <1>2, <1>3
  <2>3. v.name = "close"
    BY OpIs
  <2> HIDE DEF v, y
  <2>4. TextOf(v, y) = <<>>
    BY <2>3 DEF TextOf
  <2>5. fin.text = Expected(row) \o <<>>
    BY <1>6, <2>1, <2>2, <2>4, AfterText
  <2>6. IsSeq(Expected(row))
    <3>1. IsSeq(text)
      <4>1. LevelsOK(levels)
        BY DEF StreamInv
      <4> DEFINE no == <<>>
      <4>2. IsFiniteSet(DOMAIN no)
        <5>1. DOMAIN no = {}
          OBVIOUS
        <5> QED BY <5>1, FS_EmptySet
      <4> HIDE DEF no
      <4>3. IsSeq(HandleLevel(levels, no, no).text)
        BY <4>1, <4>2, HandleLevelIs
      <4> QED BY <4>3 DEF no, text
    <3>2. IsSeq(Written \o text)
      BY <1>4, <3>1, IsSeqConcat
    <3> QED BY <2>2, <3>2
  <2> QED BY <2>5, <2>6, ConcatNone
<1>8. Now' = x
  <2>1. Written' = Written
    BY <1>1 DEF Written, Output
  <2> QED BY <1>1, <1>4, <2>1, NowAfter
<1>9. Plays(ops, Now, fin)'
  <2>1. \A s, a, b : Plays(s, a, b)' <=> Plays(s, a, b)
    BY <1>1, RigidPlays
  <2>2. Plays(ops', Now', fin)
    BY <1>1, <1>6, <1>8
  <2> HIDE DEF o, v, x, y
  <2> QED BY <2>1, <2>2
<1>10. Closing' /\ (ops[Len(ops)].arg = how)'
  <2>1. v.name = "close" /\ v.arg = how
    BY OpIs
  <2> DEFINE s == <<o, v>>
  <2>2. s # <<>> /\ Len(s) = 2 /\ s[2] = v
    OBVIOUS
  <2>3. ops' = s
    BY <1>1
  <2> HIDE DEF s, v
  <2>4. ops' # <<>> /\ ops'[Len(ops')] = v
    BY <2>2, <2>3
  <2> QED BY <2>1, <2>4 DEF Closing
<1>11. Expected(row)' = Expected(row) /\ Rows' = Rows
  <2>1. \A n : Expected(n)' = Expected(n)
    BY <1>1, RigidExpected
  <2> QED BY <1>1, <2>1, Rigid
<1>12. Leads(fin)'
  <2> QED BY <1>7, <1>10, <1>11 DEF Leads
<1>13. GoesOn'
  <2> QED BY <1>9, <1>12 DEF GoesOn
<1>14. Fresh'
  <2>1. Fresh /\ Original' = Original
    BY <1>1, Rigid DEF RawOK
  <2> QED BY <1>1, <2>1 DEF Fresh
<1>15. (ended = "no")'
  BY <1>1
<1>16. (Closing /\ ops[Len(ops)].arg = "end" => row = Len(Rows))'
  BY <1>1, <1>10, <1>11
<1> QED BY <1>13, <1>14, <1>15, <1>16 DEF RawOK

\* A row begins, maybe with the next buffer.
LEMMA WrittenSame ==
    ASSUME StreamInv, UNCHANGED mem,
           \/ NextBuffer /\ UNCHANGED reading
           \/ UNCHANGED <<pushed, base, writing>>
    PROVE  Written' = Written
<1>1. CASE UNCHANGED <<pushed, base, writing>>
  BY <1>1 DEF Written, Output
<1>2. CASE NextBuffer /\ UNCHANGED reading
  <2>1. /\ pushed' = IF writing > base THEN Append(pushed, View(base, writing)) ELSE pushed
        /\ base' = reading /\ writing' = reading
    BY <1>2 DEF NextBuffer
  <2>2. InMemory /\ writing \in Nat /\ reading \in Nat /\ writing <= reading /\ IsSeq(Written)
    BY NowIs
  <2>3. writing' \in Nat /\ writing <= writing'
    BY <2>1, <2>2
  <2>4. Output' = Written
    BY <2>1, <2>2, <2>3, WrittenOne
  <2>5. SubSeq(mem, reading + 1, reading) = <<>>
    BY <2>2, PieceNone
  <2>6. Written' = Output' \o SubSeq(mem', base' + 1, writing')
    BY DEF Written
  <2>7. Written \o <<>> = Written
    BY <2>2, ConcatNone
  <2> QED BY <2>1, <2>4, <2>5, <2>6, <2>7
<1> QED BY <1>1, <1>2

LEMMA RawOKRow == ASSUME StreamInv, RawOK, RowsSound, RawRow, Whole(row + 1) PROVE RawOK'
<1> DEFINE n == row
           i == n + 1
           H == HandleLevel(levels, PathOf(n + 1), Rows[n + 1].expands)
           text == LevelOf(i).text
           W == Written
<1>1. /\ ended = "no" /\ ops = <<>> /\ row < Len(Rows) /\ reading = EndOf(row)
      /\ ops' = RowOps(i) /\ row' = i
      /\ IF BufferEnd <= reading THEN NextBuffer ELSE UNCHANGED <<pushed, base, writing>>
      /\ UNCHANGED <<result, mode, mem, reading, pending, prefetch, inPlace, ended>>
      /\ levels' = LET next == LevelOf(row + 1).levels
                   IN  [next EXCEPT ![Len(next)].hasProperties = HasProperties(row + 1)]
  BY DEF RawRow
<1>2. pending = <<>> /\ Describes(levels, n) /\ W \o Down(n, 0) = Expected(n)
  BY <1>1, BetweenRows
<1>3. /\ Sound /\ result \in Results /\ n \in 0 .. Len(Rows) /\ n \in Nat /\ Len(Rows) \in Nat
      /\ i \in 1 .. Len(Rows)
  <2>1. Sound /\ result \in Results /\ n \in 0 .. Len(Rows)
    BY DEF StreamInv, Sound
  <2>2. Len(Rows) \in Nat
    BY <2>1, RowsAre
  <2> DEFINE l == Len(Rows)
  <2>3. n \in 0 .. l /\ l \in Nat /\ n < l
    BY <1>1, <2>1, <2>2
  <2> HIDE DEF l
  <2>4. n \in Nat /\ i \in 1 .. l
    BY <2>3
  <2> QED BY <2>1, <2>2, <2>4 DEF l
<1>4. reading = EndOf(n) /\ IsSeq(W)
  BY <1>1, NowIs
<1>5. LevelOf(i) = H
  <2>1. i # 0
    BY <1>3
  <2>2. PathOf(i) = Rows[i].path
    BY <2>1 DEF PathOf
  <2> QED BY <2>2 DEF LevelOf
<1>6. levels' = LastHas(H.levels, HasProperties(i))
  BY <1>1, <1>5 DEF LastHas
<1>7. PICK t : IsTop(n, t) /\ text = Gap(n, t)
  <2>1. H = HandleLevel(levels, PathOf(n + 1), Rows[n + 1].expands)
    OBVIOUS
  <2> HIDE DEF H
  <2>2. \E t : IsTop(n, t) /\ H.text = Gap(n, t)
    BY <1>1, <1>2, <1>3, <2>1, NextLevels
  <2> QED BY <1>5, <2>2
<1>8. Describes(levels', i)
  <2>1. H = HandleLevel(levels, PathOf(n + 1), Rows[n + 1].expands)
    OBVIOUS
  <2> HIDE DEF H
  <2>2. Describes(LastHas(H.levels, HasProperties(n + 1)), n + 1)
    BY <1>1, <1>2, <1>3, <2>1, NextLevels
  <2> QED BY <1>6, <2>2
<1>9. /\ Expected(i) = (W \o Delta(n, t)) \o Down(i, 0)
      /\ IsSeq(Gap(n, t)) /\ IsSeq(Body(i))
  <2>1. n < Len(Rows) /\ Expected(n) = W \o Down(n, 0) /\ IsSeq(W)
    BY <1>1, <1>2, <1>4
  <2> HIDE DEF W, n
  <2> QED BY <1>3, <1>7, <2>1, ExpectedStep
<1>10. (W \o text) \o Body(i) = W \o Delta(n, t)
  <2> DEFINE g == Gap(n, t)
             b == Body(i)
  <2>1. IsSeq(g) /\ IsSeq(b) /\ text = g /\ Delta(n, t) = g \o b /\ IsSeq(W)
    BY <1>4, <1>7, <1>9 DEF Delta
  <2> HIDE DEF g, b, W, text
  <2>2. (W \o g) \o b = W \o (g \o b)
    BY SMTT(60), <2>1, ConcatAssoc
  <2> QED BY <2>1, <2>2 DEF b
<1>11. /\ \E g : Plays(RowOps(i), State(EndOf(n), <<>>, prefetch, W),
                       State(EndOf(i), <<>>, g, (W \o text) \o Body(i)))
       /\ IsSeq(RowOps(i))
  <2>1. IsSeq(text) /\ i = n + 1 /\ text = LevelOf(i).text /\ n < Len(Rows) /\ Whole(i)
    BY <1>1, <1>7, <1>9
  <2> HIDE DEF text, W, i, n
  <2> QED BY <1>3, <1>4, <2>1, PlaysRow
<1>12. PICK fin : /\ Plays(RowOps(i), State(EndOf(n), <<>>, prefetch, W), fin)
                  /\ fin.pend = <<>> /\ fin.text = W \o Delta(n, t)
  <2>1. PICK g : Plays(RowOps(i), State(EndOf(n), <<>>, prefetch, W),
                       State(EndOf(i), <<>>, g, (W \o text) \o Body(i)))
    BY <1>11
  <2> DEFINE z == State(EndOf(i), <<>>, g, (W \o text) \o Body(i))
  <2>2. z.pend = <<>> /\ z.text = (W \o text) \o Body(i)
    BY DEF State
  <2>3. Plays(RowOps(i), State(EndOf(n), <<>>, prefetch, W), z)
    BY <2>1
  <2> HIDE DEF z, W, n, i, text
  <2> QED BY <1>10, <2>2, <2>3
<1>13. Now' = State(EndOf(n), <<>>, prefetch, W)
  <2>1. Written' = W
    BY <1>1, WrittenSame
  <2>2. Now' = State(reading', pending', prefetch', Written')
    BY NowAfter
  <2> HIDE DEF n, W
  <2> QED BY <1>1, <1>2, <1>4, <2>1, <2>2
<1>14. Plays(ops, Now, fin)'
  <2>1. \A s, a, b : Plays(s, a, b)' <=> Plays(s, a, b)
    BY <1>1, RigidPlays
  <2>2. Plays(ops', Now', fin)
    BY <1>1, <1>12, <1>13
  <2> QED BY <2>1, <2>2
<1>15. ~Closing'
  <2>1. RowSteps(RowOps(i))
    <3>1. IsSeq(LevelOf(i).text)
      BY <1>7, <1>9
    <3> HIDE DEF i
    <3> QED BY <1>3, <3>1, RowReads
  <2> DEFINE s == RowOps(i)
  <2>2. ops' = s /\ RowSteps(s)
    BY <1>1, <2>1
  <2> HIDE DEF s
  <2> QED BY <2>2, NotClosing
<1>16. Expected(row)' = Expected(i) /\ Down(row, 0)' = Down(i, 0)
  <2>1. (\A k : Expected(k)' = Expected(k)) /\ \A k, j : Down(k, j)' = Down(k, j)
    BY <1>1, RigidExpected, RigidDown
  <2> HIDE DEF i
  <2> QED BY <1>1, <2>1
<1>17. Describes(levels, row)'
  <2>1. \A L, k : Describes(L, k)' <=> Describes(L, k)
    BY <1>1, RigidLevels
  <2> HIDE DEF i
  <2> QED BY <1>1, <1>8, <2>1
<1>18. Leads(fin)'
  BY <1>9, <1>12, <1>15, <1>16, <1>17 DEF Leads
<1>19. GoesOn'
  BY <1>14, <1>18 DEF GoesOn
<1>20. Fresh'
  <2>1. Fresh /\ Original' = Original
    BY <1>1, Rigid DEF RawOK
  <2> QED BY <1>1, <2>1 DEF Fresh
<1>21. (ended = "no")'
  BY <1>1
<1> QED BY <1>15, <1>19, <1>20, <1>21 DEF RawOK

LEMMA RawOKSame ==
    ASSUME RawOK, UNCHANGED <<result, mode, row, rawVars, prefetch, ended>>
    PROVE  RawOK'
<1>1. UNCHANGED <<result, mode, row, ops, levels, mem, base, reading, writing, pushed, pending, prefetch, ended>>
  BY DEF rawVars
<1>2. /\ (\A s, a, b : Plays(s, a, b)' <=> Plays(s, a, b))
      /\ (\A k : Expected(k)' = Expected(k))
      /\ (\A k, j : Down(k, j)' = Down(k, j))
      /\ (\A L, k : Describes(L, k)' <=> Describes(L, k))
      /\ Original' = Original /\ Rows' = Rows
  BY <1>1, RigidPlays, RigidExpected, RigidDown, RigidLevels, Rigid
<1>3. Output' = Output
  BY <1>1 DEF Output
<1>4. Now' = Now
  <2>1. Written' = Written
    BY <1>1, <1>3 DEF Written
  <2> QED BY <1>1, <2>1 DEF Now, State
<1>5. Closing' <=> Closing
  BY <1>1 DEF Closing
<1>6. Stuck' <=> Stuck
  BY <1>1, <1>2 DEF Stuck, IsLast, Blobs
<1>7. Fresh'
  BY <1>1, <1>2 DEF Fresh, RawOK
<1>8. (ended # "no" => ops = <<>> /\ Output = Expected(row) /\ (ended = "end" => row = Len(Rows)))'
  BY <1>1, <1>2, <1>3 DEF RawOK
<1>9. ASSUME NEW fin, Leads(fin) PROVE Leads(fin)'
  BY <1>1, <1>2, <1>5, <1>9 DEF Leads
<1>10. ASSUME GoesOn PROVE GoesOn'
  <2>1. PICK fin : Plays(ops, Now, fin) /\ Leads(fin)
    BY <1>10 DEF GoesOn
  <2>2. Plays(ops, Now, fin)'
    <3>1. Plays(ops', Now', fin)
      BY <1>1, <1>4, <2>1
    <3> QED BY <1>2, <3>1
  <2>3. Leads(fin)'
    BY <1>9, <2>1
  <2> QED BY <2>2, <2>3 DEF GoesOn
<1>11. (Closing /\ ops[Len(ops)].arg = "end" => row = Len(Rows))'
  BY <1>1, <1>2, <1>5 DEF RawOK
<1>12. (ended = "no" => Stuck \/ GoesOn)'
  BY <1>1, <1>6, <1>10 DEF RawOK
<1> QED BY <1>7, <1>8, <1>11, <1>12 DEF RawOK

LEMMA RawInvInit == Init => RawInv
<1> SUFFICES ASSUME Init, IsRaw, RowsSound PROVE RawOK
  BY DEF RawInv
<1>1. /\ result \in Results /\ ops = <<>> /\ row = 0 /\ base = 0 /\ reading = 0 /\ writing = 0
      /\ mem = FlattenSeq([i \in 1 .. Len(FlattenSeq(result)) |-> RowBytes(i)])
      /\ levels = RootLevels(mode = "one")
      /\ pushed = IF mode = "raw" THEN <<Text(<<"[">>)>> ELSE <<>>
      /\ pending = <<>> /\ prefetch = 0 /\ ended = "no"
  BY DEF Init
<1>2. Sound /\ Len(Rows) \in Nat
  BY <1>1, RowsAre DEF Sound
<1>3. Fresh
  BY <1>1 DEF Fresh, Original, Sent, Rows
<1>4. ~Closing
  BY <1>1 DEF Closing
<1>5. Describes(levels, row)
  BY <1>1, <1>2, LevelsStart
<1>6. StreamInv
  BY InvInit
<1>7. Written = Opening /\ IsSeq(Opening)
  <2>1. Output = Opening /\ IsSeq(Opening)
    <3>1. CASE mode = "one"
      <4>1. pushed = <<>>
        BY <1>1, <3>1
      <4>2. Output = FlattenSeq(<<>>)
        BY <4>1 DEF Output
      <4> QED BY <3>1, <4>2, FlattenEmpty, OneTexts DEF Opening
    <3>2. CASE mode # "one"
      <4> DEFINE text == <<"[">>
                 v == Text(text)
      <4>1. mode = "raw"
        BY <3>2 DEF IsRaw
      <4>2. pushed = <<v>> /\ text # <<>>
        BY <1>1, <4>1
      <4>3. v.text = text
        BY DEF Text
      <4>4. IsSeq(text)
        BY OneText
      <4> HIDE DEF v, text
      <4>5. Output = FlattenSeq(<<text>>)
        <5> DEFINE f == [p \in DOMAIN pushed |->
                IF pushed[p].text # <<>> THEN pushed[p].text
                ELSE SubSeq(mem, pushed[p].from + 1, pushed[p].to)]
        <5>1. DOMAIN pushed = 1 .. 1 /\ pushed[1] = v
          BY <4>2
        <5>2. f = <<text>>
          <6>1. f = [p \in 1 .. 1 |-> text]
            BY <4>2, <4>3, <5>1
          <6> HIDE DEF f
          <6>2. <<text>> = [p \in 1 .. 1 |-> text]
            OBVIOUS
          <6> QED BY <6>1, <6>2
        <5> QED BY <5>2 DEF Output
      <4>6. FlattenSeq(<<text>>) = text
        BY <4>4, FlattenOne
      <4> QED BY <3>2, <4>4, <4>5, <4>6 DEF Opening, text
    <3> QED BY <3>1, <3>2
  <2>2. SubSeq(mem, base + 1, writing) = <<>>
    <3> DEFINE z == 0
    <3>1. base = z /\ writing = z /\ z \in Nat
      BY <1>1
    <3> HIDE DEF z
    <3> QED BY <3>1, PieceNone
  <2> DEFINE o == Opening
  <2>3. Written = o \o <<>> /\ IsSeq(o)
    BY <2>1, <2>2 DEF Written
  <2> HIDE DEF o
  <2>4. o \o <<>> = o
    BY <2>3, ConcatNone
  <2> QED BY <2>1, <2>3, <2>4 DEF o
<1>8. Opening \o Down(row, 0) = Expected(row)
  <2> DEFINE z == 0
             one == 1
             no == <<>>
             op == Opening
             d == Down(z, 0)
  <2>1. z \in 0 .. Len(Rows)
    BY <1>2
  <2>2. Ends(z, Len(PathOf(z)), Inner(z, Len(PathOf(z)))) /\ Inner(z, 1) = <<>>
    <3>1. z = 0
      OBVIOUS
    <3> HIDE DEF z
    <3> QED BY <1>2, <2>1, <3>1, EndsLast
  <2>3. Len(PathOf(z)) = 1
    BY DEF PathOf, RootPath
  <2>4. Ends(z, 1, no)
    BY <2>2, <2>3
  <2> HIDE DEF z, no
  <2>5. Expected(z) = (op \o no) \o Down(z, 0) /\ IsSeq(op)
    BY <1>2, <2>1, <2>4, ExpectedEnds
  <2> HIDE DEF op
  <2>6. op \o no = op
    BY <2>5, ConcatNone DEF no
  <2>7. Expected(z) = op \o Down(z, 0)
    BY <2>5, <2>6
  <2> QED BY <1>1, <2>7 DEF z, op
<1>9. GoesOn
  <2> DEFINE x == Now
  <2>1. x.pend = <<>> /\ x.text = Written
    BY <1>1 DEF Now, State
  <2>2. Plays(ops, x, x)
    <3>1. Plays(<<>>, x, x)
      <4> HIDE DEF x
      <4> QED BY PlaysNone
    <3> QED BY <1>1, <3>1
  <2>3. Leads(x)
    <3> HIDE DEF x
    <3> QED BY <1>4, <1>5, <1>7, <1>8, <2>1 DEF Leads
  <2> QED BY <2>2, <2>3 DEF GoesOn
<1> QED BY <1>1, <1>3, <1>4, <1>9 DEF RawOK

LEMMA NextKeeps ==
    ASSUME StreamInv, [Next]_vars
    PROVE  /\ UNCHANGED <<result, mode>>
           /\ row' = row \/ row' = row + 1
           /\ ended = "thrown" => ended' = "thrown"
           /\ inPlace => inPlace'
<1> DEFINE Acts == \/ RawRow \/ RawMisread \/ RawInject \/ RawRead \/ RawWrite \/ RawEncode
                   \/ RawLob \/ RawLobFails \/ RawEncodeEnd \/ RawClose
                   \/ ObjectRow \/ ObjectThrows
           Ending == \E how \in {"end", "error"} : RawEnd(how) \/ ObjectEnd(how)
           Reading_ == \E l \in DOMAIN lobs : Resume(l) \/ ObjectLob(l) \/ ObjectLobFails(l)
<1>1. Acts \/ Ending \/ Reading_ \/ UNCHANGED vars
  BY DEF Next
<1>2. UNCHANGED <<result, mode>>
  BY ZenonT(60), <1>1 DEF vars, RawRow, RawMisread, RawInject, RawRead, RawWrite, RawEncode, RawLob,
     RawLobFails, RawEncodeEnd, RawClose, ObjectRow, ObjectThrows, RawEnd, ObjectEnd, Resume, ObjectLob,
     ObjectLobFails
<1>5. row' = row \/ row' = row + 1
  BY ZenonT(60), <1>1 DEF vars, RawRow, RawMisread, RawInject, RawRead, RawWrite, RawEncode, RawLob,
     RawLobFails, RawEncodeEnd, RawClose, ObjectRow, ObjectThrows, RawEnd, ObjectEnd, Resume, ObjectLob,
     ObjectLobFails
<1>6. inPlace => inPlace'
  <2>1. CASE RawEncode
    BY <2>1 DEF RawEncode
  <2>2. CASE ~RawEncode
    BY ZenonT(60), <1>1, <2>2 DEF vars, RawRow, RawMisread, RawInject, RawRead, RawWrite, RawLob,
       RawLobFails, RawEncodeEnd, RawClose, ObjectRow, ObjectThrows, RawEnd, ObjectEnd, Resume, ObjectLob,
       ObjectLobFails
  <2> QED BY <2>1, <2>2
<1>3. ended # "no" => ops = <<>>
  BY DEF StreamInv, Positions
<1>4. UNCHANGED ended \/ ended = "no" \/ ops # <<>>
  BY ZenonT(60), <1>1 DEF vars, RawRow, RawMisread, RawInject, RawRead, RawWrite, RawEncode, RawLob,
     RawLobFails, RawEncodeEnd, RawClose, ObjectRow, ObjectThrows, RawEnd, ObjectEnd, Resume, ObjectLob,
     ObjectLobFails
<1> HIDE DEF Acts, Ending, Reading_
<1> QED BY <1>2, <1>3, <1>4, <1>5, <1>6

LEMMA AllReadBefore == ASSUME StreamInv, [Next]_vars PROVE AllRead' => AllRead
<1>1. UNCHANGED result /\ (row' = row \/ row' = row + 1)
  BY NextKeeps
<1>2. row \in Nat
  BY RowsAre DEF StreamInv
<1>3. \A j \in 1 .. row : j \in 1 .. row' /\ j \in Nat
  BY <1>1, <1>2
<1>4. \A j \in Nat : Whole(j)' <=> Whole(j)
  BY <1>1, Unchanged
<1> QED BY <1>3, <1>4 DEF AllRead

LEMMA RawInvNext == StreamInv /\ RawInv /\ [Next]_vars => RawInv'
<1> SUFFICES ASSUME StreamInv, RawInv, [Next]_vars, IsRaw', ~inPlace', RowsSound', AllRead',
                    ended' # "thrown"
             PROVE  RawOK'
  BY DEF RawInv
<1>1. UNCHANGED <<result, mode>> /\ StreamInv'
  BY SMTT(60), InvNext, NextKeeps
<1>2. ~inPlace /\ ended # "thrown"
  BY NextKeeps
<1>3. IsRaw /\ RowsSound
  BY <1>1, RigidDown DEF IsRaw
<1>4. RawOK
  BY <1>2, <1>3, AllReadBefore DEF RawInv
<1>5. CASE RawRow
  <2>1. row' = row + 1 /\ row + 1 \in 1 .. row'
    BY <1>5, RowsAre DEF RawRow, StreamInv
  <2>3. Whole(row + 1)
    <3> DEFINE i == row + 1
    <3>1. i \in 1 .. row' /\ i \in Nat
      BY <2>1, RowsAre DEF StreamInv
    <3>2. \A j \in 1 .. row' : Whole(j)
      <4>1. \A j \in Nat : Whole(j)' <=> Whole(j)
        BY <1>1, Unchanged
      <4>2. \A j \in 1 .. row' : j \in Nat
        BY <2>1
      <4> QED BY <4>1, <4>2 DEF AllRead
    <3> HIDE DEF i
    <3>3. Whole(i)
      BY <3>1, <3>2
    <3> QED BY <3>3 DEF i
  <2> QED BY <1>3, <1>4, <1>5, <2>3, RawOKRow
<1>6. CASE RawInject
  BY <1>4, <1>6, RawOKInject
<1>7. CASE RawRead
  BY <1>4, <1>7, RawOKRead
<1>8. CASE RawWrite
  BY <1>1, <1>4, <1>8, RawOKWrite
<1>9. CASE RawEncode
  BY <1>1, <1>4, <1>9, RawOKEncode
<1>10. CASE RawLob
  BY <1>4, <1>10, RawOKLob
<1>11. CASE RawEncodeEnd
  BY <1>4, <1>11, RawOKEnd
<1>12. CASE RawClose
  BY <1>4, <1>12, RawOKClose
<1>13. ASSUME ObjectRow \/ ObjectThrows \/ \E how \in {"end", "error"} : ObjectEnd(how) PROVE RawOK'
  BY <1>3, <1>13 DEF IsRaw, ObjectRow, ObjectThrows, ObjectEnd
<1>14. ASSUME NEW how \in {"end", "error"}, RawEnd(how) PROVE RawOK'
  BY <1>3, <1>4, <1>14, RawOKEndOf
<1>15. ASSUME NEW l \in DOMAIN lobs, Resume(l) \/ ObjectLob(l) \/ ObjectLobFails(l) PROVE RawOK'
  BY <1>4, <1>15, RawOKSame DEF Resume, ObjectLob, ObjectLobFails
<1>16. CASE UNCHANGED vars
  BY <1>4, <1>16, RawOKSame DEF vars
<1>17. CASE RawMisread \/ RawLobFails
  BY <1>17 DEF RawMisread, RawLobFails
<1> QED BY <1>5, <1>6, <1>7, <1>8, <1>9, <1>10, <1>11, <1>12, <1>13, <1>14, <1>15, <1>16, <1>17 DEF Next

LEMMA EndsReadInit == Init => EndsRead
BY DEF Init, EndsRead, Closing

\* Where the end of the buffer is read, every row was read to its end.
LEMMA EndOfBufferRead ==
    ASSUME StreamInv, IsRaw, ended = "no", ops = <<>>, BufferEnd <= reading
    PROVE  AllRead
<1>1. Len(Rows) \in Nat /\ row \in 0 .. Len(Rows) /\ result \in Results /\ reading \in Nat
  BY RowsAre DEF StreamInv, Positions
<1>2. Size(ops) = 0 /\ reading + Size(ops) <= EndOf(row) /\ InStep(reading + Size(ops), row)
  BY SizeEmpty DEF StreamInv, Positions
<1>3. EndOf(row) \in Nat
  BY <1>1, EndOfIs
<1>4. BufferEnd \in Nat /\ EndOf(row) <= BufferEnd
  <2>1. CASE row = 0
    BY <2>1, EndOfNone DEF BufferEnd
  <2>2. CASE row # 0
    <3>1. row \in 1 .. Len(Rows)
      BY <1>1, <2>2
    <3>2. LastOfBuffer(row) \in row .. Len(Rows)
      BY <1>1, <3>1, BufferEnds
    <3>3. EndOf(row) <= EndOf(LastOfBuffer(row)) /\ EndOf(LastOfBuffer(row)) \in Nat
      <4>1. LastOfBuffer(row) \in 0 .. Len(Rows)
        BY <1>1, <3>1, <3>2
      <4> QED BY <1>1, <3>1, <3>2, <4>1, EndOfIs, EndOfMonotone
    <3> QED BY <2>2, <3>3 DEF BufferEnd
  <2> QED BY <2>1, <2>2
<1>5. reading + Size(ops) = EndOf(row)
  BY <1>1, <1>2, <1>3, <1>4
<1> QED BY <1>2, <1>5 DEF InStep, AllRead

LEMMA EndsReadNext == StreamInv /\ EndsRead /\ [Next]_vars => EndsRead'
<1> SUFFICES ASSUME StreamInv, EndsRead, [Next]_vars, IsRaw', (Closing \/ ended \in {"end", "error"})'
             PROVE  AllRead'
  BY DEF EndsRead
<1>1. UNCHANGED <<result, mode>> /\ IsRaw
  BY NextKeeps DEF IsRaw
<1>2. ASSUME UNCHANGED row, AllRead PROVE AllRead'
  <2>1. \A j : Whole(j)' <=> Whole(j)
    BY <1>1 DEF Whole, Stops, Blobs, Rows
  <2> QED BY <1>2, <2>1 DEF AllRead
<1>3. CASE RawRow
  <2>1. (ended = "no")' /\ ops' = RowOps(row + 1) /\ row + 1 \in 1 .. Len(Rows) /\ LevelsOK(levels)
        /\ result \in Results
    BY <1>3, RowsAre DEF RawRow, StreamInv, Positions
  <2>2. ~Closing'
    <3> DEFINE i == row + 1
               s == RowOps(i)
    <3>1. ops' = s /\ i \in 1 .. Len(Rows)
      BY <2>1
    <3>2. IsFiniteSet(DOMAIN Rows[i].expands)
      BY <2>1, RowsAre DEF IsRow
    <3> HIDE DEF i
    <3>3. IsSeq(LevelOf(i).text)
      BY <2>1, <3>2, HandleLevelIs DEF LevelOf
    <3>4. RowSteps(s)
      BY <2>1, <3>1, <3>3, RowReads
    <3> HIDE DEF s
    <3> QED BY <3>1, <3>4, NotClosing
  <2> QED BY <2>1, <2>2
<1>4. CASE RawInject \/ RawRead \/ RawWrite \/ RawEncode \/ RawLob \/ RawEncodeEnd
  <2>1. UNCHANGED <<row, ended>> /\ ops # <<>> /\ ops' \in {ops, Tail(ops)} /\ Head(ops).name # "close"
    BY <1>4 DEF RawInject, RawRead, RawWrite, RawEncode, RawLob, RawEncodeEnd
  <2>2. Closing' => Closing
    <3>1. CASE ops' = ops
      BY <3>1 DEF Closing
    <3>2. CASE ops' = Tail(ops)
      BY <2>1, <3>2, ClosingTail DEF StreamInv
    <3> QED BY <2>1, <3>1, <3>2
  <2> QED BY <1>1, <1>2, <2>1, <2>2 DEF EndsRead
<1>5. CASE RawMisread \/ RawLobFails
  <2>1. (ended = "thrown")' /\ ops' = <<>>
    BY <1>5 DEF RawMisread, RawLobFails, rawVars
  <2> QED BY <2>1 DEF Closing
<1>6. CASE RawClose
  <2>1. UNCHANGED row /\ ops # <<>> /\ Head(ops).name = "close"
    BY <1>6 DEF RawClose
  <2>2. Closing
    BY <2>1, HeadCloses DEF StreamInv
  <2> QED BY <1>1, <1>2, <2>1, <2>2 DEF EndsRead
<1>7. ASSUME NEW how \in {"end", "error"}, RawEnd(how) PROVE AllRead'
  <2>1. ended = "no" /\ ops = <<>> /\ BufferEnd <= reading /\ UNCHANGED row
    BY <1>7 DEF RawEnd
  <2> QED BY <1>1, <1>2, <2>1, EndOfBufferRead
<1>8. ASSUME ObjectRow \/ ObjectThrows \/ \E how \in {"end", "error"} : ObjectEnd(how) PROVE FALSE
  BY <1>1, <1>8 DEF IsRaw, ObjectRow, ObjectThrows, ObjectEnd
<1>9. ASSUME UNCHANGED <<row, ops, ended>> PROVE AllRead'
  <2>1. Closing' <=> Closing
    BY <1>9 DEF Closing
  <2> QED BY <1>1, <1>2, <1>9, <2>1 DEF EndsRead
<1>10. ASSUME NEW l \in DOMAIN lobs, Resume(l) \/ ObjectLob(l) \/ ObjectLobFails(l) PROVE AllRead'
  BY <1>9, <1>10 DEF Resume, ObjectLob, ObjectLobFails, rawVars
<1>11. CASE UNCHANGED vars
  BY <1>9, <1>11 DEF vars, rawVars
<1> QED BY <1>3, <1>4, <1>5, <1>6, <1>7, <1>8, <1>10, <1>11 DEF Next

LEMMA RawGives == RawInv /\ EndsRead => (RowsSound => RawOutput)
<1> SUFFICES ASSUME RawInv, EndsRead, RowsSound, IsRaw, ended \in {"end", "error"}, ~inPlace
             PROVE  Output = Expected(row) /\ (ended = "end" => row = Len(Rows))
  BY DEF RawOutput
<1>1. AllRead /\ ended # "thrown" /\ ended # "no"
  BY DEF EndsRead
<1>2. RawOK
  BY <1>1 DEF RawInv
<1> QED BY <1>1, <1>2 DEF RawOK

\* A raw stream that has ended gave the rows it took as one JSON text, each once
\* and complete, all of them if it ended without an error (RawOutput), whatever
\* the rows, their nesting, their LOBs and the buffers they come in, if the rows
\* are such as a statement returns: rsIterator of hdb.js with inject, write,
\* readBlob and slice, and handleLevel of base.js.  That holds though nextBlob
\* may leave columns of a row out: such a stream does not end, read() rejects.
THEOREM RawStreamsWhole == Spec => [](RowsSound => RawOutput)
<1>1. StreamInv /\ RawInv /\ [Next]_vars => RawInv'
  BY RawInvNext
<1>2. StreamInv /\ EndsRead /\ [Next]_vars => EndsRead'
  BY EndsReadNext
<1>3. Spec => []RawInv
  BY StreamInvariant, RawInvInit, <1>1, PTL DEF Spec
<1>4. Spec => []EndsRead
  BY StreamInvariant, EndsReadInit, <1>2, PTL DEF Spec
<1> QED BY <1>3, <1>4, RawGives, PTL
=============================================================================
