--------------------------- MODULE HdbStreamProofs ---------------------------
(***************************************************************************)
(* Proofs about HdbStream: for results of any number of rows, expands and  *)
(* LOBs, in any number of buffers, whatever the sizes of their parts.      *)
(***************************************************************************)
EXTENDS HdbStream, SequenceLemmas

\* How many bytes the steps of a row read.
Size(steps) == Len(FlattenSeq([k \in DOMAIN steps |-> Bytes("step", steps[k].n)]))

LEMMA BytesType ==
    ASSUME NEW part, NEW n \in Nat
    PROVE  /\ Bytes(part, n) \in Seq({part} \X Nat)
           /\ Bytes(part, n) \in Seq({<<part, k>> : k \in Nat})
           /\ Len(Bytes(part, n)) = n
           /\ \A k \in 1 .. n : Bytes(part, n)[k] = <<part, k>>
BY DEF Bytes

----------------------------------------------------------------------------
(* Sizes                                                                   *)

IsSteps(steps) == IsSeq(steps) /\ \A k \in DOMAIN steps : steps[k].n \in Nat

LEMMA SizeType ==
    ASSUME NEW s, IsSteps(s)
    PROVE  /\ [k \in DOMAIN s |-> Bytes("step", s[k].n)] \in Seq(Seq({"step"} \X Nat))
           /\ Size(s) \in Nat
<1> DEFINE b == [k \in DOMAIN s |-> Bytes("step", s[k].n)]
<1>1. DOMAIN s = 1 .. Len(s) /\ Len(s) \in Nat
  BY IsSeqLen DEF IsSteps
<1>2. \A k \in DOMAIN s : Bytes("step", s[k].n) \in Seq({"step"} \X Nat)
  BY BytesType DEF IsSteps
<1>3. b \in Seq(Seq({"step"} \X Nat))
  BY <1>1, <1>2
<1> HIDE DEF b
<1>4. FlattenSeq(b) \in Seq({"step"} \X Nat)
  BY <1>3, FlattenType
<1>5. Len(FlattenSeq(b)) \in Nat
  BY <1>4
<1> QED BY <1>3, <1>5 DEF Size, b

LEMMA SizeConcat ==
    ASSUME NEW s, NEW t, IsSteps(s), IsSteps(t)
    PROVE  IsSteps(s \o t) /\ Size(s \o t) = Size(s) + Size(t)
<1> DEFINE b(u) == [k \in DOMAIN u |-> Bytes("step", u[k].n)]
<1>1. /\ IsSeq(s \o t) /\ Len(s \o t) = Len(s) + Len(t)
      /\ Len(s) \in Nat /\ Len(t) \in Nat
      /\ DOMAIN s = 1 .. Len(s) /\ DOMAIN t = 1 .. Len(t) /\ DOMAIN (s \o t) = 1 .. Len(s) + Len(t)
      /\ \A i \in 1 .. Len(s) : (s \o t)[i] = s[i]
      /\ \A i \in 1 .. Len(t) : (s \o t)[Len(s) + i] = t[i]
  BY IsSeqConcat, IsSeqLen DEF IsSteps
<1>2. \A i \in 1 .. Len(s) + Len(t) :
         (s \o t)[i] = IF i <= Len(s) THEN s[i] ELSE t[i - Len(s)]
  <2> SUFFICES ASSUME NEW i \in 1 .. Len(s) + Len(t), ~(i <= Len(s)) PROVE (s \o t)[i] = t[i - Len(s)]
    BY <1>1
  <2>1. i - Len(s) \in 1 .. Len(t) /\ Len(s) + (i - Len(s)) = i
    BY <1>1
  <2> QED BY <1>1, <2>1
<1>3. IsSteps(s \o t)
  <2>1. ASSUME NEW i \in 1 .. Len(s) + Len(t) PROVE (s \o t)[i].n \in Nat
    <3>1. i <= Len(s) \/ i - Len(s) \in 1 .. Len(t)
      BY <1>1
    <3> QED BY SMTT(60), <3>1, <1>1, <1>2 DEF IsSteps
  <2> QED BY <1>1, <2>1 DEF IsSteps
<1> DEFINE B == Seq({"step"} \X Nat)
<1>4. b(s) \in Seq(B) /\ b(t) \in Seq(B) /\ b(s \o t) \in Seq(B)
  BY <1>3, SizeType
<1>5. b(s \o t) = b(s) \o b(t)
  <2> DEFINE l == b(s \o t)
             x == b(s)
             y == b(t)
  <2>1. /\ l \in Seq(B) /\ x \in Seq(B) /\ y \in Seq(B)
        /\ DOMAIN l = 1 .. Len(s) + Len(t) /\ DOMAIN x = 1 .. Len(s) /\ DOMAIN y = 1 .. Len(t)
    BY <1>1, <1>4
  <2>2. \A i \in 1 .. Len(s) + Len(t) : l[i] = IF i <= Len(s) THEN x[i] ELSE y[i - Len(s)]
    <3>1. ASSUME NEW i \in 1 .. Len(s) + Len(t) PROVE i <= Len(s) => l[i] = x[i]
      BY <1>1, <1>2
    <3>2. ASSUME NEW i \in 1 .. Len(s) + Len(t), ~(i <= Len(s)) PROVE l[i] = y[i - Len(s)]
      <4>1. i - Len(s) \in 1 .. Len(t)
        BY <1>1, <3>2
      <4> QED BY <4>1, <1>1, <1>2, <3>2
    <3> QED BY <3>1, <3>2
  <2> HIDE DEF l, x, y, B
  <2>3. Len(l) = Len(s) + Len(t) /\ Len(x) = Len(s) /\ Len(y) = Len(t)
    BY <2>1, <1>1
  <2>4. x \o y \in Seq(B) /\ Len(x \o y) = Len(s) + Len(t)
        /\ \A i \in 1 .. Len(s) + Len(t) : (x \o y)[i] = IF i <= Len(s) THEN x[i] ELSE y[i - Len(s)]
    <3>1. x \o y \in Seq(B) /\ Len(x \o y) = Len(x) + Len(y)
          /\ \A i \in 1 .. Len(x) + Len(y) : (x \o y)[i] = IF i <= Len(x) THEN x[i] ELSE y[i - Len(x)]
      BY <2>1, ConcatProperties
    <3> QED BY <2>3, <3>1
  <2>5. l = x \o y
    BY <2>1, <2>2, <2>3, <2>4, SeqEqual
  <2> QED BY <2>5 DEF l, x, y
<1> HIDE DEF b
<1>6. FlattenSeq(b(s \o t)) = FlattenSeq(b(s)) \o FlattenSeq(b(t))
  BY <1>4, <1>5, FlattenConcat
<1>7. FlattenSeq(b(s)) \in B /\ FlattenSeq(b(t)) \in B
  BY <1>4, FlattenType
<1>8. Len(FlattenSeq(b(s \o t))) = Len(FlattenSeq(b(s))) + Len(FlattenSeq(b(t)))
  BY <1>6, <1>7, ConcatProperties
<1> QED BY <1>3, <1>8 DEF Size, b

LEMMA SizeEmpty == IsSteps(<<>>) /\ Size(<<>>) = 0
<1>1. IsSteps(<<>>)
  <2>1. <<>> \in Seq({}) /\ DOMAIN <<>> = {}
    OBVIOUS
  <2>2. IsSeq(<<>>)
    BY <2>1, SeqIs
  <2> QED BY <2>1, <2>2 DEF IsSteps
<1>2. [k \in DOMAIN <<>> |-> Bytes("step", <<>>[k].n)] = <<>>
  OBVIOUS
<1> QED BY <1>1, <1>2, FlattenEmpty DEF Size

LEMMA SizeOne ==
    ASSUME NEW step, step.n \in Nat
    PROVE  IsSteps(<<step>>) /\ Size(<<step>>) = step.n
<1>1. IsSteps(<<step>>)
  <2>1. <<step>> \in Seq({step}) /\ \A k \in DOMAIN <<step>> : <<step>>[k] = step
    OBVIOUS
  <2>2. IsSeq(<<step>>)
    BY <2>1, SeqIs
  <2> QED BY <2>1, <2>2 DEF IsSteps
<1> DEFINE x == Bytes("step", step.n)
           B == {"step"} \X Nat
<1>2. [k \in DOMAIN <<step>> |-> Bytes("step", <<step>>[k].n)] = Append(<<>>, x)
  <2>1. Append(<<>>, x) = <<x>>
    OBVIOUS
  <2> HIDE DEF x
  <2>2. DOMAIN <<step>> = {1} /\ <<step>>[1] = step
    OBVIOUS
  <2> QED BY <2>1, <2>2 DEF x
<1>3. x \in Seq(B) /\ Len(x) = step.n /\ <<>> \in Seq(Seq(B))
  BY SMTT(60), BytesType
<1> HIDE DEF x, B
<1>4. FlattenSeq(Append(<<>>, x)) = FlattenSeq(<<>>) \o x
  BY <1>3, FlattenAppend
<1>5. FlattenSeq(<<>>) \o x = x
  BY <1>3, FlattenEmpty, ConcatEmptySeq
<1> QED BY <1>1, <1>2, <1>3, <1>4, <1>5 DEF Size

LEMMA SizeTail ==
    ASSUME NEW s, IsSteps(s), s # <<>>
    PROVE  /\ IsSteps(Tail(s)) /\ Head(s).n \in Nat
           /\ Size(s) = Head(s).n + Size(Tail(s))
<1>1. /\ Tail(s) \in Seq(Range(s)) /\ Len(Tail(s)) = Len(s) - 1 /\ Len(s) \in Nat \ {0}
      /\ DOMAIN s = 1 .. Len(s)
      /\ \A i \in 1 .. Len(Tail(s)) : Tail(s)[i] = s[i + 1]
      /\ Head(s) = s[1]
  BY HeadTailProperties, IsSeqLen, EmptySeq DEF IsSteps, IsSeq
<1>2. IsSteps(Tail(s)) /\ Head(s).n \in Nat
  <2>1. \A i \in 1 .. Len(Tail(s)) : s[i + 1].n \in Nat
    BY <1>1 DEF IsSteps
  <2>2. IsSeq(Tail(s)) /\ DOMAIN Tail(s) = 1 .. Len(Tail(s))
    BY <1>1, SeqIs, IsSeqLen
  <2>3. \A k \in DOMAIN Tail(s) : Tail(s)[k].n \in Nat
    BY <1>1, <2>1, <2>2
  <2>4. Head(s).n \in Nat
    BY <1>1 DEF IsSteps
  <2> QED BY <2>2, <2>3, <2>4 DEF IsSteps
<1>3. s = <<Head(s)>> \o Tail(s)
  BY <1>1 DEF IsSteps, IsSeq
<1> QED BY <1>2, <1>3, SizeOne, SizeConcat

LEMMA TwoAreOneAndOne == ASSUME NEW x, NEW y PROVE <<x, y>> = <<x>> \o <<y>>
<1>1. <<x>> \in Seq({x, y}) /\ <<y>> \in Seq({x, y}) /\ Len(<<x>>) = 1 /\ Len(<<y>>) = 1
      /\ <<x>>[1] = x /\ <<y>>[1] = y
  OBVIOUS
<1>2. <<x>> \o <<y>> \in Seq({x, y}) /\ Len(<<x>> \o <<y>>) = 2
      /\ (<<x>> \o <<y>>)[1] = x /\ (<<x>> \o <<y>>)[2] = y
  BY <1>1
<1>3. <<x, y>> \in Seq({x, y}) /\ Len(<<x, y>>) = 2 /\ <<x, y>>[1] = x /\ <<x, y>>[2] = y
  OBVIOUS
<1>4. \A i \in 1 .. 2 : <<x, y>>[i] = (<<x>> \o <<y>>)[i]
  <2>1. \A i \in 1 .. 2 : i = 1 \/ i = 2
    OBVIOUS
  <2> QED BY <1>2, <1>3, <2>1, Zenon
<1> QED BY <1>2, <1>3, <1>4, SeqEqual

LEMMA SizeTwo ==
    ASSUME NEW x, NEW y, x.n \in Nat, y.n \in Nat
    PROVE  IsSteps(<<x, y>>) /\ Size(<<x, y>>) = x.n + y.n
<1>1. <<x, y>> = <<x>> \o <<y>>
  BY TwoAreOneAndOne
<1>2. IsSteps(<<x>>) /\ Size(<<x>>) = x.n /\ IsSteps(<<y>>) /\ Size(<<y>>) = y.n
  BY SizeOne
<1>3. IsSteps(<<x, y>>) /\ Size(<<x, y>>) = Size(<<x>>) + Size(<<y>>)
  BY <1>1, <1>2, SizeConcat
<1> QED BY <1>2, <1>3

LEMMA SizeThree ==
    ASSUME NEW x, NEW y, NEW z, x.n \in Nat, y.n \in Nat, z.n \in Nat
    PROVE  IsSteps(<<x, y, z>>) /\ Size(<<x, y, z>>) = x.n + y.n + z.n
<1>1. <<x, y, z>> = <<x, y>> \o <<z>>
  OBVIOUS
<1>2. IsSteps(<<x, y>>) /\ Size(<<x, y>>) = x.n + y.n /\ IsSteps(<<z>>) /\ Size(<<z>>) = z.n
  BY SizeOne, SizeTwo
<1>3. IsSteps(<<x, y, z>>) /\ Size(<<x, y, z>>) = Size(<<x, y>>) + Size(<<z>>)
  BY <1>1, <1>2, SizeConcat
<1> QED BY <1>2, <1>3

LEMMA SizeFour ==
    ASSUME NEW x, NEW y, NEW z, NEW v, x.n \in Nat, y.n \in Nat, z.n \in Nat, v.n \in Nat
    PROVE  IsSteps(<<x, y, z, v>>) /\ Size(<<x, y, z, v>>) = x.n + y.n + z.n + v.n
<1>1. <<x, y, z, v>> = <<x, y>> \o <<z, v>>
  OBVIOUS
<1>2. Size(<<x, y>>) = x.n + y.n /\ Size(<<z, v>>) = z.n + v.n
      /\ IsSteps(<<x, y>>) /\ IsSteps(<<z, v>>)
  BY SizeTwo
<1>3. IsSteps(<<x, y, z, v>>) /\ Size(<<x, y, z, v>>) = Size(<<x, y>>) + Size(<<z, v>>)
  BY <1>1, <1>2, SizeConcat
<1> QED BY <1>2, <1>3

\* Steps that read, piece by piece, no more bytes than there are.
Reading(S) == \A o \in S : o.n \in Nat
ReadsNoMore(s, t) == Len(s) = Len(t) /\ \A i \in 1 .. Len(s) : Size(s[i]) <= Len(t[i])
ReadsAll(s, t, m) == \A i \in 1 .. m : Size(s[i]) = Len(t[i])

LEMMA SizeFlatten ==
    ASSUME NEW S, Reading(S), NEW B, NEW s \in Seq(Seq(S)), NEW t \in Seq(Seq(B)), ReadsNoMore(s, t)
    PROVE  /\ Size(FlattenSeq(s)) <= Len(FlattenSeq(t))
           /\ Size(FlattenSeq(s)) = Len(FlattenSeq(t)) <=> ReadsAll(s, t, Len(s))
<1> USE DEF Reading, ReadsNoMore
<1>0. ASSUME NEW x \in Seq(S) PROVE IsSteps(x)
  <2>1. \A k \in DOMAIN x : x[k] \in S
    OBVIOUS
  <2> QED BY <2>1, SeqIs DEF IsSteps
<1> DEFINE Q(m) == /\ Size(FlattenSeq(SubSeq(s, 1, m))) <= Len(FlattenSeq(SubSeq(t, 1, m)))
                   /\ Size(FlattenSeq(SubSeq(s, 1, m))) = Len(FlattenSeq(SubSeq(t, 1, m)))
                      <=> ReadsAll(s, t, m)
           P == {m \in Nat : m <= Len(s) => Q(m)}
<1>1. 0 \in P
  <2>1. SubSeq(s, 1, 0) = <<>> /\ SubSeq(t, 1, 0) = <<>> /\ Len(<<>>) = 0
    BY SubSeqEmpty
  <2>2. ReadsAll(s, t, 0)
    BY DEF ReadsAll
  <2>3. Size(FlattenSeq(SubSeq(s, 1, 0))) = 0 /\ Len(FlattenSeq(SubSeq(t, 1, 0))) = 0
    <3>1. FlattenSeq(<<>>) = <<>> /\ Size(<<>>) = 0
      BY FlattenEmpty, SizeEmpty
    <3> QED BY <2>1, <3>1, Zenon
  <2>4. Q(0)
    BY <2>2, <2>3
  <2> HIDE DEF Q
  <2> QED BY <2>4
<1>2. ASSUME NEW m \in P PROVE m + 1 \in P
  <2> SUFFICES ASSUME m + 1 <= Len(s) PROVE Q(m + 1)
    OBVIOUS
  <2>1. m \in Nat /\ Len(s) \in Nat /\ m + 1 \in 1 .. Len(s)
    OBVIOUS
  <2> DEFINE u == SubSeq(s, 1, m)
             v == SubSeq(t, 1, m)
             x == s[m + 1]
             y == t[m + 1]
  <2>2. u \in Seq(Seq(S)) /\ x \in Seq(S) /\ SubSeq(s, 1, m + 1) = Append(u, x)
    BY SMTT(60), <2>1
  <2>3. v \in Seq(Seq(B)) /\ y \in Seq(B) /\ SubSeq(t, 1, m + 1) = Append(v, y)
    BY SMTT(60), <2>1
  <2>4. /\ Size(FlattenSeq(u)) <= Len(FlattenSeq(v)) /\ Size(x) <= Len(y)
        /\ Size(FlattenSeq(u)) = Len(FlattenSeq(v)) <=> ReadsAll(s, t, m)
    BY <1>2, <2>1
  <2>9. ReadsAll(s, t, m + 1) <=> ReadsAll(s, t, m) /\ Size(x) = Len(y)
    <3>1. \A i \in 1 .. m + 1 : i \in 1 .. m \/ i = m + 1
      BY <2>1
    <3>2. m + 1 \in 1 .. m + 1 /\ \A i \in 1 .. m : i \in 1 .. m + 1
      BY <2>1
    <3> QED BY <3>1, <3>2, Zenon DEF ReadsAll
  <2> HIDE DEF u, v, x, y
  <2>5. FlattenSeq(Append(u, x)) = FlattenSeq(u) \o x /\ FlattenSeq(u) \in Seq(S)
    BY <2>2, FlattenAppend, FlattenType
  <2>6. FlattenSeq(Append(v, y)) = FlattenSeq(v) \o y /\ FlattenSeq(v) \in Seq(B)
    BY <2>3, FlattenAppend, FlattenType
  <2>7. Size(FlattenSeq(u) \o x) = Size(FlattenSeq(u)) + Size(x)
        /\ Size(FlattenSeq(u)) \in Nat /\ Size(x) \in Nat
    BY <1>0, <2>2, <2>5, SizeConcat, SizeType
  <2>8. Len(FlattenSeq(v) \o y) = Len(FlattenSeq(v)) + Len(y)
        /\ Len(FlattenSeq(v)) \in Nat /\ Len(y) \in Nat
    BY SMTT(60), <2>3, <2>6, ConcatProperties
  <2>10. Size(FlattenSeq(SubSeq(s, 1, m + 1))) = Size(FlattenSeq(u)) + Size(x)
         /\ Len(FlattenSeq(SubSeq(t, 1, m + 1))) = Len(FlattenSeq(v)) + Len(y)
    BY <2>2, <2>3, <2>5, <2>6, <2>7, <2>8, Zenon
  <2> QED BY SMTT(60), <2>4, <2>7, <2>8, <2>9, <2>10
<1> HIDE DEF P, Q
<1>3. P = Nat
  BY <1>1, <1>2, SetInduction DEF P
<1>4. Len(s) \in P /\ Len(s) \in Nat /\ Len(s) <= Len(s)
  BY <1>3
<1>5. Q(Len(s))
  BY <1>4 DEF P
<1>6. SubSeq(s, 1, Len(s)) = s /\ SubSeq(t, 1, Len(s)) = t
  BY SubSeqFull
<1> QED BY <1>5, <1>6 DEF Q

----------------------------------------------------------------------------
(* Rows, their bytes and their steps                                       *)

LEMMA RowsAre ==
    ASSUME result \in Results
    PROVE  /\ Len(Rows) \in Nat /\ DOMAIN Rows = 1 .. Len(Rows)
           /\ \A i \in 1 .. Len(Rows) : IsRow(Rows[i])
           /\ IsSeq(Rows)
<1> DEFINE U == UNION {Range(result[c]) : c \in DOMAIN result}
           R == {r \in U : IsRow(r)}
<1>1. result \in Seq(Seq(U)) /\ \A c \in DOMAIN result : \A i \in DOMAIN result[c] : IsRow(result[c][i])
  BY StreamAssumption
<1>2. ASSUME NEW c \in DOMAIN result PROVE result[c] \in Seq(R)
  <2>1. result[c] \in Seq(U)
    BY <1>1
  <2>2. Range(result[c]) \subseteq R
    BY <1>1 DEF Range
  <2>3. result[c] \in Seq(Range(result[c]))
    BY <2>1, SeqIs DEF IsSeq
  <2> QED BY <2>2, <2>3, SeqMonotonic
<1> HIDE DEF U, R
<1>3. result \in Seq(Seq(R))
  <2>1. Range(result) \subseteq Seq(R)
    BY <1>2 DEF Range
  <2>2. result \in Seq(Range(result))
    BY <1>1, SeqIs DEF IsSeq
  <2> QED BY <2>1, <2>2, SeqMonotonic
<1>4. Rows \in Seq(R)
  BY <1>3, FlattenType DEF Rows
<1>5. IsSeq(Rows)
  BY <1>4, SeqIs
<1> QED BY <1>4, <1>5 DEF R

Part == {"head", "null", "header"} \cup ({"json"} \X Nat) \cup ({"lob"} \X Nat \X Nat)
Byte == Part \X Nat

LEMMA BytesAre ==
    ASSUME NEW part \in Part, NEW n \in Nat
    PROVE  Bytes(part, n) \in Seq(Byte) /\ Len(Bytes(part, n)) = n
<1>1. {part} \X Nat \subseteq Byte
  BY DEF Byte
<1> QED BY <1>1, BytesType, SeqMonotonic

LEMMA PrefetchedIs ==
    ASSUME NEW i \in Nat, NEW b \in Nat, Blobs(i)[b] \in Nat
    PROVE  /\ Prefetched(i, b) \in Seq(Byte)
           /\ Len(Prefetched(i, b)) = Min2(PrefetchSize, Blobs(i)[b])
           /\ Content(i, b) \in Seq(Byte) /\ Len(Content(i, b)) = Blobs(i)[b]
<1>1. Content(i, b) \in Seq(Byte) /\ Len(Content(i, b)) = Blobs(i)[b]
  BY BytesAre DEF Content, Part
<1>2. Min2(PrefetchSize, Blobs(i)[b]) \in 0 .. Blobs(i)[b]
  BY StreamAssumption DEF Min2
<1>3. \A k \in 1 .. Min2(PrefetchSize, Blobs(i)[b]) : Content(i, b)[k] \in Byte
  BY <1>1, <1>2
<1> QED BY <1>1, <1>2, <1>3, SubSeqProperties DEF Prefetched

----------------------------------------------------------------------------
(* The steps of a row                                                      *)

IsLob(i, b) == i \in Nat /\ b \in Nat /\ Blobs(i)[b] \in Nat

RowStep(o) ==
    /\ o.n \in Nat
    /\ o.name \in {"inject", "read", "write", "encode", "lob", "end"}
    /\ o.name \in {"inject", "lob", "end"} => o.n = 0
    /\ o.name = "inject" => IsSeq(o.arg)
    /\ o.name = "lob" => IsLob(o.arg[1], o.arg[2])
RowSteps(s) == IsSeq(s) /\ \A k \in DOMAIN s : RowStep(s[k])

LEMMA RowStepsRead == ASSUME NEW s, RowSteps(s) PROVE IsSteps(s)
BY DEF RowSteps, IsSteps, RowStep

LEMMA RowStepsConcat ==
    ASSUME NEW s, NEW t, RowSteps(s), RowSteps(t)
    PROVE  RowSteps(s \o t) /\ Size(s \o t) = Size(s) + Size(t)
<1>1. /\ IsSeq(s \o t) /\ Len(s \o t) = Len(s) + Len(t)
      /\ Len(s) \in Nat /\ Len(t) \in Nat
      /\ DOMAIN s = 1 .. Len(s) /\ DOMAIN t = 1 .. Len(t) /\ DOMAIN (s \o t) = 1 .. Len(s) + Len(t)
      /\ \A i \in 1 .. Len(s) : (s \o t)[i] = s[i]
      /\ \A i \in 1 .. Len(t) : (s \o t)[Len(s) + i] = t[i]
  BY IsSeqConcat, IsSeqLen DEF RowSteps
<1>2. ASSUME NEW k \in 1 .. Len(s) + Len(t) PROVE RowStep((s \o t)[k])
  <2>1. CASE k \in 1 .. Len(s)
    <3>1. (s \o t)[k] = s[k] /\ RowStep(s[k])
      BY <1>1, <2>1 DEF RowSteps
    <3> QED BY <3>1
  <2>2. CASE k \notin 1 .. Len(s)
    <3>1. k - Len(s) \in 1 .. Len(t) /\ Len(s) + (k - Len(s)) = k
      BY <1>1, <2>2
    <3>2. (s \o t)[k] = t[k - Len(s)] /\ RowStep(t[k - Len(s)])
      BY <1>1, <3>1 DEF RowSteps
    <3> QED BY <3>2
  <2> QED BY <2>1, <2>2
<1>3. Size(s \o t) = Size(s) + Size(t)
  BY RowStepsRead, SizeConcat
<1> QED BY <1>1, <1>2, <1>3 DEF RowSteps

LEMMA RowStepsOf ==
    ASSUME NEW S, NEW s \in Seq(S), \A o \in S : RowStep(o)
    PROVE  RowSteps(s)
<1>1. \A k \in DOMAIN s : s[k] \in S
  OBVIOUS
<1> QED BY <1>1, SeqIs DEF RowSteps

LEMMA RowStepsNone == RowSteps(<<>>) /\ Size(<<>>) = 0
<1>1. <<>> \in Seq({}) /\ DOMAIN <<>> = {}
  OBVIOUS
<1>2. IsSeq(<<>>)
  BY <1>1, SeqIs
<1> QED BY <1>1, <1>2, SizeEmpty DEF RowSteps

LEMMA RowStepsOne ==
    ASSUME NEW x, RowStep(x)
    PROVE  RowSteps(<<x>>) /\ Size(<<x>>) = x.n
<1> DEFINE S == {x}
<1>1. <<x>> \in Seq(S) /\ \A o \in S : RowStep(o)
  OBVIOUS
<1> HIDE DEF S
<1>2. RowSteps(<<x>>)
  BY <1>1, RowStepsOf
<1> QED BY <1>2, SizeOne DEF RowStep

LEMMA RowStepsTwo ==
    ASSUME NEW x, NEW y, RowStep(x), RowStep(y)
    PROVE  RowSteps(<<x, y>>) /\ Size(<<x, y>>) = x.n + y.n
<1> DEFINE S == {x, y}
<1>1. <<x, y>> \in Seq(S) /\ \A o \in S : RowStep(o)
  OBVIOUS
<1> HIDE DEF S
<1>2. RowSteps(<<x, y>>)
  BY <1>1, RowStepsOf
<1> QED BY <1>2, SizeTwo DEF RowStep

LEMMA RowStepsThree ==
    ASSUME NEW x, NEW y, NEW z, RowStep(x), RowStep(y), RowStep(z)
    PROVE  RowSteps(<<x, y, z>>) /\ Size(<<x, y, z>>) = x.n + y.n + z.n
<1> DEFINE S == {x, y, z}
<1>1. <<x, y, z>> \in Seq(S) /\ \A o \in S : RowStep(o)
  OBVIOUS
<1> HIDE DEF S
<1>2. RowSteps(<<x, y, z>>)
  BY <1>1, RowStepsOf
<1> QED BY <1>2, SizeThree DEF RowStep

LEMMA RowStepsFour ==
    ASSUME NEW x, NEW y, NEW z, NEW v, RowStep(x), RowStep(y), RowStep(z), RowStep(v)
    PROVE  RowSteps(<<x, y, z, v>>) /\ Size(<<x, y, z, v>>) = x.n + y.n + z.n + v.n
<1> DEFINE S == {x, y, z, v}
<1>1. <<x, y, z, v>> \in Seq(S) /\ \A o \in S : RowStep(o)
  OBVIOUS
<1> HIDE DEF S
<1>2. RowSteps(<<x, y, z, v>>)
  BY <1>1, RowStepsOf
<1> QED BY <1>2, SizeFour DEF RowStep

LEMMA RowStepsFlatten ==
    ASSUME NEW s, IsSeq(s), \A i \in DOMAIN s : RowSteps(s[i])
    PROVE  RowSteps(FlattenSeq(s))
<1>1. IsSeq(FlattenSeq(s))
      /\ Range(FlattenSeq(s)) \subseteq UNION {Range(s[i]) : i \in DOMAIN s}
  BY FlattenIsSeq DEF RowSteps
<1>2. \A o \in UNION {Range(s[i]) : i \in DOMAIN s} : RowStep(o)
  BY DEF RowSteps, Range
<1>3. \A k \in DOMAIN FlattenSeq(s) : FlattenSeq(s)[k] \in Range(FlattenSeq(s))
  BY DEF Range
<1> QED BY <1>1, <1>2, <1>3 DEF RowSteps

LEMMA OpIs ==
    ASSUME NEW name, NEW n, NEW arg
    PROVE  Op(name, n, arg).name = name /\ Op(name, n, arg).n = n /\ Op(name, n, arg).arg = arg
BY DEF Op

LEMMA OneText == ASSUME NEW x PROVE IsSeq(<<x>>) /\ IsSeq(<<>>) /\ Len(<<x>>) = 1 /\ Len(<<>>) = 0
<1>1. <<x>> \in Seq({x}) /\ <<>> \in Seq({x})
  OBVIOUS
<1> QED BY <1>1, SeqIs

LEMMA InjectIs ==
    ASSUME NEW text, IsSeq(text)
    PROVE  RowStep(InjectOp(text)) /\ InjectOp(text).n = 0
BY OpIs DEF RowStep, InjectOp

LEMMA SeparatorIs == ASSUME NEW i, NEW b PROVE IsSeq(Separator(i, b))
BY OneText DEF Separator

\* A LOB column reads the bytes it has in the row.
LEMMA BlobSteps ==
    ASSUME result \in Results, NEW i \in 1 .. Len(Rows), NEW b \in DOMAIN Blobs(i)
    PROVE  /\ RowSteps(BlobOps(i, b))
           /\ BlobBytes(i, b) \in Seq(Byte)
           /\ Size(BlobOps(i, b)) = Len(BlobBytes(i, b)) /\ Len(BlobBytes(i, b)) > 0
<1>1. /\ Blobs(i)[b] \in Nat \cup {Absent, Null} /\ i \in Nat /\ b \in Nat
  BY RowsAre DEF IsRow, Blobs
<1> DEFINE read2 == Op("read", 2, <<>>)
           sep == InjectOp(Separator(i, b))
           key == InjectOp(<<"key">>)
           null == InjectOp(<<"null">>)
           quote == InjectOp(<<"quote">>)
<1>2. /\ RowStep(read2) /\ read2.n = 2 /\ RowStep(sep) /\ sep.n = 0 /\ RowStep(key) /\ key.n = 0
      /\ RowStep(null) /\ null.n = 0 /\ RowStep(quote) /\ quote.n = 0
  BY OpIs, InjectIs, OneText, SeparatorIs DEF RowStep
<1>3. CASE Blobs(i)[b] = Absent
  <2>1. BlobOps(i, b) = <<read2>> /\ BlobBytes(i, b) = Bytes("null", 2)
    BY <1>3 DEF BlobOps, BlobBytes
  <2> HIDE DEF read2
  <2>2. RowSteps(<<read2>>) /\ Size(<<read2>>) = 2
    BY <1>2, RowStepsOne
  <2>3. Bytes("null", 2) \in Seq(Byte) /\ Len(Bytes("null", 2)) = 2
    BY BytesAre DEF Part
  <2>4. RowSteps(BlobOps(i, b)) /\ Size(BlobOps(i, b)) = 2
    BY <2>1, <2>2, Zenon
  <2>5. BlobBytes(i, b) \in Seq(Byte) /\ Len(BlobBytes(i, b)) = 2
    BY <2>1, <2>3, Zenon
  <2> QED BY <2>4, <2>5
<1>4. CASE Blobs(i)[b] = Null
  <2>1. BlobOps(i, b) = <<sep, key>> \o <<read2, null>> /\ BlobBytes(i, b) = Bytes("null", 2)
    BY <1>4, StreamAssumption DEF BlobOps, BlobBytes
  <2> HIDE DEF read2, sep, key, null
  <2>2. RowSteps(<<sep, key>>) /\ Size(<<sep, key>>) = 0 + 0
    BY <1>2, RowStepsTwo
  <2>3. RowSteps(<<read2, null>>) /\ Size(<<read2, null>>) = 2 + 0
    BY <1>2, RowStepsTwo
  <2>4. Bytes("null", 2) \in Seq(Byte) /\ Len(Bytes("null", 2)) = 2
    BY BytesAre DEF Part
  <2>5. RowSteps(<<sep, key>> \o <<read2, null>>)
        /\ Size(<<sep, key>> \o <<read2, null>>) = Size(<<sep, key>>) + Size(<<read2, null>>)
    BY <2>2, <2>3, RowStepsConcat
  <2>6. Size(<<sep, key>> \o <<read2, null>>) = 2
    BY <2>2, <2>3, <2>5
  <2>7. RowSteps(BlobOps(i, b)) /\ Size(BlobOps(i, b)) = 2
    BY <2>1, <2>5, <2>6, Zenon
  <2>8. BlobBytes(i, b) \in Seq(Byte) /\ Len(BlobBytes(i, b)) = 2
    BY <2>1, <2>4, Zenon
  <2> QED BY <2>7, <2>8
<1>5. CASE Blobs(i)[b] \in Nat
  <2> DEFINE n == Len(Prefetched(i, b))
             head == Op("read", LobHeader, <<>>)
             enc == Op("encode", n, <<>>)
             lob == Op("lob", 0, <<i, b>>)
             more == IF Blobs(i)[b] > PrefetchSize THEN <<lob>> ELSE <<>>
             end == Op("end", 0, <<>>)
  <2>1. Prefetched(i, b) \in Seq(Byte) /\ n \in Nat
    BY <1>1, <1>5, PrefetchedIs
  <2>2. BlobOps(i, b) = <<sep, key>> \o ((<<head, quote, enc>> \o more) \o <<end, quote>>)
    BY <1>5, StreamAssumption DEF BlobOps
  <2>3. /\ RowStep(head) /\ head.n = LobHeader /\ RowStep(enc) /\ enc.n = n
        /\ RowStep(lob) /\ lob.n = 0 /\ RowStep(end) /\ end.n = 0
    <3>1. IsLob(i, b) /\ <<i, b>>[1] = i /\ <<i, b>>[2] = b
      BY <1>1, <1>5 DEF IsLob
    <3>2. LobHeader \in Nat
      BY StreamAssumption
    <3> QED BY <2>1, <3>1, <3>2, OpIs DEF RowStep
  <2>4. RowSteps(more) /\ Size(more) = 0
    <3> HIDE DEF lob
    <3> QED BY <2>3, RowStepsOne, RowStepsNone
  <2>5. BlobBytes(i, b) = Bytes("header", LobHeader) \o Prefetched(i, b)
    BY <1>5, StreamAssumption DEF BlobBytes
  <2>6. BlobBytes(i, b) \in Seq(Byte) /\ Len(BlobBytes(i, b)) = LobHeader + n
    <3>1. Bytes("header", LobHeader) \in Seq(Byte) /\ Len(Bytes("header", LobHeader)) = LobHeader
      BY BytesAre, StreamAssumption DEF Part
    <3> QED BY <2>1, <2>5, <3>1, ConcatProperties
  <2> HIDE DEF sep, key, quote, head, enc, more, end, n
  <2>7. RowSteps(<<sep, key>>) /\ Size(<<sep, key>>) = 0 + 0
    BY <1>2, RowStepsTwo
  <2>8. RowSteps(<<head, quote, enc>>) /\ Size(<<head, quote, enc>>) = LobHeader + 0 + n
    BY <1>2, <2>3, RowStepsThree
  <2>9. RowSteps(<<end, quote>>) /\ Size(<<end, quote>>) = 0 + 0
    BY <1>2, <2>3, RowStepsTwo
  <2>10. RowSteps(<<head, quote, enc>> \o more)
         /\ Size(<<head, quote, enc>> \o more) = Size(<<head, quote, enc>>) + Size(more)
    BY <2>4, <2>8, RowStepsConcat
  <2> DEFINE front == <<head, quote, enc>> \o more
  <2> HIDE DEF front
  <2>11. RowSteps(front \o <<end, quote>>)
         /\ Size(front \o <<end, quote>>) = Size(front) + Size(<<end, quote>>)
    BY <2>9, <2>10, RowStepsConcat DEF front
  <2>12. RowSteps(<<sep, key>> \o (front \o <<end, quote>>))
         /\ Size(<<sep, key>> \o (front \o <<end, quote>>)) = Size(<<sep, key>>) + Size(front \o <<end, quote>>)
    BY <2>7, <2>11, RowStepsConcat
  <2>13. Size(<<sep, key>> \o (front \o <<end, quote>>)) = LobHeader + n
    BY <2>1, <2>4, <2>7, <2>8, <2>9, <2>10, <2>11, <2>12, StreamAssumption DEF front
  <2>14. RowSteps(BlobOps(i, b)) /\ Size(BlobOps(i, b)) = LobHeader + n
    BY <2>2, <2>12, <2>13, Zenon DEF front
  <2>15. BlobBytes(i, b) \in Seq(Byte) /\ Len(BlobBytes(i, b)) = LobHeader + n
    BY <2>2, <2>6, Zenon
  <2>16. LobHeader + n > 0
    <3>1. LobHeader \in Nat \ {0} /\ n \in Nat
      BY <2>1, StreamAssumption
    <3> HIDE DEF n
    <3> QED BY <3>1
  <2> HIDE DEF n
  <2>17. Size(BlobOps(i, b)) = Len(BlobBytes(i, b)) /\ Len(BlobBytes(i, b)) > 0
    BY <2>14, <2>15, <2>16, Zenon
  <2> QED BY <2>14, <2>15, <2>17, Zenon
<1> QED BY <1>1, <1>3, <1>4, <1>5

\* A column that nextBlob does not get to reads nothing.
LEMMA NextBlobSteps ==
    ASSUME result \in Results, NEW i \in 1 .. Len(Rows), NEW b \in DOMAIN Blobs(i)
    PROVE  /\ RowSteps(NextBlob(i, b)) /\ Size(NextBlob(i, b)) <= Len(BlobBytes(i, b))
           /\ Size(NextBlob(i, b)) = Len(BlobBytes(i, b)) <=> ~\E c \in 1 .. b - 1 : Stops(i, c)
<1>1. RowSteps(BlobOps(i, b)) /\ Size(BlobOps(i, b)) = Len(BlobBytes(i, b)) /\ Len(BlobBytes(i, b)) > 0
      /\ Len(BlobBytes(i, b)) \in Nat
  <2>1. BlobBytes(i, b) \in Seq(Byte)
    BY BlobSteps
  <2> QED BY <2>1, BlobSteps
<1>2. CASE \E c \in 1 .. b - 1 : Stops(i, c)
  <2>1. NextBlob(i, b) = <<>>
    BY <1>2 DEF NextBlob
  <2>2. RowSteps(NextBlob(i, b)) /\ Size(NextBlob(i, b)) = 0
    BY <2>1, RowStepsNone
  <2> QED BY <1>1, <1>2, <2>2
<1>3. CASE ~\E c \in 1 .. b - 1 : Stops(i, c)
  <2>1. NextBlob(i, b) = BlobOps(i, b)
    BY <1>3 DEF NextBlob
  <2> QED BY <1>1, <1>3, <2>1
<1> QED BY <1>2, <1>3

\* nextBlob gets to all columns if it is stopped by none but the last one.
LEMMA WholeIs ==
    ASSUME result \in Results, NEW i \in 1 .. Len(Rows)
    PROVE  Whole(i) <=> \A b \in DOMAIN Blobs(i) : ~\E c \in 1 .. b - 1 : Stops(i, c)
<1> DEFINE n == Len(Blobs(i))
<1>1. DOMAIN Blobs(i) = 1 .. n /\ n \in Nat
  BY RowsAre DEF IsRow, Blobs
<1>2. ASSUME Whole(i), NEW b \in 1 .. n, NEW c \in 1 .. b - 1, Stops(i, c) PROVE FALSE
  <2>1. c \in 1 .. n /\ c # n
    <3> HIDE DEF n
    <3> QED BY <1>1, <1>2
  <2>2. \A d \in 1 .. n : Stops(i, d) => d = n
    <3>1. \A d \in DOMAIN Blobs(i) : Stops(i, d) => d = n
      BY <1>2, Zenon DEF Whole
    <3> QED BY <1>1, <3>1, Zenon
  <2> HIDE DEF n
  <2> QED BY <1>2, <2>1, <2>2
<1>3. ASSUME \A b \in 1 .. n : ~\E c \in 1 .. b - 1 : Stops(i, c), NEW b \in 1 .. n, Stops(i, b)
      PROVE  b = n
  <2>1. SUFFICES ASSUME b # n PROVE FALSE
    OBVIOUS
  <2>2. n \in 1 .. n /\ b \in 1 .. n - 1
    <3> HIDE DEF n
    <3> QED BY <1>1, <2>1
  <2> HIDE DEF n
  <2> QED BY <1>3, <2>2, Zenon
<1> HIDE DEF n
<1>4. Whole(i) <=> \A b \in 1 .. n : Stops(i, b) => b = n
  BY <1>1 DEF Whole, n
<1> QED BY <1>1, <1>2, <1>3, <1>4

\* A row reads no more bytes than it has, if the levels give its text, and
\* all of them if it is whole.
LEMMA RowReads ==
    ASSUME result \in Results, NEW i \in 1 .. Len(Rows), IsSeq(LevelOf(i).text)
    PROVE  /\ RowSteps(RowOps(i))
           /\ RowBytes(i) \in Seq(Byte)
           /\ Size(RowOps(i)) <= Len(RowBytes(i))
           /\ Size(RowOps(i)) = Len(RowBytes(i)) <=> Whole(i)
<1> DEFINE ops_ == [b \in DOMAIN Blobs(i) |-> NextBlob(i, b)]
           bytes == [b \in DOMAIN Blobs(i) |-> BlobBytes(i, b)]
           json == Rows[i].json
           x == Op("read", HeadSize, <<>>)
           y == InjectOp(LevelOf(i).text)
           z == Op("write", json - 1, <<>>)
           v == Op("read", 1, <<>>)
           S == UNION {Range(NextBlob(i, b)) : b \in DOMAIN Blobs(i)}
<1>1. /\ json \in Nat /\ json - 1 \in Nat /\ HeadSize \in Nat
      /\ DOMAIN Blobs(i) = 1 .. Len(Blobs(i)) /\ Len(Blobs(i)) \in Nat
  BY RowsAre, StreamAssumption DEF IsRow, Blobs
<1>2. /\ IsSeq(ops_) /\ Len(ops_) = Len(Blobs(i))
      /\ IsSeq(bytes) /\ Len(bytes) = Len(Blobs(i)) /\ bytes \in Seq(Seq(Byte))
  <2>1. \A b \in DOMAIN Blobs(i) : BlobBytes(i, b) \in Seq(Byte)
    BY BlobSteps
  <2>2. bytes \in Seq(Seq(Byte))
    BY <1>1, <2>1
  <2>3. ops_ = [b \in 1 .. Len(Blobs(i)) |-> ops_[b]] /\ bytes = [b \in 1 .. Len(Blobs(i)) |-> bytes[b]]
    BY <1>1
  <2> HIDE DEF ops_, bytes
  <2> QED BY <1>1, <2>2, <2>3, FunctionIsSeq
<1>3. /\ \A b \in DOMAIN Blobs(i) : RowSteps(ops_[b]) /\ Size(ops_[b]) <= Len(bytes[b])
      /\ (\A b \in DOMAIN Blobs(i) : Size(ops_[b]) = Len(bytes[b])) <=> Whole(i)
  <2>1. \A b \in DOMAIN Blobs(i) :
            /\ RowSteps(ops_[b]) /\ Size(ops_[b]) <= Len(bytes[b])
            /\ Size(ops_[b]) = Len(bytes[b]) <=> ~\E c \in 1 .. b - 1 : Stops(i, c)
    BY NextBlobSteps
  <2> HIDE DEF ops_, bytes
  <2> QED BY <2>1, WholeIs, Zenon
<1>4. ops_ \in Seq(Seq(S)) /\ \A o \in S : o.n \in Nat
  <2>1. ASSUME NEW b \in DOMAIN Blobs(i) PROVE NextBlob(i, b) \in Seq(S)
    <3>1. NextBlob(i, b) \in Seq(Range(NextBlob(i, b))) /\ Range(NextBlob(i, b)) \subseteq S
      BY NextBlobSteps DEF RowSteps, IsSeq
    <3> QED BY <3>1, SeqMonotonic
  <2>2. \A b \in DOMAIN Blobs(i) : \A k \in DOMAIN NextBlob(i, b) : NextBlob(i, b)[k].n \in Nat
    BY NextBlobSteps DEF RowSteps, RowStep
  <2>3. \A o \in S : o.n \in Nat
    BY <2>2 DEF Range
  <2> HIDE DEF S
  <2>4. ops_ \in Seq(Seq(S))
    BY <1>1, <2>1
  <2> QED BY <2>3, <2>4
<1>5. DOMAIN ops_ = 1 .. Len(ops_) /\ DOMAIN ops_ = DOMAIN Blobs(i)
  BY <1>1, <1>2
<1>6. Bytes("head", HeadSize) \in Seq(Byte) /\ Len(Bytes("head", HeadSize)) = HeadSize
      /\ Json(i) \in Seq(Byte) /\ Len(Json(i)) = json
  <2>1. "head" \in Part /\ <<"json", i>> \in Part
    BY RowsAre DEF Part
  <2> QED BY <1>1, <2>1, BytesAre DEF Json
<1>7. RowOps(i) = <<x, y, z, v>> \o FlattenSeq(ops_)
  BY DEF RowOps
<1>8. RowBytes(i) = (Bytes("head", HeadSize) \o Json(i)) \o FlattenSeq(bytes)
  BY DEF RowBytes
<1>9. RowStep(x) /\ RowStep(y) /\ RowStep(z) /\ RowStep(v)
      /\ x.n = HeadSize /\ y.n = 0 /\ z.n = json - 1 /\ v.n = 1
  BY SMTT(60), <1>1, OpIs, InjectIs DEF RowStep
<1> HIDE DEF ops_, bytes, json, x, y, z, v, S
<1>10. RowSteps(<<x, y, z, v>>) /\ Size(<<x, y, z, v>>) = HeadSize + 0 + (json - 1) + 1
  BY <1>9, RowStepsFour
<1>11. RowSteps(FlattenSeq(ops_))
  BY <1>2, <1>3, <1>5, RowStepsFlatten
<1>12. /\ Size(FlattenSeq(ops_)) <= Len(FlattenSeq(bytes))
       /\ Size(FlattenSeq(ops_)) = Len(FlattenSeq(bytes)) <=> Whole(i)
  <2>1. /\ \A b \in 1 .. Len(ops_) : Size(ops_[b]) <= Len(bytes[b])
        /\ ReadsAll(ops_, bytes, Len(ops_)) <=> Whole(i)
    BY <1>3, <1>5, Zenon DEF ReadsAll
  <2> DEFINE B == Byte
  <2> HIDE DEF B
  <2>2. bytes \in Seq(Seq(B))
    BY <1>2 DEF B
  <2>3. ReadsNoMore(ops_, bytes) /\ ops_ \in Seq(Seq(S)) /\ Reading(S)
    BY <1>2, <1>4, <2>1 DEF ReadsNoMore, Reading
  <2> QED BY <2>1, <2>2, <2>3, SizeFlatten
<1>13. FlattenSeq(bytes) \in Seq(Byte)
  BY <1>2, FlattenType
<1>14. Bytes("head", HeadSize) \o Json(i) \in Seq(Byte)
       /\ Len(Bytes("head", HeadSize) \o Json(i)) = HeadSize + json
  BY <1>6, ConcatProperties
<1>15. RowBytes(i) \in Seq(Byte) /\ Len(RowBytes(i)) = HeadSize + json + Len(FlattenSeq(bytes))
  BY <1>8, <1>13, <1>14, ConcatProperties
<1>16. RowSteps(RowOps(i)) /\ Size(RowOps(i)) = Size(<<x, y, z, v>>) + Size(FlattenSeq(ops_))
  BY <1>7, <1>10, <1>11, RowStepsConcat
<1>17. Len(FlattenSeq(bytes)) \in Nat /\ Size(FlattenSeq(ops_)) \in Nat
  <2>1. IsSteps(FlattenSeq(ops_))
    BY <1>11, RowStepsRead
  <2>2. Len(FlattenSeq(bytes)) \in Nat
    BY <1>13
  <2> QED BY <2>1, <2>2, SizeType
<1>18. Size(RowOps(i)) = HeadSize + json + Size(FlattenSeq(ops_))
  <2>1. HeadSize + 0 + (json - 1) + 1 = HeadSize + json
    BY <1>1
  <2> QED BY <1>10, <1>16, <2>1, Zenon
<1> DEFINE p == Len(FlattenSeq(bytes))
           q == Size(FlattenSeq(ops_))
<1>19. /\ p \in Nat /\ q \in Nat /\ q <= p /\ (q = p <=> Whole(i))
       /\ Len(RowBytes(i)) = HeadSize + json + p /\ Size(RowOps(i)) = HeadSize + json + q
  BY <1>12, <1>15, <1>17, <1>18, Zenon
<1> HIDE DEF p, q
<1>20. Size(RowOps(i)) <= Len(RowBytes(i)) /\ (Size(RowOps(i)) = Len(RowBytes(i)) <=> Whole(i))
  BY <1>1, <1>19
<1> QED BY <1>15, <1>16, <1>20

LEMMA RowBytesAre ==
    ASSUME result \in Results, NEW i \in 1 .. Len(Rows)
    PROVE  RowBytes(i) \in Seq(Byte)
<1> DEFINE bytes == [b \in DOMAIN Blobs(i) |-> BlobBytes(i, b)]
<1>1. /\ Rows[i].json \in Nat /\ HeadSize \in Nat
      /\ DOMAIN Blobs(i) = 1 .. Len(Blobs(i)) /\ Len(Blobs(i)) \in Nat
  BY RowsAre, StreamAssumption DEF IsRow, Blobs
<1>2. \A b \in DOMAIN Blobs(i) : BlobBytes(i, b) \in Seq(Byte)
  BY BlobSteps
<1>3. bytes \in Seq(Seq(Byte))
  BY <1>1, <1>2
<1>4. Bytes("head", HeadSize) \in Seq(Byte) /\ Json(i) \in Seq(Byte)
  <2>1. "head" \in Part /\ <<"json", i>> \in Part
    BY RowsAre DEF Part
  <2> QED BY <1>1, <2>1, BytesAre DEF Json
<1>5. RowBytes(i) = (Bytes("head", HeadSize) \o Json(i)) \o FlattenSeq(bytes)
  BY DEF RowBytes
<1> HIDE DEF bytes
<1>6. FlattenSeq(bytes) \in Seq(Byte)
  BY <1>3, FlattenType
<1>7. Bytes("head", HeadSize) \o Json(i) \in Seq(Byte)
  BY <1>4, ConcatProperties
<1> QED BY <1>5, <1>6, <1>7, ConcatProperties

----------------------------------------------------------------------------
(* Where rows and buffers end                                              *)

LEMMA EndOfNone == EndOf(0) = 0
<1>1. [j \in 1 .. 0 |-> RowBytes(j)] = <<>>
  OBVIOUS
<1> QED BY <1>1, FlattenEmpty DEF EndOf

LEMMA EndOfIs ==
    ASSUME result \in Results, NEW i \in 0 .. Len(Rows)
    PROVE  /\ [j \in 1 .. i |-> RowBytes(j)] \in Seq(Seq(Byte))
           /\ EndOf(i) \in Nat
<1> DEFINE B == Seq(Byte)
           f == [j \in 1 .. i |-> RowBytes(j)]
<1>1. i \in Nat /\ \A j \in 1 .. i : RowBytes(j) \in B
  BY RowsAre, RowBytesAre
<1>2. f \in Seq(B)
  <2> HIDE DEF B
  <2> QED BY <1>1
<1> HIDE DEF f
<1>3. FlattenSeq(f) \in Seq(Byte)
  BY <1>2, FlattenType
<1>4. Len(FlattenSeq(f)) \in Nat
  BY <1>3
<1> QED BY <1>2, <1>4 DEF EndOf, f

LEMMA EndOfStep ==
    ASSUME result \in Results, NEW i \in Nat, i < Len(Rows)
    PROVE  /\ EndOf(i + 1) = EndOf(i) + Len(RowBytes(i + 1))
           /\ EndOf(i) <= EndOf(i + 1)
<1> DEFINE f == [j \in 1 .. i |-> RowBytes(j)]
           g == [j \in 1 .. i + 1 |-> RowBytes(j)]
           x == RowBytes(i + 1)
<1>1. f \in Seq(Seq(Byte)) /\ x \in Seq(Byte)
  BY EndOfIs, RowBytesAre, RowsAre
<1>2. g = Append(f, x)
  <2>1. Len(f) = i
    BY <1>1
  <2>2. g \in Seq(Seq(Byte)) /\ Len(g) = i + 1
    <3> DEFINE B == Seq(Byte)
    <3>1. \A j \in 1 .. i + 1 : RowBytes(j) \in B
      BY RowBytesAre, RowsAre
    <3> HIDE DEF B
    <3>2. g \in Seq(B) /\ Len(g) = i + 1
      BY <3>1
    <3> QED BY <3>2 DEF B
  <2>3. Append(f, x) \in Seq(Seq(Byte)) /\ Len(Append(f, x)) = i + 1
        /\ Append(f, x)[i + 1] = x /\ \A j \in 1 .. i : Append(f, x)[j] = f[j]
    <3> HIDE DEF f, x
    <3> QED BY <1>1, <2>1, AppendProperties
  <2>4. \A j \in 1 .. i + 1 : g[j] = Append(f, x)[j]
    <3>1. g[i + 1] = x /\ \A j \in 1 .. i : g[j] = f[j]
      OBVIOUS
    <3>2. \A j \in 1 .. i + 1 : j = i + 1 \/ j \in 1 .. i
      OBVIOUS
    <3> HIDE DEF f, g, x
    <3> QED BY <2>3, <3>1, <3>2
  <2> HIDE DEF f, g, x
  <2> QED BY <2>2, <2>3, <2>4, SeqEqual
<1> HIDE DEF f, g, x
<1>3. FlattenSeq(g) = FlattenSeq(f) \o x /\ FlattenSeq(f) \in Seq(Byte)
  BY <1>1, <1>2, FlattenAppend, FlattenType
<1>4. Len(FlattenSeq(g)) = Len(FlattenSeq(f)) + Len(x)
  BY <1>1, <1>3, ConcatProperties
<1>5. Len(FlattenSeq(f)) \in Nat /\ Len(x) \in Nat
  BY <1>1, <1>3
<1> QED BY <1>4, <1>5 DEF EndOf, f, g, x

LEMMA EndOfMonotone ==
    ASSUME result \in Results, NEW i \in Nat, NEW j \in Nat, i <= j, j <= Len(Rows)
    PROVE  EndOf(i) <= EndOf(j)
<1> DEFINE P == {m \in Nat : i + m <= Len(Rows) => EndOf(i) <= EndOf(i + m)}
<1>1. \A k \in 0 .. Len(Rows) : EndOf(k) \in Nat
  BY EndOfIs
<1>2. Len(Rows) \in Nat
  BY RowsAre
<1>3. 0 \in P
  BY <1>1, <1>2
<1>4. ASSUME NEW m \in P PROVE m + 1 \in P
  <2> SUFFICES ASSUME i + (m + 1) <= Len(Rows) PROVE EndOf(i) <= EndOf(i + (m + 1))
    OBVIOUS
  <2>1. i + m \in Nat /\ i + m < Len(Rows) /\ (i + m) + 1 = i + (m + 1)
    BY <1>2
  <2>2. EndOf(i + m) <= EndOf((i + m) + 1)
    BY <2>1, EndOfStep
  <2>3. EndOf(i) <= EndOf(i + m)
    BY <1>4, <2>1
  <2>4. EndOf(i) \in Nat /\ EndOf(i + m) \in Nat /\ EndOf(i + (m + 1)) \in Nat
    BY <1>1, <1>2, <2>1
  <2> QED BY <2>1, <2>2, <2>3, <2>4
<1> HIDE DEF P
<1>5. P = Nat
  BY <1>3, <1>4, SetInduction DEF P
<1>6. j - i \in P /\ i + (j - i) = j
  BY <1>5
<1> QED BY <1>6 DEF P

LEMMA BufferEnds ==
    ASSUME result \in Results, NEW i \in 1 .. Len(Rows)
    PROVE  LastOfBuffer(i) \in i .. Len(Rows)
<1> DEFINE Ends(n) == \E c \in DOMAIN result : n = Len(FlattenSeq(SubSeq(result, 1, c)))
           T == {n \in i .. Len(Rows) : Ends(n)}
<1>1. Len(Rows) \in Nat /\ i \in Nat
  BY RowsAre
<1>2. Len(Rows) \in T
  <2>1. DOMAIN result = 1 .. Len(result) /\ Len(result) \in Nat /\ SubSeq(result, 1, Len(result)) = result
    <3> DEFINE U == UNION {Range(result[c]) : c \in DOMAIN result}
    <3>1. result \in Seq(Seq(U))
      BY StreamAssumption
    <3> HIDE DEF U
    <3> QED BY <3>1, SubSeqFull
  <2>2. result # <<>>
    <3>1. Len(<<>>) = 0
      OBVIOUS
    <3> QED BY <1>1, <3>1, FlattenEmpty DEF Rows
  <2>3. Len(result) \in DOMAIN result
    BY <2>1, <2>2, StreamAssumption, EmptySeq
  <2>4. Ends(Len(Rows))
    BY <2>1, <2>3 DEF Rows
  <2> QED BY <1>1, <2>4
<1>3. T \in SUBSET Nat /\ T # {}
  BY <1>1, <1>2
<1>4. PICK n \in T : \A m \in T : n <= m
  BY <1>3, Least
<1>5. /\ n \in 1 .. Len(Rows) /\ n >= i /\ Ends(n)
      /\ \A m \in i .. n - 1 : \A c \in DOMAIN result : m # Len(FlattenSeq(SubSeq(result, 1, c)))
  BY <1>1, <1>4
<1>6. \E k \in 1 .. Len(Rows) :
        /\ k >= i
        /\ \E c \in DOMAIN result : k = Len(FlattenSeq(SubSeq(result, 1, c)))
        /\ \A m \in i .. k - 1 :
             \A c \in DOMAIN result : m # Len(FlattenSeq(SubSeq(result, 1, c)))
  BY <1>5
<1>7. LastOfBuffer(i) \in 1 .. Len(Rows) /\ LastOfBuffer(i) >= i
  BY <1>6 DEF LastOfBuffer
<1> QED BY <1>1, <1>7

----------------------------------------------------------------------------
(* The levels and their texts                                              *)

LevelOK(l) ==
    /\ l = Level(l.index, l.suffix, l.path, l.expands, l.hasProperties)
    /\ IsSeq(l.suffix)
    /\ IsFiniteSet(DOMAIN l.expands)
LevelsOK(ls) == IsSeq(ls) /\ \A i \in DOMAIN ls : LevelOK(ls[i])

LEMMA LevelIs ==
    ASSUME NEW index, NEW suffix, NEW path, NEW expands, NEW has,
           IsSeq(suffix), IsFiniteSet(DOMAIN expands)
    PROVE  LevelOK(Level(index, suffix, path, expands, has))
BY DEF LevelOK, Level

LEMMA LevelChanged ==
    ASSUME NEW l, LevelOK(l), NEW x, NEW y
    PROVE  /\ LevelOK([l EXCEPT !.index = x])
           /\ LevelOK([l EXCEPT !.hasProperties = x])
           /\ LevelOK([[l EXCEPT !.expands = Without(@, y)] EXCEPT !.hasProperties = x])
<1>1. IsFiniteSet(DOMAIN l.expands \ {y}) /\ DOMAIN Without(l.expands, y) = DOMAIN l.expands \ {y}
  BY FS_Subset DEF LevelOK, Without
<1>2. [l EXCEPT !.index = x] = Level(x, l.suffix, l.path, l.expands, l.hasProperties)
  BY DEF LevelOK, Level
<1>3. [l EXCEPT !.hasProperties = x] = Level(l.index, l.suffix, l.path, l.expands, x)
  BY DEF LevelOK, Level
<1>4. [[l EXCEPT !.expands = Without(@, y)] EXCEPT !.hasProperties = x]
      = Level(l.index, l.suffix, l.path, Without(l.expands, y), x)
  <2> DEFINE e == Without(l.expands, y)
  <2> HIDE DEF e
  <2>1. [l EXCEPT !.expands = e] = Level(l.index, l.suffix, l.path, e, l.hasProperties)
    BY DEF LevelOK, Level
  <2>2. [Level(l.index, l.suffix, l.path, e, l.hasProperties) EXCEPT !.hasProperties = x]
        = Level(l.index, l.suffix, l.path, e, x)
    BY DEF Level
  <2>3. [[l EXCEPT !.expands = e] EXCEPT !.hasProperties = x] = Level(l.index, l.suffix, l.path, e, x)
    BY <2>1, <2>2
  <2> QED BY <2>3 DEF e
<1>5. IsSeq(l.suffix) /\ IsFiniteSet(DOMAIN l.expands)
  BY DEF LevelOK
<1> QED BY <1>1, <1>2, <1>3, <1>4, <1>5, LevelIs

LEMMA StepUpIs == ASSUME NEW l, LevelOK(l) PROVE IsSeq(StepUp(l))
<1>1. IsSeq(LeftOver(l))
  <2>1. CASE ~(l.suffix = <<"}">> /\ DOMAIN l.expands # {})
    BY <2>1, OneText DEF LeftOver
  <2>2. CASE l.suffix = <<"}">> /\ DOMAIN l.expands # {}
    <3> DEFINE names == Ascending(DOMAIN l.expands)
               more(n) == Comma(n > 1 \/ l.hasProperties)
               last(n) == <<names[n], IF l.expands[names[n]] = "many" THEN "[]" ELSE "null">>
               texts == [n \in DOMAIN names |-> more(n) \o last(n)]
               k == Cardinality(DOMAIN l.expands)
    <3>1. LeftOver(l) = FlattenSeq(texts)
      BY <2>2 DEF LeftOver
    <3>2. k \in Nat /\ DOMAIN names = 1 .. k
      BY FS_CardinalityType DEF Ascending, LevelOK
    <3>3. ASSUME NEW n \in DOMAIN names PROVE IsSeq(texts[n])
      <4>1. IsSeq(more(n))
        BY OneText DEF Comma
      <4>2. IsSeq(last(n))
        <5> HIDE DEF names
        <5> DEFINE u == names[n]
                   v == IF l.expands[names[n]] = "many" THEN "[]" ELSE "null"
        <5>1. last(n) = <<u, v>>
          OBVIOUS
        <5> HIDE DEF u, v
        <5>2. <<u, v>> \in Seq({u, v})
          OBVIOUS
        <5>3. IsSeq(<<u, v>>)
          BY <5>2, SeqIs
        <5> QED BY <5>1, <5>3
      <4> HIDE DEF more, last, names
      <4> QED BY <4>1, <4>2, IsSeqConcat
    <3>4. texts = [n \in 1 .. k |-> texts[n]] /\ DOMAIN texts = DOMAIN names
      BY <3>2
    <3> HIDE DEF texts, k
    <3>5. IsSeq(texts)
      BY <3>2, <3>4, FunctionIsSeq
    <3> QED BY <3>1, <3>3, <3>4, <3>5, FlattenIsSeq
  <2> QED BY <2>1, <2>2
<1>2. IsSeq(l.suffix)
  BY DEF LevelOK
<1> QED BY <1>1, <1>2, IsSeqConcat DEF StepUp

LEMMA LevelsAppend ==
    ASSUME NEW ls, LevelsOK(ls), NEW ms, LevelsOK(ms)
    PROVE  LevelsOK(ls \o ms)
<1>1. /\ IsSeq(ls \o ms) /\ DOMAIN (ls \o ms) = 1 .. Len(ls) + Len(ms)
      /\ Len(ls) \in Nat /\ Len(ms) \in Nat
      /\ DOMAIN ls = 1 .. Len(ls) /\ DOMAIN ms = 1 .. Len(ms)
      /\ \A i \in 1 .. Len(ls) : (ls \o ms)[i] = ls[i]
      /\ \A i \in 1 .. Len(ms) : (ls \o ms)[Len(ls) + i] = ms[i]
  BY IsSeqConcat, IsSeqLen DEF LevelsOK
<1>2. ASSUME NEW k \in 1 .. Len(ls) + Len(ms) PROVE LevelOK((ls \o ms)[k])
  <2>1. CASE k \in 1 .. Len(ls)
    <3>1. (ls \o ms)[k] = ls[k] /\ LevelOK(ls[k])
      BY <1>1, <2>1 DEF LevelsOK
    <3> QED BY <3>1
  <2>2. CASE k \notin 1 .. Len(ls)
    <3>1. k - Len(ls) \in 1 .. Len(ms) /\ Len(ls) + (k - Len(ls)) = k
      BY <1>1, <2>2
    <3>2. (ls \o ms)[k] = ms[k - Len(ls)] /\ LevelOK(ms[k - Len(ls)])
      BY <1>1, <3>1 DEF LevelsOK
    <3> QED BY <3>2
  <2> QED BY <2>1, <2>2
<1> QED BY <1>1, <1>2 DEF LevelsOK

LEMMA LevelsOne ==
    ASSUME NEW l, LevelOK(l)
    PROVE  LevelsOK(<<l>>)
<1>1. DOMAIN <<l>> = {1} /\ <<l>>[1] = l
  OBVIOUS
<1> QED BY <1>1, OneText DEF LevelsOK

LEMMA LevelsNone == LevelsOK(<<>>)
<1>1. DOMAIN <<>> = {}
  OBVIOUS
<1> QED BY <1>1, OneText DEF LevelsOK

\* One level of a sequence of them changes.
LEMMA LevelsExcept ==
    ASSUME NEW ls, LevelsOK(ls), NEW t, NEW new, t \in DOMAIN ls => LevelOK(new)
    PROVE  LevelsOK([ls EXCEPT ![t] = new])
<1> DEFINE ms == [ls EXCEPT ![t] = new]
           n == Len(ls)
<1>1. n \in Nat /\ DOMAIN ls = 1 .. n
  BY IsSeqLen DEF LevelsOK
<1>2. ms = [i \in DOMAIN ls |-> IF i = t THEN new ELSE ls[i]] /\ DOMAIN ms = 1 .. n
  BY <1>1
<1>3. ms = [i \in 1 .. n |-> ms[i]]
  BY <1>1, <1>2
<1>4. \A i \in 1 .. n : LevelOK(ms[i])
  BY <1>1, <1>2 DEF LevelsOK
<1> HIDE DEF ms, n
<1>5. IsSeq(ms)
  BY <1>1, <1>3, FunctionIsSeq
<1> QED BY <1>2, <1>4, <1>5 DEF LevelsOK, ms

LEMMA CommaIs == ASSUME NEW needed PROVE IsSeq(Comma(needed))
BY OneText DEF Comma

\* The counterpart of Least.
LEMMA Greatest ==
    ASSUME NEW n \in Nat, NEW B, B \subseteq 1 .. n, B # {}
    PROVE  \E i \in B : \A j \in B : j <= i
<1> DEFINE T == {n - i : i \in B}
<1>1. T \in SUBSET Nat
  <2>1. \A i \in B : i \in 1 .. n
    OBVIOUS
  <2>2. \A i \in 1 .. n : n - i \in Nat
    OBVIOUS
  <2> QED BY <2>1, <2>2
<1>2. T # {}
  OBVIOUS
<1>3. PICK x \in T : \A y \in T : x <= y
  BY <1>1, <1>2, Least
<1>4. PICK i \in B : x = n - i
  BY <1>3
<1>5. ASSUME NEW j \in B PROVE j <= i
  <2>1. x <= n - j
    BY <1>3
  <2>2. i \in 1 .. n /\ j \in 1 .. n
    OBVIOUS
  <2> QED BY <1>4, <2>1, <2>2
<1> QED BY <1>5

LEMMA HandleLevelIs ==
    ASSUME NEW ls, LevelsOK(ls), NEW path, NEW expands, IsFiniteSet(DOMAIN expands)
    PROVE  /\ IsSeq(HandleLevel(ls, path, expands).text)
           /\ LevelsOK(HandleLevel(ls, path, expands).levels)
<1> DEFINE below == {i \in DOMAIN ls : IsBelow(path, ls[i])}
           top == IF below = {} THEN 0 ELSE CHOOSE i \in below : \A j \in below : j <= i
           kept == SubSeq(ls, 1, top)
           steps == [i \in 1 .. Len(ls) - top |-> StepUp(ls[Len(ls) + 1 - i])]
           left == FlattenSeq(steps)
           level == ls[top]
           property == Property(path, level)
           own == Level(0, <<"}">>, path, expands, FALSE)
           many == level.expands[property] = "many"
           new == Level(1, IF many THEN <<"]">> ELSE <<>>, SubSeq(path, 1, Len(path) - 1), expands, FALSE)
           opened == <<new, own>>
           nested == [kept EXCEPT ![top].expands = Without(@, property), ![top].hasProperties = TRUE]
           counted == [kept EXCEPT ![top].index = @ + 1]
           t1 == ((left \o Comma(level.hasProperties)) \o <<property>>)
                 \o (IF many THEN <<"[">> ELSE <<>>)
           t2 == left \o Comma(level.index > 0)
<1>1. HandleLevel(ls, path, expands) =
        IF top = 0 THEN [text |-> left, levels |-> <<>>]
        ELSE IF property # 0 /\ property \in DOMAIN level.expands
        THEN [text |-> t1, levels |-> nested \o opened]
        ELSE [text |-> t2, levels |-> Append(counted, own)]
  BY Zenon DEF HandleLevel
<1>2. Len(ls) \in Nat /\ DOMAIN ls = 1 .. Len(ls)
  BY IsSeqLen DEF LevelsOK
<1>3. top \in 0 .. Len(ls)
  <2>1. CASE below = {}
    BY <1>2, <2>1
  <2>2. CASE below # {}
    <3>1. below \subseteq 1 .. Len(ls)
      BY <1>2
    <3> HIDE DEF below
    <3>2. \E i \in below : \A j \in below : j <= i
      BY <1>2, <2>2, <3>1, Greatest
    <3> DEFINE chosen == CHOOSE i \in below : \A j \in below : j <= i
    <3>3. chosen \in below
      BY <3>2
    <3>4. top = chosen
      BY <2>2
    <3> HIDE DEF chosen, top
    <3> QED BY <1>2, <3>1, <3>3, <3>4
  <2> QED BY <2>1, <2>2
<1>4. IsSeq(left)
  <2>1. ASSUME NEW i \in 1 .. Len(ls) - top PROVE IsSeq(steps[i])
    <3>1. Len(ls) + 1 - i \in DOMAIN ls
      BY <1>2, <1>3
    <3>2. LevelOK(ls[Len(ls) + 1 - i])
      BY <3>1 DEF LevelsOK
    <3> QED BY <3>2, StepUpIs
  <2>2. Len(ls) - top \in Nat /\ steps = [i \in 1 .. Len(ls) - top |-> steps[i]]
        /\ DOMAIN steps = 1 .. Len(ls) - top
    BY <1>2, <1>3
  <2> HIDE DEF steps, top
  <2>3. IsSeq(steps)
    BY SMTT(60), <2>2, FunctionIsSeq
  <2> QED BY <2>1, <2>2, <2>3, FlattenIsSeq
<1>5. CASE top = 0
  BY <1>1, <1>4, <1>5, LevelsNone
<1>6. CASE top # 0
  <2>1. /\ kept = [i \in 1 .. top |-> ls[i]] /\ top \in 1 .. Len(ls) /\ level = kept[top]
        /\ DOMAIN kept = 1 .. top
    <3> HIDE DEF top
    <3> QED BY <1>2, <1>3, <1>6
  <2>2. LevelsOK(kept) /\ LevelOK(level)
    <3> HIDE DEF top
    <3>1. IsSeq(kept)
      BY SMTT(60), <1>3, SubSeqIs
    <3>2. \A i \in 1 .. top : LevelOK(ls[i])
      BY <1>2, <1>3 DEF LevelsOK
    <3> HIDE DEF kept
    <3> QED BY <2>1, <3>1, <3>2 DEF LevelsOK
  <2> HIDE DEF top, kept, left
  <2>3. LevelOK(own) /\ LevelOK(new)
    BY OneText, LevelIs
  <2>4. LevelsOK(nested)
    <3> DEFINE x == [[kept[top] EXCEPT !.expands = Without(@, property)] EXCEPT !.hasProperties = TRUE]
    <3>1. LevelOK(x)
      BY <2>1, <2>2, LevelChanged
    <3>2. nested = [kept EXCEPT ![top] = x]
      BY <2>1
    <3> HIDE DEF x, nested
    <3> QED BY <2>2, <3>1, <3>2, LevelsExcept
  <2>5. LevelsOK(counted)
    <3> DEFINE x == [kept[top] EXCEPT !.index = @ + 1]
    <3>1. LevelOK(x)
      BY <2>1, <2>2, LevelChanged
    <3>2. counted = [kept EXCEPT ![top] = x]
      BY <2>1
    <3> HIDE DEF x, counted
    <3> QED BY <2>2, <3>1, <3>2, LevelsExcept
  <2> HIDE DEF own, new, nested, counted
  <2>6. LevelsOK(opened)
    <3>1. <<new, own>> = <<new>> \o <<own>>
      BY TwoAreOneAndOne
    <3> QED BY <2>3, <3>1, LevelsOne, LevelsAppend
  <2>7. Append(counted, own) = counted \o <<own>>
    <3>1. counted \in Seq(Range(counted) \cup {own})
      BY <2>5, SeqMonotonic DEF LevelsOK, IsSeq
    <3> QED BY <3>1, AppendIsConcat
  <2>8. IsSeq(t1)
    <3>1. IsSeq(IF many THEN <<"[">> ELSE <<>>)
      BY OneText
    <3>2. IsSeq(left \o Comma(level.hasProperties))
      BY <1>4, CommaIs, IsSeqConcat
    <3> DEFINE u == IF many THEN <<"[">> ELSE <<>>
               p == property
               v == left \o Comma(level.hasProperties)
    <3> HIDE DEF u, p, v
    <3>3. IsSeq(v \o <<p>>)
      BY <3>2, OneText, IsSeqConcat DEF v
    <3>4. IsSeq((v \o <<p>>) \o u)
      BY <3>1, <3>3, IsSeqConcat DEF u
    <3> QED BY <3>4 DEF u, v, p
  <2>9. IsSeq(t2)
    BY <1>4, CommaIs, IsSeqConcat
  <2> HIDE DEF t1, t2, opened, property, level
  <2>10. LevelsOK(nested \o opened) /\ LevelsOK(Append(counted, own))
    BY <2>3, <2>4, <2>5, <2>6, <2>7, LevelsOne, LevelsAppend
  <2> QED BY <1>1, <1>6, <2>8, <2>9, <2>10
<1> QED BY <1>5, <1>6

LEMMA Unchanged ==
    ASSUME UNCHANGED result
    PROVE  /\ Rows' = Rows /\ \A i \in Nat : Blobs(i)' = Blobs(i)
           /\ \A i \in Nat : RowBytes(i)' = RowBytes(i)
           /\ \A i \in Nat : EndOf(i)' = EndOf(i)
           /\ \A i \in Nat : LastOfBuffer(i)' = LastOfBuffer(i)
           /\ \A i \in Nat : Whole(i)' <=> Whole(i)
<1>1. Rows' = Rows /\ \A i : Blobs(i)' = Blobs(i)
  BY DEF Rows, Blobs
<1>2. \A i \in Nat : RowBytes(i)' = RowBytes(i)
  BY DEF RowBytes, BlobBytes, Blobs, Json, Prefetched, Content, Rows
<1>3. \A i \in Nat : EndOf(i)' = EndOf(i)
  BY DEF EndOf, RowBytes, BlobBytes, Blobs, Json, Prefetched, Content, Rows
<1>4. \A i \in Nat : LastOfBuffer(i)' = LastOfBuffer(i)
  BY DEF LastOfBuffer, Rows
<1>5. \A i \in Nat : Whole(i)' <=> Whole(i)
  BY DEF Whole, Stops, Blobs, Rows
<1> QED BY <1>1, <1>2, <1>3, <1>4, <1>5
----------------------------------------------------------------------------
(* The inductive invariant                                                 *)

CloseStep(o) == o.name = "close" /\ o.n = 0 /\ o.arg \in {"end", "error"}

\* What is left to do for a row; the end of the stream is the last step.
OpsOK ==
    /\ IsSeq(ops)
    /\ \A k \in DOMAIN ops : RowStep(ops[k]) \/ (k = Len(ops) /\ CloseStep(ops[k]))

\* A reader that gets to `at` with the first r rows: to their end if all of
\* them are whole.
InStep(at, r) == at = EndOf(r) <=> \A j \in 1 .. r : Whole(j)

\* What the steps of the current row still read is no more than is left of
\* it, and all of that if no row has been left before its end.
Positions ==
    /\ base \in Nat /\ writing \in Nat /\ reading \in Nat
    /\ base <= writing /\ writing <= reading
    /\ IsRaw => reading + Size(ops) <= EndOf(row)
    /\ IsRaw /\ ended # "thrown" => InStep(reading + Size(ops), row)
    /\ ~IsRaw => ops = <<>> /\ reading = 0
    /\ ended # "no" => ops = <<>>

Memory == IsSeq(mem) /\ Len(mem) = EndOf(Len(Rows))

\* No view reaches beyond what was written.
ViewOK(v, end) == IsSeq(v.text) /\ v.from \in Nat /\ v.to \in Nat /\ v.to <= end
Views == IsSeq(pushed) /\ \A p \in DOMAIN pushed : ViewOK(pushed[p], writing)

StreamInv ==
    /\ result \in Results
    /\ row \in 0 .. Len(Rows)
    /\ prefetch \in Nat
    /\ ended \in {"no", "end", "error", "thrown"}
    /\ IsSeq(pending)
    /\ LevelsOK(levels)
    /\ OpsOK
    /\ Positions
    /\ Memory
    /\ Views

LEMMA OpsRead == ASSUME OpsOK PROVE IsSteps(ops)
BY DEF OpsOK, IsSteps, RowStep, CloseStep

LEMMA RowOpsOK == ASSUME NEW s, RowSteps(s), ops = s PROVE OpsOK
BY DEF RowSteps, OpsOK

\* A step of a row is done.
LEMMA OpsTail ==
    ASSUME OpsOK, ops # <<>>
    PROVE  /\ IsSteps(ops) /\ Size(ops) \in Nat /\ Size(Tail(ops)) \in Nat
           /\ Size(ops) = Head(ops).n + Size(Tail(ops)) /\ Head(ops).n \in Nat
           /\ RowStep(Head(ops)) \/ (CloseStep(Head(ops)) /\ Tail(ops) = <<>>)
           /\ ops' = Tail(ops) /\ UNCHANGED result => OpsOK'
<1>1. /\ IsSteps(ops) /\ IsSteps(Tail(ops)) /\ Head(ops).n \in Nat
      /\ Size(ops) = Head(ops).n + Size(Tail(ops))
  BY OpsRead, SizeTail
<1>2. Size(ops) \in Nat /\ Size(Tail(ops)) \in Nat
  BY <1>1, SizeType
<1>3. /\ Tail(ops) \in Seq(Range(ops)) /\ Len(Tail(ops)) = Len(ops) - 1 /\ Len(ops) \in Nat \ {0}
      /\ DOMAIN ops = 1 .. Len(ops)
      /\ \A i \in 1 .. Len(Tail(ops)) : Tail(ops)[i] = ops[i + 1]
      /\ Head(ops) = ops[1]
  BY HeadTailProperties, IsSeqLen, EmptySeq DEF OpsOK, IsSeq
<1>4. RowStep(Head(ops)) \/ (CloseStep(Head(ops)) /\ Tail(ops) = <<>>)
  <2>1. RowStep(ops[1]) \/ (1 = Len(ops) /\ CloseStep(ops[1]))
    BY <1>3 DEF OpsOK
  <2>2. ASSUME 1 = Len(ops) PROVE Tail(ops) = <<>>
    <3>1. Len(Tail(ops)) = 1 - 1
      BY <1>3, <2>2, Zenon
    <3>2. Len(Tail(ops)) = 0
      BY <3>1
    <3> QED BY <1>3, <3>2, EmptySeq
  <2> QED BY <1>3, <2>1, <2>2
<1>5. IsSeq(Tail(ops)) /\ DOMAIN Tail(ops) = 1 .. Len(Tail(ops))
  BY <1>3, SeqIs, IsSeqLen
<1>6. ASSUME NEW k \in DOMAIN Tail(ops)
      PROVE  RowStep(Tail(ops)[k]) \/ (k = Len(Tail(ops)) /\ CloseStep(Tail(ops)[k]))
  <2>1. k + 1 \in DOMAIN ops /\ Tail(ops)[k] = ops[k + 1] /\ (k + 1 = Len(ops) => k = Len(Tail(ops)))
    BY <1>3, <1>5
  <2>2. RowStep(ops[k + 1]) \/ (k + 1 = Len(ops) /\ CloseStep(ops[k + 1]))
    BY <2>1 DEF OpsOK
  <2> QED BY <2>1, <2>2
<1>7. ASSUME ops' = Tail(ops), UNCHANGED result PROVE OpsOK'
  <2>1. \A o : RowStep(o)' <=> RowStep(o)
    BY <1>7 DEF RowStep, IsLob, Blobs, Rows
  <2>2. \A o : CloseStep(o)' <=> CloseStep(o)
    BY DEF CloseStep
  <2> QED BY <1>5, <1>6, <1>7, <2>1, <2>2 DEF OpsOK
<1> QED BY <1>1, <1>2, <1>4, <1>7

\* Encoding makes a sequence of a sequence.
LEMMA EncodedIs ==
    ASSUME NEW bytes, IsSeq(bytes)
    PROVE  IsSeq(Encoded(bytes)) /\ IsSeq(Rest(bytes)) /\ IsSeq(EncodedEnd(bytes))
<1> DEFINE n == Len(bytes) \div 3
           f == [g \in DOMAIN Groups(bytes) |-> [k \in 1 .. 4 |-> <<Groups(bytes)[g], k>>]]
<1>1. Len(bytes) \in Nat /\ n \in Nat
  BY IsSeqLen
<1>2. DOMAIN Groups(bytes) = 1 .. n
  BY DEF Groups
<1>3. ASSUME NEW x PROVE IsSeq([k \in 1 .. 4 |-> <<x, k>>])
  <2> DEFINE q == [k \in 1 .. 4 |-> <<x, k>>]
  <2>1. q = [k \in 1 .. 4 |-> q[k]]
    OBVIOUS
  <2> HIDE DEF q
  <2>2. IsSeq(q)
    BY <2>1, FunctionIsSeq
  <2> QED BY <2>2 DEF q
<1>4. IsSeq(Encoded(bytes))
  <2>1. f = [g \in 1 .. n |-> f[g]] /\ DOMAIN f = 1 .. n
    BY <1>2
  <2>2. \A g \in DOMAIN f : IsSeq(f[g])
    BY <1>3
  <2>3. Encoded(bytes) = FlattenSeq(f)
    BY DEF Encoded
  <2> HIDE DEF f, n
  <2>4. IsSeq(f)
    BY <1>1, <2>1, FunctionIsSeq
  <2> QED BY <2>2, <2>3, <2>4, FlattenIsSeq
<1>5. IsSeq(Rest(bytes))
  <2>1. 3 * n + 1 \in Int /\ Len(bytes) \in Int
    BY <1>1
  <2> QED BY <2>1, SubSeqIs DEF Rest
<1>6. IsSeq(EncodedEnd(bytes))
  BY <1>3, OneText DEF EncodedEnd
<1> QED BY <1>4, <1>5, <1>6

\* Writing to memory changes what lies above the position only.
LEMMA PutIs ==
    ASSUME NEW at \in Nat, NEW text, IsSeq(text), IsSeq(mem), Put(at, text)
    PROVE  /\ IsSeq(mem') /\ Len(mem') = Len(mem)
           /\ \A a \in 1 .. at : a <= Len(mem) => mem'[a] = mem[a]
<1>1. Len(mem) \in Nat /\ DOMAIN mem = 1 .. Len(mem) /\ Len(text) \in Nat
  BY IsSeqLen
<1>2. mem' = [a \in 1 .. Len(mem) |-> mem'[a]]
  BY <1>1 DEF Put
<1>3. IsSeq(mem') /\ Len(mem') = Len(mem)
  BY <1>1, <1>2, FunctionIsSeq
<1>4. ASSUME NEW a \in 1 .. at, a <= Len(mem) PROVE mem'[a] = mem[a]
  <2>1. a \notin at + 1 .. at + Len(text) /\ a \in DOMAIN mem
    BY <1>1, <1>4
  <2> QED BY <2>1 DEF Put
<1> QED BY <1>3, <1>4

----------------------------------------------------------------------------
(* What a step of a stream may do                                          *)

\* More is pushed; memory keeps what was written.
Grown == \E new : /\ IsSeq(new) /\ \A p \in DOMAIN new : ViewOK(new[p], writing')
                  /\ pushed' = pushed \o new
Kept == /\ IsSeq(mem') /\ Len(mem') = Len(mem)
        /\ \A a \in 1 .. writing : a <= Len(mem) => mem'[a] = mem[a]
Advance ==
    /\ Grown /\ Kept
    /\ base' \in Nat /\ writing' \in Nat
    /\ base' <= writing' /\ writing' <= reading' /\ writing <= writing'

LEMMA ViewsGrow ==
    ASSUME Views, writing \in Nat, Advance
    PROVE  Views'
<1>1. PICK new : /\ IsSeq(new) /\ \A p \in DOMAIN new : ViewOK(new[p], writing')
                 /\ pushed' = pushed \o new
  BY DEF Advance, Grown
<1>2. /\ IsSeq(pushed \o new) /\ DOMAIN (pushed \o new) = 1 .. Len(pushed) + Len(new)
      /\ Len(pushed) \in Nat /\ Len(new) \in Nat
      /\ DOMAIN pushed = 1 .. Len(pushed) /\ DOMAIN new = 1 .. Len(new)
      /\ \A i \in 1 .. Len(pushed) : (pushed \o new)[i] = pushed[i]
      /\ \A i \in 1 .. Len(new) : (pushed \o new)[Len(pushed) + i] = new[i]
  BY <1>1, IsSeqConcat, IsSeqLen DEF Views
<1>3. ASSUME NEW v, ViewOK(v, writing) PROVE ViewOK(v, writing')
  BY <1>3 DEF ViewOK, Advance
<1>4. ASSUME NEW k \in 1 .. Len(pushed) + Len(new) PROVE ViewOK((pushed \o new)[k], writing')
  <2>1. CASE k \in 1 .. Len(pushed)
    <3>1. (pushed \o new)[k] = pushed[k] /\ ViewOK(pushed[k], writing)
      BY <1>2, <2>1 DEF Views
    <3> QED BY <1>3, <3>1
  <2>2. CASE k \notin 1 .. Len(pushed)
    <3>1. k - Len(pushed) \in 1 .. Len(new) /\ Len(pushed) + (k - Len(pushed)) = k
      BY <1>2, <2>2
    <3>2. (pushed \o new)[k] = new[k - Len(pushed)] /\ ViewOK(new[k - Len(pushed)], writing')
      BY <1>1, <1>2, <3>1
    <3> QED BY <3>2
  <2> QED BY <2>1, <2>2
<1>5. \A v, e : ViewOK(v, e)' <=> ViewOK(v, e')
  BY DEF ViewOK
<1> QED BY <1>1, <1>2, <1>4 DEF Views, ViewOK

\* What the client gets of a text or a view.
Given(v, m) == IF v.text # <<>> THEN v.text ELSE SubSeq(m, v.from + 1, v.to)

LEMMA OutputGrows ==
    ASSUME Views, Memory, writing \in Nat, writing <= Len(mem), Advance
    PROVE  IsPrefix(Output, Output')
<1>1. PICK new : /\ IsSeq(new) /\ \A p \in DOMAIN new : ViewOK(new[p], writing')
                 /\ pushed' = pushed \o new
  BY DEF Advance, Grown
<1>2. /\ IsSeq(pushed \o new) /\ DOMAIN (pushed \o new) = 1 .. Len(pushed) + Len(new)
      /\ Len(pushed) \in Nat /\ Len(new) \in Nat
      /\ DOMAIN pushed = 1 .. Len(pushed) /\ DOMAIN new = 1 .. Len(new)
      /\ \A i \in 1 .. Len(pushed) : (pushed \o new)[i] = pushed[i]
      /\ \A i \in 1 .. Len(new) : (pushed \o new)[Len(pushed) + i] = new[i]
  BY <1>1, IsSeqConcat, IsSeqLen DEF Views
<1> DEFINE f == [p \in DOMAIN pushed |-> Given(pushed[p], mem)]
           g == [p \in DOMAIN new |-> Given(new[p], mem')]
           h == [p \in DOMAIN pushed' |-> Given(pushed'[p], mem')]
<1>3. Output = FlattenSeq(f) /\ Output' = FlattenSeq(h)
  BY DEF Output, Given
<1>4. ASSUME NEW v, NEW e, ViewOK(v, e), NEW m PROVE IsSeq(Given(v, m))
  <2>1. v.from + 1 \in Int /\ v.to \in Int /\ IsSeq(v.text)
    BY <1>4 DEF ViewOK
  <2> QED BY <2>1, SubSeqIs DEF Given
<1>5. ASSUME NEW p \in DOMAIN pushed PROVE Given(pushed[p], mem') = Given(pushed[p], mem)
  <2> DEFINE from == pushed[p].from
             to == pushed[p].to
  <2>1. from \in Nat /\ to \in Nat /\ to <= writing
    BY DEF Views, ViewOK
  <2>2. Len(mem) \in Nat
    BY IsSeqLen DEF Memory
  <2>3. /\ IsSeq(SubSeq(mem, from + 1, to)) /\ IsSeq(SubSeq(mem', from + 1, to))
        /\ Len(SubSeq(mem, from + 1, to)) = Len(SubSeq(mem', from + 1, to))
        /\ Len(SubSeq(mem, from + 1, to)) = IF from + 1 <= to THEN to - (from + 1) + 1 ELSE 0
        /\ \A i \in 1 .. to - (from + 1) + 1 :
             SubSeq(mem, from + 1, to)[i] = mem[from + 1 + i - 1]
             /\ SubSeq(mem', from + 1, to)[i] = mem'[from + 1 + i - 1]
    <3>1. from + 1 \in Int /\ to \in Int
      BY <2>1
    <3> HIDE DEF from, to
    <3> QED BY <3>1, SubSeqIs
  <2> HIDE DEF from, to
  <2>4. ASSUME NEW i \in 1 .. Len(SubSeq(mem, from + 1, to))
        PROVE  SubSeq(mem, from + 1, to)[i] = SubSeq(mem', from + 1, to)[i]
    <3>1. i \in 1 .. to - (from + 1) + 1 /\ from + 1 + i - 1 \in 1 .. writing
          /\ from + 1 + i - 1 <= Len(mem)
      BY <2>1, <2>2, <2>3
    <3>2. mem'[from + 1 + i - 1] = mem[from + 1 + i - 1]
      BY <3>1 DEF Advance, Kept
    <3> QED BY <2>3, <3>1, <3>2
  <2>5. SubSeq(mem, from + 1, to) = SubSeq(mem', from + 1, to)
    BY <2>3, <2>4, SameSeq
  <2> QED BY <2>5 DEF Given, from, to
<1>6. h = f \o g
  <2> HIDE DEF f, g, h
  <2>1. IsSeq(h) /\ IsSeq(f) /\ IsSeq(g) /\ Len(h) = Len(pushed) + Len(new) /\ Len(f) = Len(pushed) /\ Len(g) = Len(new)
    <3>1. h = [p \in 1 .. Len(pushed) + Len(new) |-> h[p]] /\ f = [p \in 1 .. Len(pushed) |-> f[p]]
          /\ g = [p \in 1 .. Len(new) |-> g[p]]
      BY <1>1, <1>2 DEF f, g, h
    <3>2. Len(pushed) + Len(new) \in Nat
      BY <1>2
    <3> QED BY <1>2, <3>1, <3>2, FunctionIsSeq
  <2>2. /\ IsSeq(f \o g) /\ Len(f \o g) = Len(pushed) + Len(new)
        /\ \A i \in 1 .. Len(pushed) : (f \o g)[i] = f[i]
        /\ \A i \in 1 .. Len(new) : (f \o g)[Len(pushed) + i] = g[i]
    BY SMTT(60), <2>1, IsSeqConcat
  <2>3. ASSUME NEW k \in 1 .. Len(pushed) + Len(new) PROVE h[k] = (f \o g)[k]
    <3>1. h[k] = Given((pushed \o new)[k], mem')
      BY <1>1, <1>2 DEF h
    <3>2. CASE k \in 1 .. Len(pushed)
      <4>1. h[k] = Given(pushed[k], mem') /\ f[k] = Given(pushed[k], mem) /\ (f \o g)[k] = f[k]
        BY <1>2, <2>2, <3>1, <3>2 DEF f
      <4>2. Given(pushed[k], mem') = Given(pushed[k], mem)
        BY <1>2, <1>5, <3>2
      <4> QED BY <4>1, <4>2
    <3>3. CASE k \notin 1 .. Len(pushed)
      <4>1. k - Len(pushed) \in 1 .. Len(new) /\ Len(pushed) + (k - Len(pushed)) = k
        BY <1>2, <3>3
      <4>2. h[k] = Given(new[k - Len(pushed)], mem')
        BY <1>2, <3>1, <4>1
      <4>3. g[k - Len(pushed)] = Given(new[k - Len(pushed)], mem')
        BY <1>2, <4>1 DEF g
      <4>4. (f \o g)[k] = g[k - Len(pushed)]
        BY <2>2, <4>1
      <4> QED BY <4>2, <4>3, <4>4
    <3> QED BY <3>2, <3>3
  <2> QED BY <2>1, <2>2, <2>3, SameSeq
<1>7. /\ IsSeq(f) /\ \A p \in DOMAIN f : IsSeq(f[p])
      /\ IsSeq(g) /\ \A p \in DOMAIN g : IsSeq(g[p])
  <2>1. f = [p \in 1 .. Len(pushed) |-> f[p]] /\ g = [p \in 1 .. Len(new) |-> g[p]]
        /\ DOMAIN f = DOMAIN pushed /\ DOMAIN g = DOMAIN new
    BY <1>2
  <2>2. \A p \in DOMAIN pushed : IsSeq(f[p])
    BY <1>4 DEF Views
  <2>3. \A p \in DOMAIN new : IsSeq(g[p])
    BY <1>1, <1>4
  <2> HIDE DEF f, g
  <2>4. IsSeq(f) /\ IsSeq(g)
    BY <1>2, <2>1, FunctionIsSeq
  <2> QED BY <2>1, <2>2, <2>3, <2>4
<1> HIDE DEF f, g, h
<1> QED BY <1>3, <1>6, <1>7, FlattenPrefix

LEMMA ViewIs ==
    ASSUME NEW from \in Nat, NEW to \in Nat, NEW end, to <= end
    PROVE  ViewOK(View(from, to), end)
BY OneText DEF ViewOK, View

LEMMA TextIs ==
    ASSUME NEW text, IsSeq(text), NEW end \in Nat
    PROVE  ViewOK(Text(text), end)
BY DEF ViewOK, Text

LEMMA GrownNone == ASSUME Views, UNCHANGED pushed PROVE Grown
<1>1. DOMAIN <<>> = {} /\ IsSeq(<<>>)
  <2>1. DOMAIN <<>> = {}
    OBVIOUS
  <2> QED BY <2>1, OneText
<1>2. pushed \in Seq(Range(pushed))
  BY DEF Views, IsSeq
<1>3. pushed \o <<>> = pushed
  BY <1>2, ConcatEmptySeq
<1> QED BY <1>1, <1>3 DEF Grown

LEMMA GrownOne ==
    ASSUME Views, NEW v, ViewOK(v, writing'), pushed' = Append(pushed, v)
    PROVE  Grown
<1>1. DOMAIN <<v>> = {1} /\ <<v>>[1] = v /\ IsSeq(<<v>>)
  BY OneText
<1>2. pushed \in Seq(Range(pushed) \cup {v})
  BY SeqMonotonic DEF Views, IsSeq
<1>3. Append(pushed, v) = pushed \o <<v>>
  BY <1>2, AppendIsConcat
<1> QED BY <1>1, <1>3 DEF Grown

LEMMA GrownTwo ==
    ASSUME NEW v, NEW w, ViewOK(v, writing'), ViewOK(w, writing'), pushed' = pushed \o <<v, w>>
    PROVE  Grown
<1>1. DOMAIN <<v, w>> = {1, 2} /\ <<v, w>>[1] = v /\ <<v, w>>[2] = w /\ <<v, w>> \in Seq({v, w})
  OBVIOUS
<1>2. IsSeq(<<v, w>>)
  BY <1>1, SeqIs
<1> QED BY <1>1, <1>2 DEF Grown

LEMMA KeptSame == ASSUME Memory, UNCHANGED mem PROVE Kept
BY DEF Memory, Kept

\* A text is injected.
LEMMA InjectAdvances ==
    ASSUME StreamInv, NEW text, IsSeq(text), Inject(text), UNCHANGED reading
    PROVE  Advance
<1> USE DEF StreamInv, Positions
<1>1. Len(text) \in Nat
  BY IsSeqLen
<1>2. CASE text = <<>>
  <2>1. UNCHANGED <<mem, base, writing, pushed>>
    BY <1>2 DEF Inject
  <2>2. Grown /\ Kept
    BY <2>1, GrownNone, KeptSame
  <2> QED BY <2>1, <2>2 DEF Advance
<1>3. CASE text # <<>> /\ writing + Len(text) > reading
  <2>1. /\ pushed' = pushed \o <<View(base, writing), Text(text)>>
        /\ base' = reading /\ writing' = reading /\ UNCHANGED mem
    BY <1>3 DEF Inject
  <2>2. ViewOK(View(base, writing), writing') /\ ViewOK(Text(text), writing')
    BY <2>1, ViewIs, TextIs
  <2>3. Grown /\ Kept
    BY <2>1, <2>2, GrownTwo, KeptSame
  <2> QED BY <2>1, <2>3 DEF Advance
<1>4. CASE text # <<>> /\ ~(writing + Len(text) > reading)
  <2>1. Put(writing, text) /\ writing' = writing + Len(text) /\ UNCHANGED <<base, pushed>>
    BY <1>4 DEF Inject
  <2>2. Grown /\ Kept
    BY <2>1, GrownNone, PutIs DEF Memory, Kept
  <2> QED BY <1>1, <1>4, <2>1, <2>2 DEF Advance
<1> QED BY <1>2, <1>3, <1>4

\* How far the bytes go.
LEMMA WithinMemory ==
    ASSUME StreamInv
    PROVE  /\ reading <= Len(mem) /\ writing <= Len(mem)
           /\ ops = <<>> => reading <= BufferEnd
<1> USE DEF StreamInv, Positions
<1>1. Size(ops) \in Nat /\ Len(Rows) \in Nat
  BY OpsRead, SizeType, RowsAre
<1>2. EndOf(row) \in Nat /\ EndOf(row) <= EndOf(Len(Rows)) /\ EndOf(Len(Rows)) \in Nat
  BY <1>1, EndOfIs, EndOfMonotone
<1>3. Len(mem) = EndOf(Len(Rows))
  BY DEF Memory
<1>4. reading <= EndOf(row)
  BY <1>1, <1>2
<1>5. EndOf(row) <= BufferEnd /\ (row = 0 => BufferEnd = 0 /\ EndOf(row) = 0)
  <2>1. CASE row = 0
    BY <2>1, EndOfNone DEF BufferEnd
  <2>2. CASE row # 0
    <3>1. row \in 1 .. Len(Rows)
      BY <1>1, <2>2
    <3>2. LastOfBuffer(row) \in row .. Len(Rows)
      BY <3>1, BufferEnds
    <3>3. EndOf(row) <= EndOf(LastOfBuffer(row))
      BY <1>1, <3>1, <3>2, EndOfMonotone
    <3> QED BY <2>2, <3>3 DEF BufferEnd
  <2> QED BY <2>1, <2>2
<1>6. BufferEnd \in Nat
  <2>1. CASE row = 0
    BY <2>1 DEF BufferEnd
  <2>2. CASE row # 0
    <3>1. LastOfBuffer(row) \in 0 .. Len(Rows)
      BY <1>1, <2>2, BufferEnds
    <3> QED BY <2>2, <3>1, EndOfIs DEF BufferEnd
  <2> QED BY <2>1, <2>2
<1> QED BY <1>1, <1>2, <1>3, <1>4, <1>5, <1>6

LEMMA InvTypeOK == StreamInv => TypeOK
BY WithinMemory DEF TypeOK, StreamInv, Positions

\* What a step of raw mode has to do to keep the invariant.
LEMMA RawStep ==
    ASSUME StreamInv, UNCHANGED <<result, mode>>,
           row' \in 0 .. Len(Rows), prefetch' \in Nat, ended' \in {"no", "end", "error", "thrown"},
           IsSeq(pending'), LevelsOK(levels)', OpsOK', Advance,
           reading' \in Nat,
           IsRaw => reading' + Size(ops') <= EndOf(row'),
           IsRaw /\ ended' # "thrown" => InStep(reading' + Size(ops'), row'),
           ~IsRaw => ops' = <<>> /\ reading' = 0,
           ended' # "no" => ops' = <<>>
    PROVE  StreamInv' /\ IsPrefix(Output, Output')
<1>1. writing \in Nat /\ writing <= Len(mem) /\ Views /\ Memory
  BY WithinMemory DEF StreamInv, Positions
<1>2. Views' /\ IsPrefix(Output, Output')
  BY <1>1, ViewsGrow, OutputGrows
<1>3. Len(Rows) \in Nat /\ Rows' = Rows
  BY RowsAre DEF StreamInv, Rows
<1>4. Memory'
  <2>1. EndOf(Len(Rows))' = EndOf(Len(Rows))
    BY <1>3 DEF EndOf, RowBytes, BlobBytes, Blobs, Json, Prefetched, Content, Rows
  <2>2. IsSeq(mem)' /\ Len(mem') = Len(mem)
    BY DEF Advance, Kept, IsSeq
  <2> QED BY SMTT(60), <1>1, <2>1, <2>2 DEF Memory
<1>5. Positions'
  <2>1. EndOf(row)' = EndOf(row') /\ (IsRaw' <=> IsRaw) /\ Size(ops)' = Size(ops')
    BY <1>3, Unchanged DEF IsRaw, Size, Bytes
  <2>2. InStep(reading + Size(ops), row)' <=> InStep(reading' + Size(ops'), row')
    <3>1. \A j \in 1 .. row' : Whole(j)' <=> Whole(j)
      BY <1>3, Unchanged
    <3> QED BY <2>1, <3>1 DEF InStep
  <2> QED BY <2>1, <2>2 DEF Positions, Advance
<1> QED BY <1>2, <1>3, <1>4, <1>5 DEF StreamInv, IsSeq

\* The next step of the row, of which the size is known.
LEMMA NextOp ==
    ASSUME StreamInv, ops # <<>>, UNCHANGED <<result, mode, row>>, ops' = Tail(ops),
           reading' = reading + Head(ops).n
    PROVE  /\ row' \in 0 .. Len(Rows) /\ OpsOK' /\ reading' \in Nat /\ IsRaw /\ ended = "no"
           /\ reading' + Size(ops') <= EndOf(row') /\ InStep(reading' + Size(ops'), row')
<1> USE DEF StreamInv
<1>1. /\ Size(ops) \in Nat /\ Size(Tail(ops)) \in Nat /\ Head(ops).n \in Nat
      /\ Size(ops) = Head(ops).n + Size(Tail(ops)) /\ OpsOK'
  BY OpsTail
<1>2. /\ reading \in Nat /\ IsRaw /\ ended = "no"
      /\ reading + Size(ops) <= EndOf(row) /\ InStep(reading + Size(ops), row)
  BY DEF Positions
<1>3. row' = row /\ Size(ops') = Size(Tail(ops))
  OBVIOUS
<1>4. (reading + Head(ops).n) + Size(Tail(ops)) = reading + Size(ops)
  BY SMTT(60), <1>1, <1>2
<1>5. reading' + Size(ops') = reading + Size(ops)
  BY <1>3, <1>4
<1>6. reading' + Size(ops') <= EndOf(row') /\ InStep(reading' + Size(ops'), row')
  BY <1>2, <1>3, <1>5
<1> QED BY SMTT(60), <1>1, <1>2, <1>6

LEMMA InvRawInject == ASSUME StreamInv, RawInject PROVE StreamInv' /\ IsPrefix(Output, Output')
<1> USE DEF RawInject
<1>1. Head(ops).n = 0 /\ IsSeq(Head(ops).arg)
  BY OpsTail DEF StreamInv, RowStep, CloseStep
<1>2. reading' = reading + Head(ops).n /\ reading' \in Nat
  BY <1>1 DEF StreamInv, Positions
<1>3. Advance
  BY <1>1, InjectAdvances
<1>4. /\ row' \in 0 .. Len(Rows) /\ OpsOK' /\ reading' \in Nat /\ IsRaw /\ ended = "no"
      /\ reading' + Size(ops') <= EndOf(row') /\ InStep(reading' + Size(ops'), row')
  BY <1>2, NextOp
<1>5. LevelsOK(levels)' /\ IsSeq(pending')
  BY DEF StreamInv, LevelsOK, LevelOK, Level, IsSeq
<1> QED BY <1>3, <1>4, <1>5, RawStep DEF StreamInv

LEMMA InvRawRead == ASSUME StreamInv, RawRead PROVE StreamInv' /\ IsPrefix(Output, Output')
<1> USE DEF RawRead
<1>1. Head(ops).n \in Nat
  BY OpsTail DEF StreamInv
<1>2. Advance
  <2>1. Grown /\ Kept
    BY GrownNone, KeptSame DEF StreamInv
  <2> QED BY <1>1, <2>1 DEF Advance, StreamInv, Positions
<1>4. /\ row' \in 0 .. Len(Rows) /\ OpsOK' /\ reading' \in Nat /\ IsRaw /\ ended = "no"
      /\ reading' + Size(ops') <= EndOf(row') /\ InStep(reading' + Size(ops'), row')
  BY NextOp
<1>5. LevelsOK(levels)' /\ IsSeq(pending')
  BY DEF StreamInv, LevelsOK, LevelOK, Level, IsSeq
<1> QED BY <1>2, <1>4, <1>5, RawStep DEF StreamInv

LEMMA InvRawWrite == ASSUME StreamInv, RawWrite PROVE StreamInv' /\ IsPrefix(Output, Output')
<1> USE DEF RawWrite
<1>1. Head(ops).n \in Nat
  BY OpsTail DEF StreamInv
<1>2. Advance
  <2> DEFINE text == SubSeq(mem, reading + 1, reading + Head(ops).n)
  <2>1. IsSeq(text)
    BY <1>1, SubSeqIs DEF StreamInv, Positions
  <2>2. Put(writing, text) /\ writing \in Nat /\ IsSeq(mem)
    BY DEF StreamInv, Positions, Memory
  <2> HIDE DEF text
  <2>3. Grown /\ Kept
    BY <2>1, <2>2, PutIs, GrownNone DEF StreamInv, Kept
  <2> QED BY SMTT(60), <1>1, <2>3 DEF Advance, StreamInv, Positions
<1>4. /\ row' \in 0 .. Len(Rows) /\ OpsOK' /\ reading' \in Nat /\ IsRaw /\ ended = "no"
      /\ reading' + Size(ops') <= EndOf(row') /\ InStep(reading' + Size(ops'), row')
  BY NextOp
<1>5. LevelsOK(levels)' /\ IsSeq(pending')
  BY DEF StreamInv, LevelsOK, LevelOK, Level, IsSeq
<1> QED BY <1>2, <1>4, <1>5, RawStep DEF StreamInv

LEMMA InvRawEncode == ASSUME StreamInv, RawEncode PROVE StreamInv' /\ IsPrefix(Output, Output')
<1> DEFINE n == Head(ops).n
           bytes == pending \o SubSeq(mem, reading + 1, reading + n)
           text == Encoded(bytes)
           after == writing + Len(text)
<1>0. /\ ops # <<>> /\ ops' = Tail(ops) /\ pending' = Rest(bytes) /\ prefetch' = n
      /\ reading' = reading + n
      /\ IF after > BufferEnd \/ after > reading'
         THEN /\ pushed' = pushed \o <<View(base, writing), Text(text)>>
              /\ base' = reading' /\ writing' = reading'
         ELSE writing' = after /\ UNCHANGED <<base, pushed>>
      /\ UNCHANGED <<result, mode, row, levels, mem, lobs, ended>>
  BY DEF RawEncode
<1>1. n \in Nat /\ reading \in Nat /\ writing \in Nat /\ base \in Nat /\ base <= writing /\ writing <= reading
  BY <1>0, OpsTail DEF StreamInv, Positions
<1>2. IsSeq(bytes)
  <2>1. IsSeq(SubSeq(mem, reading + 1, reading + n))
    BY <1>1, SubSeqIs
  <2> QED BY <2>1, IsSeqConcat DEF StreamInv
<1> HIDE DEF bytes
<1>3. IsSeq(text) /\ IsSeq(pending') /\ Len(text) \in Nat
  BY <1>0, <1>2, EncodedIs, IsSeqLen
<1>4. Advance
  <2>1. CASE after > BufferEnd \/ after > reading'
    <3>1. /\ pushed' = pushed \o <<View(base, writing), Text(text)>>
          /\ base' = reading' /\ writing' = reading'
      BY <1>0, <2>1
    <3>2. writing' = reading + n /\ writing' \in Nat /\ writing <= writing'
      BY SMTT(60), <1>0, <1>1, <3>1
    <3>3. ViewOK(View(base, writing), writing') /\ ViewOK(Text(text), writing')
      BY <1>1, <1>3, <3>2, ViewIs, TextIs
    <3>4. Grown /\ Kept
      BY <1>0, <3>1, <3>3, GrownTwo, KeptSame DEF StreamInv
    <3> QED BY <3>1, <3>2, <3>4 DEF Advance
  <2>2. CASE ~(after > BufferEnd \/ after > reading')
    <3>1. writing' = after /\ UNCHANGED <<base, pushed>>
      BY <1>0, <2>2
    <3>2. Grown /\ Kept
      BY <1>0, <3>1, GrownNone, KeptSame DEF StreamInv
    <3>3. after \in Nat /\ after <= reading' /\ writing <= after
      <4> HIDE DEF text
      <4>1. reading' \in Nat
        BY <1>0, <1>1
      <4> QED BY <1>1, <1>3, <2>2, <4>1
    <3> HIDE DEF after
    <3> QED BY <1>1, <3>1, <3>2, <3>3 DEF Advance
  <2> QED BY <2>1, <2>2
<1>5. /\ row' \in 0 .. Len(Rows) /\ OpsOK' /\ reading' \in Nat /\ IsRaw /\ ended = "no"
      /\ reading' + Size(ops') <= EndOf(row') /\ InStep(reading' + Size(ops'), row')
  BY <1>0, NextOp
<1>6. LevelsOK(levels)'
  BY <1>0 DEF StreamInv, LevelsOK, LevelOK, Level, IsSeq
<1> QED BY <1>0, <1>1, <1>3, <1>4, <1>5, <1>6, RawStep DEF StreamInv

LEMMA InvRawEncodeEnd == ASSUME StreamInv, RawEncodeEnd PROVE StreamInv' /\ IsPrefix(Output, Output')
<1> USE DEF RawEncodeEnd
<1>1. Head(ops).n = 0
  BY OpsTail DEF StreamInv, RowStep, CloseStep
<1>2. reading' = reading + Head(ops).n /\ reading' \in Nat
  BY <1>1 DEF StreamInv, Positions
<1>3. Advance
  <2>1. IsSeq(EncodedEnd(pending))
    BY EncodedIs DEF StreamInv
  <2> QED BY <2>1, InjectAdvances
<1>4. /\ row' \in 0 .. Len(Rows) /\ OpsOK' /\ reading' \in Nat /\ IsRaw /\ ended = "no"
      /\ reading' + Size(ops') <= EndOf(row') /\ InStep(reading' + Size(ops'), row')
  BY <1>2, NextOp
<1>5. LevelsOK(levels)' /\ IsSeq(pending')
  <2>1. IsSeq(pending')
    BY OneText
  <2> QED BY <2>1 DEF StreamInv, LevelsOK, LevelOK, Level, IsSeq
<1> QED BY <1>3, <1>4, <1>5, RawStep DEF StreamInv

LEMMA InvRawLob == ASSUME StreamInv, RawLob PROVE StreamInv' /\ IsPrefix(Output, Output')
<1> DEFINE i == Head(ops).arg[1]
           b == Head(ops).arg[2]
           bytes == pending \o Reply(i, b)
<1>0. /\ ops # <<>> /\ Head(ops).name = "lob"
      /\ ops' = (IF IsLast(i, b) THEN Tail(ops) ELSE ops)
      /\ Inject(Encoded(bytes)) /\ pending' = Rest(bytes)
      /\ UNCHANGED <<result, mode, row, levels, reading, prefetch, inPlace, lobs, ended>>
  BY DEF RawLob
<1>1. Head(ops).n = 0 /\ IsLob(i, b)
  BY <1>0, OpsTail DEF StreamInv, RowStep, CloseStep
<1>2. IsSeq(Reply(i, b))
  <2>1. prefetch + 1 \in Int /\ Min2(prefetch + LobRead, Blobs(i)[b]) \in Int
    BY SMTT(60), <1>1, StreamAssumption DEF IsLob, Min2, StreamInv
  <2> HIDE DEF i, b
  <2> QED BY <2>1, SubSeqIs DEF Reply
<1>3. IsSeq(bytes)
  BY <1>2, IsSeqConcat DEF StreamInv
<1> HIDE DEF bytes, i, b
<1>4. Advance /\ IsSeq(pending')
  BY <1>0, <1>3, EncodedIs, InjectAdvances
<1>5. reading' = reading + Head(ops).n /\ reading' \in Nat
  BY <1>0, <1>1 DEF StreamInv, Positions
<1>6. /\ row' \in 0 .. Len(Rows) /\ OpsOK' /\ reading' \in Nat /\ IsRaw /\ ended = "no"
      /\ reading' + Size(ops') <= EndOf(row') /\ InStep(reading' + Size(ops'), row')
  <2>1. CASE ops' = Tail(ops)
    BY <1>0, <1>5, <2>1, NextOp
  <2>2. CASE ops' = ops
    <3>1. OpsOK'
      <4>1. \A o : RowStep(o)' <=> RowStep(o)
        BY <1>0 DEF RowStep, IsLob, Blobs, Rows
      <4>2. \A o : CloseStep(o)' <=> CloseStep(o)
        BY DEF CloseStep
      <4> QED BY <2>2, <4>1, <4>2 DEF StreamInv, OpsOK, IsSeq
    <3>2. reading' = reading /\ row' = row /\ Size(ops') = Size(ops)
      BY <1>0, <2>2
    <3> QED BY <1>0, <1>5, <3>1, <3>2 DEF StreamInv, Positions
  <2> QED BY <1>0, <2>1, <2>2
<1>7. LevelsOK(levels)'
  BY <1>0 DEF StreamInv, LevelsOK, LevelOK, Level, IsSeq
<1> QED BY <1>0, <1>4, <1>6, <1>7, RawStep DEF StreamInv

LEMMA InvRawClose == ASSUME StreamInv, RawClose PROVE StreamInv' /\ IsPrefix(Output, Output')
<1> USE DEF RawClose
<1>1. CloseStep(Head(ops)) /\ Tail(ops) = <<>>
  BY OpsTail DEF StreamInv, RowStep
<1>2. ops' = Tail(ops) /\ reading' = reading + Head(ops).n /\ Head(ops).arg \in {"end", "error"}
  BY <1>1 DEF StreamInv, Positions, CloseStep
<1>3. Advance
  <2>1. Kept
    BY KeptSame DEF StreamInv
  <2>2. Grown
    <3>1. CASE pushed' = pushed
      BY <3>1, GrownNone DEF StreamInv
    <3>2. CASE pushed' = Append(pushed, View(base, writing))
      <4>1. ViewOK(View(base, writing), writing')
        BY ViewIs DEF StreamInv, Positions
      <4> QED BY <3>2, <4>1, GrownOne DEF StreamInv
    <3> QED BY <3>1, <3>2
  <2> QED BY <2>1, <2>2 DEF Advance, StreamInv, Positions
<1>4. /\ row' \in 0 .. Len(Rows) /\ OpsOK' /\ reading' \in Nat /\ IsRaw /\ ended = "no"
      /\ reading' + Size(ops') <= EndOf(row') /\ InStep(reading' + Size(ops'), row')
  BY <1>2, NextOp
<1>5. LevelsOK(levels)' /\ IsSeq(pending')
  BY DEF StreamInv, LevelsOK, LevelOK, Level, IsSeq
<1>6. ended' \in {"no", "end", "error", "thrown"}
  BY <1>2
<1> QED BY <1>3, <1>4, <1>5, <1>6, RawStep DEF StreamInv

LEMMA InvRawRow == ASSUME StreamInv, RawRow PROVE StreamInv' /\ IsPrefix(Output, Output')
<1> DEFINE i == row + 1
           next == LevelOf(i).levels
<1>0. /\ IsRaw /\ ops = <<>> /\ ended = "no" /\ row < Len(Rows) /\ reading = EndOf(row)
      /\ ops' = RowOps(i) /\ row' = i
      /\ levels' = [next EXCEPT ![Len(next)].hasProperties = HasProperties(i)]
      /\ IF BufferEnd <= reading THEN NextBuffer ELSE UNCHANGED <<pushed, base, writing>>
      /\ UNCHANGED <<result, mode, mem, reading, pending, prefetch, inPlace, lobs, ended>>
  BY DEF RawRow
<1>1. /\ row \in Nat /\ i \in 1 .. Len(Rows) /\ Len(Rows) \in Nat /\ result \in Results
      /\ reading \in Nat /\ writing \in Nat /\ base \in Nat /\ base <= writing /\ writing <= reading
  BY <1>0, RowsAre DEF StreamInv, Positions
<1>2. IsSeq(LevelOf(i).text) /\ LevelsOK(next)
  <2>1. IsFiniteSet(DOMAIN Rows[i].expands)
    BY <1>1, RowsAre DEF IsRow
  <2> HIDE DEF i
  <2> QED BY <2>1, HandleLevelIs DEF LevelOf, StreamInv
<1>3. LevelsOK(levels)'
  <2> DEFINE n == Len(next)
             x == [next[n] EXCEPT !.hasProperties = HasProperties(i)]
  <2>1. levels' = [next EXCEPT ![n] = x]
    BY <1>0
  <2>2. n \in DOMAIN next => LevelOK(x)
    <3> HIDE DEF i, next
    <3> QED BY <1>2, LevelChanged DEF LevelsOK
  <2> HIDE DEF i, next, n, x
  <2>3. LevelsOK(levels')
    BY <1>2, <2>1, <2>2, LevelsExcept
  <2> QED BY <2>3 DEF LevelsOK, LevelOK, Level, IsSeq
<1> HIDE DEF next, i
<1>4. /\ RowSteps(ops') /\ RowBytes(i) \in Seq(Byte)
      /\ Size(ops') <= Len(RowBytes(i)) /\ (Size(ops') = Len(RowBytes(i)) <=> Whole(i))
  BY <1>0, <1>1, <1>2, RowReads
<1>5. OpsOK'
  <2>1. \A o : RowStep(o)' <=> RowStep(o)
    BY <1>0 DEF RowStep, IsLob, Blobs, Rows
  <2> QED BY <1>4, <2>1 DEF OpsOK, RowSteps, IsSeq
<1>6. reading' + Size(ops') <= EndOf(row') /\ InStep(reading' + Size(ops'), row')
  <2>1. \A j \in 1 .. row : Whole(j)
    <3>1. Size(ops) = 0 /\ InStep(reading + Size(ops), row)
      BY <1>0, SizeEmpty DEF StreamInv, Positions
    <3>2. reading + 0 = EndOf(row)
      BY <1>0, <1>1
    <3> QED BY <3>1, <3>2 DEF InStep
  <2>2. EndOf(row + 1) = EndOf(row) + Len(RowBytes(row + 1))
    BY <1>0, <1>1, EndOfStep
  <2>3. EndOf(row') = reading + Len(RowBytes(i)) /\ reading' = reading
    BY <1>0, <2>2 DEF i
  <2>4. Size(ops') \in Nat /\ Len(RowBytes(i)) \in Nat
    <3>1. IsSteps(ops')
      BY <1>4, RowStepsRead
    <3>2. Len(RowBytes(i)) \in Nat
      BY <1>4
    <3> QED BY <3>1, <3>2, SizeType
  <2>5. (\A j \in 1 .. row' : Whole(j)) <=> Whole(i)
    <3>1. \A j \in 1 .. row + 1 : j \in 1 .. row \/ j = row + 1
      BY <1>1
    <3>2. row' = row + 1 /\ i = row + 1 /\ i \in 1 .. row + 1
      BY <1>0, <1>1 DEF i
    <3> QED BY <2>1, <3>1, <3>2
  <2>6. reading + Size(ops') <= reading + Len(RowBytes(i))
        /\ (reading + Size(ops') = reading + Len(RowBytes(i)) <=> Whole(i))
    BY <1>1, <1>4, <2>4
  <2> QED BY <2>3, <2>5, <2>6 DEF InStep
<1>7. Advance
  <2>1. Kept
    BY <1>0, KeptSame DEF StreamInv
  <2>2. CASE BufferEnd <= reading
    <3>1. NextBuffer
      BY <1>0, <2>2
    <3>2. CASE pushed' = pushed
      <4>1. Grown
        BY <3>2, GrownNone DEF StreamInv
      <4> QED BY <1>0, <1>1, <2>1, <3>1, <4>1 DEF Advance, NextBuffer
    <3>3. CASE pushed' = Append(pushed, View(base, writing))
      <4>1. ViewOK(View(base, writing), writing')
        BY <1>1, <3>1, ViewIs DEF NextBuffer
      <4>2. Grown
        BY <3>3, <4>1, GrownOne DEF StreamInv
      <4> QED BY <1>0, <1>1, <2>1, <3>1, <4>2 DEF Advance, NextBuffer
    <3> QED BY <3>1, <3>2, <3>3 DEF NextBuffer
  <2>3. CASE ~(BufferEnd <= reading)
    <3>1. UNCHANGED <<pushed, base, writing>>
      BY <1>0, <2>3
    <3>2. Grown
      BY <3>1, GrownNone DEF StreamInv
    <3> QED BY <1>0, <1>1, <2>1, <3>1, <3>2 DEF Advance
  <2> QED BY <2>2, <2>3
<1>8. IsSeq(pending')
  BY <1>0 DEF StreamInv, IsSeq
<1>9. row' \in 0 .. Len(Rows)
  BY <1>0, <1>1
<1>10. reading' \in Nat /\ prefetch' \in Nat /\ ended' = "no"
       /\ UNCHANGED <<result, mode>> /\ IsRaw
  BY <1>0, <1>1 DEF StreamInv
<1> QED BY <1>3, <1>5, <1>6, <1>7, <1>8, <1>9, <1>10, RawStep

LEMMA InvRawEnd ==
    ASSUME StreamInv, NEW how \in {"end", "error"}, RawEnd(how)
    PROVE  StreamInv' /\ IsPrefix(Output, Output')
<1> DEFINE end == HandleLevel(levels, <<>>, <<>>)
           x == InjectOp(end.text)
           c == Op("close", 0, how)
<1>0. /\ IsRaw /\ ops = <<>> /\ ended = "no" /\ ops' = <<x, c>> /\ levels' = end.levels
      /\ UNCHANGED <<result, mode, row, mem, base, reading, writing, pushed, pending,
                     prefetch, inPlace, lobs, ended>>
  BY DEF RawEnd
<1>1. IsSeq(end.text) /\ LevelsOK(end.levels)
  <2>1. IsFiniteSet(DOMAIN <<>>)
    <3>1. DOMAIN <<>> = {}
      OBVIOUS
    <3> QED BY <3>1, FS_EmptySet
  <2> QED BY <2>1, HandleLevelIs DEF StreamInv
<1> HIDE DEF end
<1>2. LevelsOK(levels)'
  BY <1>0, <1>1 DEF LevelsOK, LevelOK, Level, IsSeq
<1>3. RowStep(x) /\ x.n = 0 /\ CloseStep(c) /\ c.n = 0
  BY <1>1, InjectIs, OpIs DEF CloseStep
<1> HIDE DEF x, c
<1>4. OpsOK'
  <2>1. <<x, c>> \in Seq({x, c}) /\ DOMAIN <<x, c>> = 1 .. 2 /\ Len(<<x, c>>) = 2
        /\ <<x, c>>[1] = x /\ <<x, c>>[2] = c
    OBVIOUS
  <2>2. IsSeq(<<x, c>>)
    BY <2>1, SeqIs
  <2>3. ASSUME NEW k \in 1 .. 2
        PROVE  RowStep(<<x, c>>[k]) \/ (k = 2 /\ CloseStep(<<x, c>>[k]))
    <3>1. k = 1 \/ k = 2
      OBVIOUS
    <3> QED BY <1>3, <2>1, <3>1
  <2>4. \A o : RowStep(o)' <=> RowStep(o)
    BY <1>0 DEF RowStep, IsLob, Blobs, Rows
  <2>5. \A o : CloseStep(o)' <=> CloseStep(o)
    BY DEF CloseStep
  <2> QED BY <1>0, <2>1, <2>2, <2>3, <2>4, <2>5 DEF OpsOK, IsSeq
<1>5. reading' + Size(ops') <= EndOf(row') /\ InStep(reading' + Size(ops'), row')
  <2>1. Size(<<x, c>>) = 0 + 0
    BY <1>3, SizeTwo
  <2>2. Size(ops) = 0 /\ reading + Size(ops) <= EndOf(row) /\ InStep(reading + Size(ops), row)
    BY <1>0, SizeEmpty DEF StreamInv, Positions
  <2>3. reading' = reading /\ Size(ops') = Size(ops) /\ row' = row
    BY <1>0, <2>1, <2>2
  <2> QED BY <2>2, <2>3
<1>6. Advance
  <2>1. Grown /\ Kept
    BY <1>0, GrownNone, KeptSame DEF StreamInv
  <2> QED BY <1>0, <2>1 DEF Advance, StreamInv, Positions
<1>7. IsSeq(pending') /\ row' \in 0 .. Len(Rows) /\ reading' \in Nat /\ prefetch' \in Nat
      /\ ended' = "no" /\ UNCHANGED <<result, mode>> /\ IsRaw
  BY <1>0 DEF StreamInv, Positions, IsSeq
<1> QED BY <1>2, <1>4, <1>5, <1>6, <1>7, RawStep

\* In object mode nothing is written or pushed, nor if read() rejects.
LEMMA ObjectStep ==
    ASSUME StreamInv, UNCHANGED <<result, mode, rawVars>>,
           row' \in 0 .. Len(Rows), prefetch' \in Nat, ended' \in {"no", "end", "error", "thrown"},
           ~IsRaw \/ UNCHANGED row, ended' = ended \/ ops = <<>>,
           ended' = "thrown" \/ ended' = ended \/ ~IsRaw
    PROVE  StreamInv' /\ IsPrefix(Output, Output')
<1> USE DEF rawVars
<1>1. OpsOK'
  <2>1. \A o : RowStep(o)' <=> RowStep(o)
    BY DEF RowStep, IsLob, Blobs, Rows
  <2>2. \A o : CloseStep(o)' <=> CloseStep(o)
    BY DEF CloseStep
  <2> QED BY <2>1, <2>2 DEF StreamInv, OpsOK, IsSeq
<1>2. Advance
  <2>1. Grown /\ Kept
    BY GrownNone, KeptSame DEF StreamInv
  <2> QED BY <2>1 DEF Advance, StreamInv, Positions
<1>3. LevelsOK(levels)' /\ IsSeq(pending')
  BY DEF StreamInv, LevelsOK, LevelOK, Level, IsSeq
<1>4. /\ reading' \in Nat
      /\ IsRaw => reading' + Size(ops') <= EndOf(row')
      /\ IsRaw /\ ended' # "thrown" => InStep(reading' + Size(ops'), row')
      /\ ~IsRaw => ops' = <<>> /\ reading' = 0
      /\ ended' # "no" => ops' = <<>>
  BY DEF StreamInv, Positions
<1> QED BY <1>1, <1>2, <1>3, <1>4, RawStep

\* The LOBs of a row, and the last of them.
LEMMA LobsAre ==
    ASSUME result \in Results, NEW i \in 1 .. Len(Rows), NEW b \in Lobs(i)
    PROVE  i \in Nat /\ b \in Nat /\ Blobs(i)[b] \in Nat
<1>1. Blobs(i) \in Seq(Nat \cup {Absent, Null})
  BY RowsAre DEF IsRow, Blobs
<1>2. b \in DOMAIN Blobs(i) /\ Blobs(i)[b] \notin {Absent, Null}
  BY DEF Lobs, Streams
<1>3. i \in Nat
  BY RowsAre
<1> QED BY <1>1, <1>2, <1>3

LEMMA LastLob ==
    ASSUME result \in Results, NEW i \in 1 .. Len(Rows), Lobs(i) # {}
    PROVE  Max(Lobs(i)) \in Lobs(i)
<1> DEFINE n == Len(Blobs(i))
           B == Lobs(i)
<1>1. n \in Nat /\ B \subseteq 1 .. n
  BY RowsAre DEF IsRow, Blobs, Lobs, Streams
<1> HIDE DEF n, B
<1>2. PICK x \in B : \A y \in B : y <= x
  BY <1>1, Greatest DEF B
<1>3. \A y \in B : x >= y
  BY <1>1, <1>2
<1>4. Max(B) \in B
  BY <1>3 DEF Max
<1> QED BY <1>4 DEF B

LEMMA InvObjectRow == ASSUME StreamInv, ObjectRow PROVE StreamInv' /\ IsPrefix(Output, Output')
<1> DEFINE i == row + 1
<1>0. /\ mode = "object" /\ ended = "no" /\ row < Len(Rows) /\ row' = i
      /\ prefetch' = (IF Lobs(row') = {} THEN prefetch ELSE Len(Prefetched(row', Max(Lobs(row')))))
      /\ UNCHANGED <<result, mode, rawVars, inPlace, ended>>
  BY DEF ObjectRow
<1>1. i \in 1 .. Len(Rows) /\ result \in Results /\ Len(Rows) \in Nat
  BY <1>0, RowsAre DEF StreamInv
<1>2. prefetch' \in Nat
  <2>1. CASE Lobs(i) = {}
    BY <1>0, <2>1 DEF StreamInv
  <2>2. CASE Lobs(i) # {}
    <3> HIDE DEF i
    <3>2. Max(Lobs(i)) \in Lobs(i)
      BY <1>1, <2>2, LastLob
    <3>3. Prefetched(i, Max(Lobs(i))) \in Seq(Byte)
      BY <1>1, <3>2, LobsAre, PrefetchedIs
    <3>4. Len(Prefetched(i, Max(Lobs(i)))) \in Nat
      BY <3>3
    <3> QED BY <1>0, <2>2, <3>4
  <2> QED BY <2>1, <2>2
<1>3. row' \in 0 .. Len(Rows) /\ ~IsRaw
  BY <1>0, <1>1 DEF IsRaw
<1> QED BY <1>0, <1>2, <1>3, ObjectStep DEF StreamInv

LEMMA InvInit == Init => StreamInv
<1> SUFFICES ASSUME Init PROVE StreamInv
  OBVIOUS
<1> USE DEF Init
<1>1. Len(Rows) \in Nat /\ result \in Results
  BY RowsAre
<1>2. OpsOK /\ Size(ops) = 0
  BY RowStepsNone, RowOpsOK
<1>3. Positions
  <2>1. reading + Size(ops) = EndOf(row)
    BY <1>2, EndOfNone
  <2>2. InStep(reading + Size(ops), row)
    BY <2>1 DEF InStep
  <2>3. reading + Size(ops) <= EndOf(row)
    BY <1>2, EndOfNone
  <2> QED BY <2>2, <2>3 DEF Positions
<1>4. Memory
  <2> DEFINE f == [i \in 1 .. Len(Rows) |-> RowBytes(i)]
  <2>1. f \in Seq(Seq(Byte)) /\ mem = FlattenSeq(f) /\ EndOf(Len(Rows)) = Len(FlattenSeq(f))
    BY <1>1, EndOfIs DEF EndOf, Rows
  <2> HIDE DEF f
  <2>2. mem \in Seq(Byte)
    BY <2>1, FlattenType
  <2> QED BY <2>1, <2>2, SeqIs DEF Memory
<1>5. Views
  <2>1. CASE pushed = <<>>
    <3>1. DOMAIN <<>> = {}
      OBVIOUS
    <3> QED BY <2>1, <3>1, OneText DEF Views
  <2>2. CASE pushed = <<Text(<<"[">>)>>
    <3> DEFINE v == Text(<<"[">>)
    <3>1. ViewOK(v, writing)
      BY OneText, TextIs
    <3> HIDE DEF v
    <3>2. DOMAIN <<v>> = {1} /\ <<v>>[1] = v
      OBVIOUS
    <3> QED BY <2>2, <3>1, <3>2, OneText DEF Views, v
  <2> QED BY <2>1, <2>2
<1>6. LevelsOK(levels)
  <2> DEFINE l == Level(0, IF mode = "one" THEN <<>> ELSE <<"]">>, RootPath, <<>>, FALSE)
  <2>1. levels = <<l>>
    BY DEF RootLevels
  <2>2. LevelOK(l)
    <3>1. IsFiniteSet(DOMAIN <<>>)
      <4>1. DOMAIN <<>> = {}
        OBVIOUS
      <4> QED BY <4>1, FS_EmptySet
    <3>2. IsSeq(IF mode = "one" THEN <<>> ELSE <<"]">>)
      BY OneText
    <3> QED BY <3>1, <3>2, LevelIs
  <2> HIDE DEF l
  <2> QED BY <2>1, <2>2, LevelsOne
<1>7. IsSeq(pending)
  BY OneText
<1> QED BY <1>1, <1>2, <1>3, <1>4, <1>5, <1>6, <1>7 DEF StreamInv

LEMMA InvRawMisread == ASSUME StreamInv, RawMisread PROVE StreamInv' /\ IsPrefix(Output, Output')
BY ObjectStep DEF RawMisread, StreamInv

LEMMA InvRawLobFails == ASSUME StreamInv, RawLobFails PROVE StreamInv' /\ IsPrefix(Output, Output')
<1>1. /\ ops # <<>> /\ ops' = <<>> /\ ended' = "thrown"
      /\ UNCHANGED <<result, mode, row, levels, mem, base, reading, writing, pushed, pending,
                     prefetch, inPlace, lobs>>
  BY DEF RawLobFails
<1>2. OpsOK'
  <2>1. \A o : RowStep(o)' <=> RowStep(o)
    BY <1>1 DEF RowStep, IsLob, Blobs, Rows
  <2> QED BY <1>1, <2>1, RowStepsNone DEF OpsOK, RowSteps, IsSeq
<1>3. reading' + Size(ops') <= EndOf(row')
  <2>1. Size(ops') = 0
    BY <1>1, SizeEmpty
  <2>2. Size(ops) \in Nat /\ reading \in Nat /\ reading + Size(ops) <= EndOf(row) /\ EndOf(row) \in Nat
    BY <1>1, OpsRead, SizeType, EndOfIs DEF StreamInv, Positions
  <2> QED BY <1>1, <2>1, <2>2
<1>4. Advance
  <2>1. Grown /\ Kept
    BY <1>1, GrownNone, KeptSame DEF StreamInv
  <2> QED BY <1>1, <2>1 DEF Advance, StreamInv, Positions
<1>5. LevelsOK(levels)' /\ IsSeq(pending')
  BY <1>1 DEF StreamInv, LevelsOK, LevelOK, Level, IsSeq
<1>6. row' \in 0 .. Len(Rows) /\ reading' \in Nat /\ prefetch' \in Nat /\ IsRaw
      /\ UNCHANGED <<result, mode>>
  BY <1>1 DEF StreamInv, Positions
<1> QED BY <1>1, <1>2, <1>3, <1>4, <1>5, <1>6, RawStep

LEMMA InvNext == StreamInv /\ [Next]_vars => StreamInv' /\ IsPrefix(Output, Output')
<1> SUFFICES ASSUME StreamInv, [Next]_vars PROVE StreamInv' /\ IsPrefix(Output, Output')
  OBVIOUS
<1>1. CASE RawRow
  BY <1>1, InvRawRow
<1>2. CASE RawInject
  BY <1>2, InvRawInject
<1>3. CASE RawRead
  BY <1>3, InvRawRead
<1>4. CASE RawWrite
  BY <1>4, InvRawWrite
<1>5. CASE RawEncode
  BY <1>5, InvRawEncode
<1>6. CASE RawLob
  BY <1>6, InvRawLob
<1>7. CASE RawEncodeEnd
  BY <1>7, InvRawEncodeEnd
<1>8. CASE RawClose
  BY <1>8, InvRawClose
<1>9. CASE ObjectRow
  BY <1>9, InvObjectRow
<1>10. CASE ObjectThrows
  BY <1>10, ObjectStep DEF ObjectThrows, StreamInv, Positions, IsRaw
<1>11. ASSUME NEW how \in {"end", "error"}, RawEnd(how) PROVE StreamInv' /\ IsPrefix(Output, Output')
  BY <1>11, InvRawEnd
<1>12. ASSUME NEW how \in {"end", "error"}, ObjectEnd(how) PROVE StreamInv' /\ IsPrefix(Output, Output')
  BY <1>12, ObjectStep DEF ObjectEnd, StreamInv, Positions, IsRaw
<1>13. ASSUME NEW l \in DOMAIN lobs, Resume(l) PROVE StreamInv' /\ IsPrefix(Output, Output')
  BY <1>13, ObjectStep DEF Resume, StreamInv
<1>14. ASSUME NEW l \in DOMAIN lobs, ObjectLob(l) PROVE StreamInv' /\ IsPrefix(Output, Output')
  BY <1>14, ObjectStep DEF ObjectLob, StreamInv
<1>15. CASE UNCHANGED vars
  BY <1>15, ObjectStep DEF vars, StreamInv
<1>16. CASE RawMisread
  BY <1>16, InvRawMisread
<1>17. CASE RawLobFails
  BY <1>17, InvRawLobFails
<1>18. ASSUME NEW l \in DOMAIN lobs, ObjectLobFails(l) PROVE StreamInv' /\ IsPrefix(Output, Output')
  BY <1>18, ObjectStep DEF ObjectLobFails, StreamInv
<1> QED BY <1>1, <1>2, <1>3, <1>4, <1>5, <1>6, <1>7, <1>8, <1>9, <1>10, <1>11, <1>12, <1>13,
           <1>14, <1>15, <1>16, <1>17, <1>18 DEF Next

LEMMA StreamInvariant == Spec => []StreamInv
<1>1. StreamInv /\ [Next]_vars => StreamInv'
  BY InvNext
<1> QED BY InvInit, <1>1, PTL DEF Spec

\* The positions stay within the buffer and in their order: what is injected
\* and written never runs over bytes that are still to be read, and after the
\* last step of a row no more than its buffer was read (hdb.js state.inject,
\* state.write, state.read).
THEOREM StreamPositions == Spec => []TypeOK
BY StreamInvariant, InvTypeOK, PTL

\* What the stream was given stays as it is: views are of memory that is no
\* longer written to (hdb.js state.inject, state.done).
THEOREM PushedViewsStay == Spec => PushedStays
<1>1. StreamInv /\ [Next]_vars => [IsPrefix(Output, Output')]_vars
  BY InvNext
<1> QED BY StreamInvariant, <1>1, PTL DEF Spec, PushedStays

\* nextBlob gets to the last column of the rows of which RowsRead says so.
LEMMA WholeIsReadThrough ==
    ASSUME result \in Results, NEW i \in 1 .. Len(Rows)
    PROVE  Whole(i) <=> ReadThrough(i)
<1> DEFINE n == Len(Blobs(i))
<1>1. /\ DOMAIN Blobs(i) = 1 .. n /\ n \in Nat
      /\ \A b \in 1 .. n : Blobs(i)[b] \in Nat \cup {Absent, Null}
  BY RowsAre DEF IsRow, Blobs
<1>2. \A b \in 1 .. n :
         ~Stops(i, b) <=> Blobs(i)[b] = Absent \/ (Blobs(i)[b] \in Nat /\ Blobs(i)[b] > PrefetchSize)
  BY <1>1, StreamAssumption DEF Stops
<1>3. Whole(i) <=> \A b \in 1 .. n : Stops(i, b) => b = n
  BY <1>1 DEF Whole
<1>4. ReadThrough(i) <=> \A b \in 1 .. n - 1 : ~Stops(i, b)
  <2>1. \A b \in 1 .. n - 1 : b \in 1 .. n
    <3> HIDE DEF n
    <3> QED BY <1>1
  <2> QED BY <1>2, <2>1, Zenon DEF ReadThrough
<1>5. \A b \in 1 .. n : b \in 1 .. n - 1 <=> b # n
  <2> HIDE DEF n
  <2> QED BY <1>1
<1>6. \A b \in 1 .. n - 1 : b \in 1 .. n
  <2> HIDE DEF n
  <2> QED BY <1>1
<1> HIDE DEF n
<1> QED BY <1>3, <1>4, <1>5, <1>6, Zenon

\* Between two rows the reader is where a row ends, exactly as long as nextBlob
\* left no column of a row: none had a LOB that is null, or came whole with
\* its row, in front of another column (stream.js rsNextRaw, hdb.js readBlob).
THEOREM RowsAreRead == Spec => []RowsRead
<1>1. StreamInv => RowsRead
  <2> SUFFICES ASSUME StreamInv, IsRaw, ended = "no", ops = <<>>
               PROVE  reading = EndOf(row) <=> \A i \in 1 .. row : ReadThrough(i)
    BY DEF RowsRead
  <2>1. Len(Rows) \in Nat /\ row \in 0 .. Len(Rows) /\ result \in Results
    BY RowsAre DEF StreamInv
  <2>2. \A i \in 1 .. row : Whole(i) <=> ReadThrough(i)
    <3>1. \A i \in 1 .. row : i \in 1 .. Len(Rows)
      BY <2>1
    <3> QED BY <2>1, <3>1, WholeIsReadThrough
  <2>3. Size(ops) = 0 /\ reading \in Nat /\ InStep(reading + Size(ops), row)
    BY SizeEmpty DEF StreamInv, Positions
  <2>4. reading + Size(ops) = reading
    BY <2>3
  <2>5. InStep(reading, row)
    BY <2>3, <2>4
  <2> QED BY <2>2, <2>5, Zenon DEF InStep
<1> QED BY <1>1, StreamInvariant, PTL

----------------------------------------------------------------------------
(* The streams of LOBs                                                     *)

\* From row j on, the last LOB of a row has as much with the row as any has.
LongFrom(j) ==
    \A i \in j .. row : Lobs(i) # {} => Blobs(i)[Max(Lobs(i))] >= PrefetchSize

\* What was read of the LOB l, if it was asked for at its offset: one that one
\* readLob is enough for, and one that never ends.
LobFine(l, lob) ==
    /\ lob.state \in {"held", "more", "end", "failed"}
    /\ Blobs(l[1])[l[2]] <= PrefetchSize + LobRead =>
          /\ lob.state = "held" => lob.got = <<>>
          /\ lob.state \in {"more", "failed"} => lob.got = Prefetched(l[1], l[2])
          /\ lob.state = "end" => lob.got = Content(l[1], l[2])
    /\ Blobs(l[1])[l[2]] > PrefetchSize + LobRead => lob.state # "end"

LobOK(l, lob) ==
    /\ \E state, got : lob = [state |-> state, got |-> got]
    /\ l[2] \in Lobs(l[1]) =>
          /\ lob.state = "more" => Blobs(l[1])[l[2]] > PrefetchSize
          /\ AtItsOffset(l) => LobFine(l, lob)

\* state.prefetchDecodedSize is what every LOB came with, from a row on from
\* which no shorter one was the last of its row.
LobInv ==
    /\ IsRaw => DOMAIN lobs = {}
    /\ \A l \in DOMAIN lobs : l[1] \in 1 .. row /\ LobOK(l, lobs[l])
    /\ ~IsRaw => \A j \in 1 .. row : Lobs(j) # {} /\ LongFrom(j) => prefetch = PrefetchSize

LEMMA LobParts ==
    ASSUME result \in Results, NEW i \in 1 .. Len(Rows), NEW b \in Lobs(i)
    PROVE  /\ Prefetched(i, b) \in Seq(Byte) /\ Content(i, b) \in Seq(Byte)
           /\ Blobs(i)[b] \in Nat /\ PrefetchSize \in Nat /\ LobRead \in Nat
           /\ Len(Content(i, b)) = Blobs(i)[b]
           /\ Blobs(i)[b] <= PrefetchSize => Prefetched(i, b) = Content(i, b)
           /\ Blobs(i)[b] >= PrefetchSize => Len(Prefetched(i, b)) = PrefetchSize
           /\ IsPrefix(Prefetched(i, b), Content(i, b))
<1>1. i \in Nat /\ b \in Nat /\ Blobs(i)[b] \in Nat /\ PrefetchSize \in Nat /\ LobRead \in Nat
  BY LobsAre, StreamAssumption
<1>2. /\ Prefetched(i, b) \in Seq(Byte) /\ Len(Prefetched(i, b)) = Min2(PrefetchSize, Blobs(i)[b])
      /\ Content(i, b) \in Seq(Byte) /\ Len(Content(i, b)) = Blobs(i)[b]
  BY <1>1, PrefetchedIs
<1>3. ASSUME Blobs(i)[b] <= PrefetchSize PROVE Prefetched(i, b) = Content(i, b)
  <2>1. Min2(PrefetchSize, Blobs(i)[b]) = Blobs(i)[b]
    BY <1>1, <1>3 DEF Min2
  <2>2. SubSeq(Content(i, b), 1, Len(Content(i, b))) = Content(i, b)
    BY <1>2, SubSeqFull
  <2> QED BY <1>2, <2>1, <2>2 DEF Prefetched
<1>4. Blobs(i)[b] >= PrefetchSize => Len(Prefetched(i, b)) = PrefetchSize
  BY <1>1, <1>2 DEF Min2
<1>5. Len(Prefetched(i, b)) <= Len(Content(i, b))
  BY <1>1, <1>2 DEF Min2
<1>6. IsPrefix(Prefetched(i, b), Content(i, b))
  <2> DEFINE p == Prefetched(i, b)
             m == Min2(PrefetchSize, Blobs(i)[b])
  <2>1. p = SubSeq(Content(i, b), 1, m) /\ Len(p) = m /\ p \in Seq(Byte)
    BY <1>2 DEF Prefetched
  <2> HIDE DEF p, m
  <2>2. SubSeq(p, 1, Len(p)) = p
    BY <2>1, SubSeqFull
  <2>3. IsPrefix(p, Content(i, b))
    BY <1>5, <2>1, <2>2 DEF IsPrefix, p
  <2> QED BY <2>3 DEF p
<1> QED BY <1>1, <1>2, <1>3, <1>4, <1>6

\* The offset of readLob is where the part that came with the row ends.
LEMMA ReplyIsRest ==
    ASSUME result \in Results, NEW i \in 1 .. Len(Rows), NEW b \in Lobs(i),
           prefetch = PrefetchSize, PrefetchSize <= Blobs(i)[b],
           Blobs(i)[b] <= PrefetchSize + LobRead
    PROVE  IsLast(i, b) /\ Prefetched(i, b) \o Reply(i, b) = Content(i, b)
<1> DEFINE c == Content(i, b)
           n == Blobs(i)[b]
           m == PrefetchSize
<1>1. c \in Seq(Byte) /\ Len(c) = n /\ n \in Nat /\ m \in Nat /\ LobRead \in Nat
  BY LobParts
<1>2. Prefetched(i, b) = SubSeq(c, 1, m) /\ Reply(i, b) = SubSeq(c, m + 1, n)
  <2>1. Min2(PrefetchSize, Blobs(i)[b]) = m /\ Min2(prefetch + LobRead, Blobs(i)[b]) = n
    BY <1>1 DEF Min2
  <2> QED BY <2>1 DEF Prefetched, Reply
<1>3. IsLast(i, b)
  BY <1>1 DEF IsLast
<1>4. m <= n
  OBVIOUS
<1> HIDE DEF c, n, m
<1>5. SubSeq(c, 1, m) \o SubSeq(c, m + 1, n) = c
  <2>1. /\ IsSeq(SubSeq(c, 1, m)) /\ Len(SubSeq(c, 1, m)) = m
        /\ \A k \in 1 .. m : SubSeq(c, 1, m)[k] = c[k]
    BY <1>1, SubSeqIs
  <2>2. /\ IsSeq(SubSeq(c, m + 1, n)) /\ Len(SubSeq(c, m + 1, n)) = n - m
        /\ \A k \in 1 .. n - m : SubSeq(c, m + 1, n)[k] = c[m + k]
    <3>1. m + 1 \in Int /\ n \in Int
      BY <1>1
    <3>2. /\ IsSeq(SubSeq(c, m + 1, n))
          /\ Len(SubSeq(c, m + 1, n)) = IF m + 1 <= n THEN n - (m + 1) + 1 ELSE 0
          /\ \A k \in 1 .. n - (m + 1) + 1 : SubSeq(c, m + 1, n)[k] = c[(m + 1) + k - 1]
      BY <3>1, SubSeqIs
    <3>3. n - (m + 1) + 1 = n - m /\ (IF m + 1 <= n THEN n - (m + 1) + 1 ELSE 0) = n - m
          /\ \A k \in 1 .. n - m : (m + 1) + k - 1 = m + k
      BY <1>1, <1>4
    <3> QED BY <3>2, <3>3
  <2> DEFINE x == SubSeq(c, 1, m)
             y == SubSeq(c, m + 1, n)
  <2> HIDE DEF x, y
  <2>3. /\ IsSeq(x \o y) /\ Len(x \o y) = n
        /\ \A k \in 1 .. m : (x \o y)[k] = c[k]
        /\ \A k \in 1 .. n - m : (x \o y)[m + k] = c[m + k]
    <3>1. /\ IsSeq(x) /\ Len(x) = m /\ IsSeq(y) /\ Len(y) = n - m
      BY <2>1, <2>2 DEF x, y
    <3>2. /\ IsSeq(x \o y) /\ Len(x \o y) = Len(x) + Len(y)
          /\ \A k \in 1 .. Len(x) : (x \o y)[k] = x[k]
          /\ \A k \in 1 .. Len(y) : (x \o y)[Len(x) + k] = y[k]
      BY SMTT(60), <3>1, IsSeqConcat
    <3>3. m + (n - m) = n
      BY <1>1
    <3> QED BY <2>1, <2>2, <3>1, <3>2, <3>3 DEF x, y
  <2>4. ASSUME NEW k \in 1 .. n PROVE (x \o y)[k] = c[k]
    <3>1. k \in 1 .. m \/ (k - m \in 1 .. n - m /\ m + (k - m) = k)
      BY <1>1, <1>4
    <3> QED BY <2>3, <3>1
  <2> QED BY <1>1, <2>3, <2>4, SameSeq, SeqIs DEF x, y
<1> QED BY <1>2, <1>3, <1>5 DEF c

LEMMA LobsGive == StreamInv /\ LobInv => LobsArrive
<1> SUFFICES ASSUME StreamInv, LobInv, NEW l \in DOMAIN lobs, l[2] \in Lobs(l[1]), AtItsOffset(l)
             PROVE  /\ lobs[l].state = "end" => lobs[l].got = Content(l[1], l[2])
                    /\ Len(Content(l[1], l[2])) <= PrefetchSize + LobRead =>
                          IsPrefix(lobs[l].got, Content(l[1], l[2]))
  BY DEF LobsArrive
<1> DEFINE i == l[1]
           b == l[2]
           c == Content(i, b)
<1>1. l[1] \in 1 .. Len(Rows) /\ LobFine(l, lobs[l]) /\ result \in Results
  <2>1. Len(Rows) \in Nat /\ row \in 0 .. Len(Rows) /\ l[1] \in 1 .. row
    BY RowsAre DEF LobInv, StreamInv
  <2> QED BY <2>1 DEF LobInv, StreamInv, LobOK
<1>2. /\ c \in Seq(Byte) /\ IsPrefix(Prefetched(i, b), c) /\ Len(c) = Blobs(i)[b]
      /\ Blobs(i)[b] \in Nat /\ PrefetchSize \in Nat /\ LobRead \in Nat
  BY <1>1, LobParts
<1>3. IsPrefix(<<>>, c) /\ IsPrefix(c, c)
  <2> HIDE DEF c
  <2>1. SubSeq(c, 1, Len(c)) = c /\ Len(c) \in Nat /\ Len(<<>>) = 0 /\ SubSeq(c, 1, 0) = <<>>
        /\ SubSeq(<<>>, 1, 0) = <<>>
    BY <1>2, SubSeqFull, SubSeqEmpty
  <2> QED BY <2>1 DEF IsPrefix
<1>4. lobs[l].state = "end" => lobs[l].got = c
  BY <1>1, <1>2 DEF LobFine
<1>5. Len(c) <= PrefetchSize + LobRead => IsPrefix(lobs[l].got, c)
  BY <1>1, <1>2, <1>3 DEF LobFine
<1> QED BY <1>4, <1>5

LEMMA LobsSame ==
    ASSUME UNCHANGED result
    PROVE  /\ Rows' = Rows /\ \A k : Lobs(k)' = Lobs(k) /\ Blobs(k)' = Blobs(k)
           /\ \A l, x : LobFine(l, x)' <=> LobFine(l, x)
<1>1. Rows' = Rows /\ \A k : Lobs(k)' = Lobs(k) /\ Blobs(k)' = Blobs(k)
  BY DEF Lobs, Streams, Blobs, Rows
<1>2. \A l, x : LobFine(l, x)' <=> LobFine(l, x)
  BY DEF LobFine, Prefetched, Content, Blobs, Rows
<1> QED BY <1>1, <1>2

LEMMA LobOKSame ==
    ASSUME UNCHANGED <<result, row>>
    PROVE  /\ \A l, x : LobOK(l, x)' <=> LobOK(l, x)
           /\ \A j : LongFrom(j)' <=> LongFrom(j)
<1>1. \A j : LongFrom(j)' <=> LongFrom(j)
  BY LobsSame DEF LongFrom
<1>2. \A l : AtItsOffset(l)' <=> AtItsOffset(l)
  BY LobsSame DEF AtItsOffset
<1>3. \A l, x : LobOK(l, x)' <=> LobOK(l, x)
  BY <1>2, LobsSame DEF LobOK
<1> QED BY <1>1, <1>3

\* The stream of one LOB changes.
LEMMA LobChanges ==
    ASSUME LobInv, UNCHANGED <<result, mode, row, prefetch>>, NEW l \in DOMAIN lobs, NEW lob,
           LobOK(l, lob), lobs' = [lobs EXCEPT ![l] = lob]
    PROVE  LobInv'
<1>1. /\ DOMAIN lobs' = DOMAIN lobs /\ lobs'[l] = lob
      /\ \A k \in DOMAIN lobs : k # l => lobs'[k] = lobs[k]
  OBVIOUS
<1>2. IsRaw' <=> IsRaw
  BY DEF IsRaw
<1>3. \A k \in DOMAIN lobs : LobOK(k, lobs'[k])
  <2>1. ASSUME NEW k \in DOMAIN lobs, k # l PROVE LobOK(k, lobs'[k])
    BY <1>1, <2>1 DEF LobInv
  <2> QED BY <1>1, <2>1
<1>4. \A k \in DOMAIN lobs' : k[1] \in 1 .. row' /\ LobOK(k, lobs[k])'
  BY <1>1, <1>3, LobOKSame DEF LobInv
<1>5. ~IsRaw => \A j \in 1 .. row' : (Lobs(j) # {})' /\ LongFrom(j)' => prefetch' = PrefetchSize
  BY LobsSame, LobOKSame DEF LobInv
<1>6. IsRaw' => DOMAIN lobs' = {}
  BY <1>1, <1>2 DEF LobInv
<1> QED BY <1>2, <1>4, <1>5, <1>6 DEF LobInv

LEMMA LobInvSame == ASSUME LobInv, UNCHANGED <<result, mode, row, prefetch, lobs>> PROVE LobInv'
<1>1. IsRaw' <=> IsRaw
  BY DEF IsRaw
<1>2. \A l \in DOMAIN lobs' : l[1] \in 1 .. row' /\ LobOK(l, lobs[l])'
  BY LobOKSame DEF LobInv
<1>3. ~IsRaw => \A j \in 1 .. row' : (Lobs(j) # {})' /\ LongFrom(j)' => prefetch' = PrefetchSize
  BY LobsSame, LobOKSame DEF LobInv
<1> QED BY <1>1, <1>2, <1>3 DEF LobInv

LEMMA LobInvRaw == ASSUME LobInv, IsRaw, UNCHANGED <<result, mode, lobs>> PROVE LobInv'
<1>1. DOMAIN lobs' = {} /\ (IsRaw' <=> IsRaw)
  BY DEF LobInv, IsRaw
<1> QED BY <1>1 DEF LobInv

\* The next row of object mode: what holds of the rows up to it holds of those
\* before.
LEMMA LongBefore ==
    ASSUME row \in Nat, row' = row + 1, UNCHANGED result, NEW j
    PROVE  LongFrom(j)' => LongFrom(j)
<1>1. \A k \in j .. row : k \in j .. row + 1
  OBVIOUS
<1> QED BY <1>1, LobsSame DEF LongFrom

LEMMA LobInvObjectRow == ASSUME StreamInv, LobInv, ObjectRow PROVE LobInv'
<1> DEFINE i == row + 1
           new == {<<row', b>> : b \in Streams(row')}
           begun(l) == [state |-> IF l[2] \in Lobs(row') THEN "held" ELSE "never", got |-> <<>>]
<1>0. /\ mode = "object" /\ row < Len(Rows) /\ row' = i
      /\ lobs' = [l \in DOMAIN lobs \cup new |-> IF l \notin new THEN lobs[l] ELSE begun(l)]
      /\ prefetch' = (IF Lobs(row') = {} THEN prefetch ELSE Len(Prefetched(row', Max(Lobs(row')))))
      /\ UNCHANGED <<result, mode>>
  BY DEF ObjectRow
<1>1. row \in Nat /\ i \in 1 .. Len(Rows) /\ result \in Results
  BY <1>0, RowsAre DEF StreamInv
<1>2. \A l \in new : l[1] = i
  BY <1>0
<1>3. DOMAIN lobs' = DOMAIN lobs \cup new
  BY <1>0
<1>4. ASSUME NEW l \in new PROVE l[1] \in 1 .. row' /\ LobOK(l, lobs[l])'
  <2> DEFINE lob == begun(l)
  <2>1. lobs'[l] = lob /\ l[1] = row' /\ l[1] \in 1 .. row'
    BY <1>0, <1>1, <1>2
  <2>2. \E state, got : lob = [state |-> state, got |-> got]
    BY Zenon
  <2>3. lob.got = <<>> /\ lob.state \in {"held", "never"} /\ (l[2] \in Lobs(row') => lob.state = "held")
    OBVIOUS
  <2> HIDE DEF lob
  <2>4. \A x : /\ \E state, got : x = [state |-> state, got |-> got]
               /\ x.got = <<>> /\ x.state \in {"held", "never"}
               /\ l[2] \in Lobs(l[1]) => x.state = "held"
               => LobOK(l, x)'
    <3>1. \A x : LobFine(l, x)' <=> LobFine(l, x)
      BY <1>0, LobsSame
    <3>2. Lobs(l[1])' = Lobs(l[1])
      BY <1>0, LobsSame
    <3> QED BY <3>1, <3>2 DEF LobOK, LobFine
  <2>5. l[2] \in Lobs(l[1]) => lob.state = "held"
    BY <2>1, <2>3
  <2> QED BY <2>1, <2>2, <2>3, <2>4, <2>5
<1>5. ASSUME NEW l \in DOMAIN lobs, l \notin new PROVE l[1] \in 1 .. row' /\ LobOK(l, lobs[l])'
  <2>1. lobs'[l] = lobs[l] /\ l[1] \in 1 .. row /\ LobOK(l, lobs[l])
    BY <1>0, <1>5 DEF LobInv
  <2>2. AtItsOffset(l)' => AtItsOffset(l)
    <3>1. LongFrom(l[1])' => LongFrom(l[1])
      BY <1>0, <1>1, LongBefore
    <3> QED BY <1>0, <3>1, LobsSame DEF AtItsOffset, LongFrom
  <2>3. \A x : LobOK(l, x) => LobOK(l, x)'
    BY <1>0, <2>2, LobsSame DEF LobOK
  <2>4. LobOK(l, lobs[l]) => LobOK(l, lobs[l])'
    BY <2>1, <2>3
  <2> QED BY <1>0, <1>1, <2>1, <2>4
<1>6. ASSUME NEW j \in 1 .. row', (Lobs(j) # {})', LongFrom(j)' PROVE prefetch' = PrefetchSize
  <2>1. Lobs(j) # {}
    BY <1>0, <1>6, LobsSame
  <2>2. CASE Lobs(i) = {}
    <3>1. prefetch' = prefetch /\ j # i /\ j \in 1 .. row
      BY <1>0, <1>1, <2>1, <2>2
    <3>2. LongFrom(j)
      BY <1>0, <1>1, <1>6, LongBefore
    <3>3. ~IsRaw
      BY <1>0 DEF IsRaw
    <3> QED BY <2>1, <3>1, <3>2, <3>3 DEF LobInv
  <2>3. CASE Lobs(i) # {}
    <3> DEFINE b == Max(Lobs(i))
    <3>1. prefetch' = Len(Prefetched(i, b))
      BY <1>0, <2>3
    <3>2. i \in j .. row'
      BY <1>0, <1>1
    <3>3. Blobs(i)[Max(Lobs(i))] >= PrefetchSize
      <4>1. \A k \in j .. row' : Lobs(k) # {} => Blobs(k)[Max(Lobs(k))] >= PrefetchSize
        BY <1>0, <1>6, LobsSame DEF LongFrom
      <4> QED BY <2>3, <3>2, <4>1
    <3> HIDE DEF i
    <3>4. b \in Lobs(i) /\ Blobs(i)[b] >= PrefetchSize
      BY <1>1, <2>3, <3>3, LastLob
    <3> HIDE DEF b
    <3>5. Len(Prefetched(i, b)) = PrefetchSize
      BY <1>1, <3>4, LobParts
    <3> QED BY <3>1, <3>5
  <2> QED BY <2>2, <2>3
<1>7. ~IsRaw'
  BY <1>0 DEF IsRaw
<1>8. \A l \in DOMAIN lobs' : l[1] \in 1 .. row' /\ LobOK(l, lobs[l])'
  <2> HIDE DEF new
  <2> QED BY <1>3, <1>4, <1>5
<1> HIDE DEF i, new, begun
<1> QED BY <1>6, <1>7, <1>8 DEF LobInv

LEMMA LobSet ==
    ASSUME NEW lob, \E s, g : lob = [state |-> s, got |-> g], NEW got, NEW state
    PROVE  /\ [[lob EXCEPT !.got = got] EXCEPT !.state = state] = [state |-> state, got |-> got]
           /\ [lob EXCEPT !.state = state] = [state |-> state, got |-> lob.got]
<1>1. PICK s, g : lob = [state |-> s, got |-> g]
  OBVIOUS
<1>2. [[lob EXCEPT !.got = got] EXCEPT !.state = state] = [state |-> state, got |-> got]
  <2>1. [lob EXCEPT !.got = got] = [state |-> s, got |-> got]
    BY <1>1
  <2>2. [[state |-> s, got |-> got] EXCEPT !.state = state] = [state |-> state, got |-> got]
    OBVIOUS
  <2> QED BY <2>1, <2>2
<1>3. [[state |-> s, got |-> g] EXCEPT !.state = state] = [state |-> state, got |-> g]
  OBVIOUS
<1>4. lob.got = g
  BY <1>1
<1> QED BY <1>1, <1>2, <1>3, <1>4

LEMMA LobInvResume ==
    ASSUME StreamInv, LobInv, NEW l \in DOMAIN lobs, Resume(l)
    PROVE  LobInv'
<1> DEFINE i == l[1]
           b == l[2]
           next == IF Blobs(i)[b] > PrefetchSize THEN "more" ELSE "end"
           got == Prefetched(i, b)
           lob == [state |-> next, got |-> got]
<1>1. l[1] \in 1 .. Len(Rows) /\ result \in Results /\ LobOK(l, lobs[l])
  <2>1. Len(Rows) \in Nat /\ row \in 0 .. Len(Rows) /\ l[1] \in 1 .. row
    BY RowsAre DEF LobInv, StreamInv
  <2> QED BY <2>1 DEF LobInv, StreamInv
<1>2. lobs' = [lobs EXCEPT ![l] = lob]
  <2>1. lobs' = [lobs EXCEPT ![l] = [[lobs[l] EXCEPT !.got = got] EXCEPT !.state = next]]
    BY DEF Resume
  <2>2. \E s, g : lobs[l] = [state |-> s, got |-> g]
    BY <1>1 DEF LobOK
  <2>3. [[lobs[l] EXCEPT !.got = got] EXCEPT !.state = next] = lob
    <3> HIDE DEF got, next
    <3> QED BY ZenonT(60), <2>2, LobSet
  <2> QED BY <2>1, <2>3
<1>3. LobOK(l, lob)
  <2>1. \E s, g : lob = [state |-> s, got |-> g]
    BY Zenon
  <2>2. ASSUME b \in Lobs(i)
        PROVE  /\ lob.state = "more" => Blobs(i)[b] > PrefetchSize
               /\ LobFine(l, lob)
    <3>1. /\ Blobs(i)[b] \in Nat /\ PrefetchSize \in Nat /\ LobRead \in Nat
          /\ Blobs(i)[b] <= PrefetchSize => Prefetched(i, b) = Content(i, b)
      BY <1>1, <2>2, LobParts
    <3>2. /\ lob.got = Prefetched(i, b) /\ lob.state \in {"more", "end"}
          /\ lob.state = "more" <=> Blobs(i)[b] > PrefetchSize
      OBVIOUS
    <3> HIDE DEF lob
    <3> QED BY <3>1, <3>2 DEF LobFine
  <2> HIDE DEF lob
  <2> QED BY <2>1, <2>2 DEF LobOK
<1> HIDE DEF lob
<1>4. UNCHANGED <<result, mode, row, prefetch>>
  BY DEF Resume
<1> QED BY <1>2, <1>3, <1>4, LobChanges

LEMMA LobInvObjectLob ==
    ASSUME StreamInv, LobInv, NEW l \in DOMAIN lobs, ObjectLob(l)
    PROVE  LobInv'
<1> DEFINE i == l[1]
           b == l[2]
           last == IF IsLast(i, b) THEN "end" ELSE "more"
           got == lobs[l].got \o Reply(i, b)
           lob == [state |-> last, got |-> got]
<1>1. /\ l[1] \in 1 .. Len(Rows) /\ l[1] \in 1 .. row /\ result \in Results
      /\ LobOK(l, lobs[l]) /\ lobs[l].state = "more" /\ ~IsRaw
  <2>1. Len(Rows) \in Nat /\ row \in 0 .. Len(Rows) /\ l[1] \in 1 .. row
    BY RowsAre DEF LobInv, StreamInv
  <2> QED BY <2>1 DEF LobInv, StreamInv, ObjectLob
<1>2. lobs' = [lobs EXCEPT ![l] = lob]
  <2>1. lobs' = [lobs EXCEPT ![l] = [[lobs[l] EXCEPT !.got = got] EXCEPT !.state = last]]
    BY DEF ObjectLob
  <2>2. \E s, g : lobs[l] = [state |-> s, got |-> g]
    BY <1>1 DEF LobOK
  <2>3. [[lobs[l] EXCEPT !.got = got] EXCEPT !.state = last] = lob
    <3> HIDE DEF got, last
    <3> QED BY ZenonT(60), <2>2, LobSet
  <2> QED BY <2>1, <2>3
<1>3. LobOK(l, lob)
  <2>1. \E s, g : lob = [state |-> s, got |-> g]
    BY Zenon
  <2>2. ASSUME b \in Lobs(i)
        PROVE  /\ lob.state = "more" => Blobs(i)[b] > PrefetchSize
               /\ AtItsOffset(l) => LobFine(l, lob)
    <3>1. Blobs(i)[b] > PrefetchSize
      BY <1>1, <2>2 DEF LobOK
    <3>2. ASSUME AtItsOffset(l) PROVE LobFine(l, lob)
      <4>1. /\ Blobs(i)[b] \in Nat /\ PrefetchSize \in Nat /\ LobRead \in Nat
        BY <1>1, <2>2, LobParts
      <4>2. LongFrom(i) /\ Lobs(i) # {}
        <5>1. ~(Blobs(l[1])[l[2]] <= PrefetchSize)
          BY <3>1, <4>1
        <5>2. \A k \in l[1] .. row : Lobs(k) # {} => Blobs(k)[Max(Lobs(k))] >= PrefetchSize
          BY <3>2, <5>1 DEF AtItsOffset
        <5> QED BY <2>2, <5>2 DEF LongFrom
      <4>3. prefetch = PrefetchSize
        BY <1>1, <4>2 DEF LobInv
      <4>4. LobFine(l, lobs[l])
        BY <1>1, <2>2, <3>2 DEF LobOK
      <4>5. lob.state = last /\ lob.got = got
        OBVIOUS
      <4> HIDE DEF lob
      <4>6. CASE Blobs(i)[b] <= PrefetchSize + LobRead
        <5>1. lobs[l].got = Prefetched(i, b)
          BY <1>1, <4>4, <4>6 DEF LobFine
        <5>2. IsLast(i, b) /\ Prefetched(i, b) \o Reply(i, b) = Content(i, b)
          BY SMTT(60), <1>1, <2>2, <3>1, <4>1, <4>3, <4>6, ReplyIsRest
        <5>3. lob.state = "end" /\ lob.got = Content(i, b)
          BY <4>5, <5>1, <5>2
        <5> HIDE DEF got, last
        <5> QED BY <4>1, <4>6, <5>3 DEF LobFine
      <4>7. CASE ~(Blobs(i)[b] <= PrefetchSize + LobRead)
        <5>1. ~IsLast(i, b)
          BY <4>1, <4>3, <4>7 DEF IsLast
        <5>2. lob.state = "more"
          BY <4>5, <5>1
        <5> HIDE DEF got, last
        <5> QED BY <4>1, <4>7, <5>2 DEF LobFine
      <4> QED BY <4>6, <4>7
    <3> QED BY <3>1, <3>2
  <2> HIDE DEF lob
  <2> QED BY <2>1, <2>2 DEF LobOK
<1>4. UNCHANGED <<result, mode, row, prefetch>>
  BY DEF ObjectLob
<1> HIDE DEF lob
<1> QED BY <1>2, <1>3, <1>4, LobChanges

LEMMA LobInvObjectLobFails ==
    ASSUME StreamInv, LobInv, NEW l \in DOMAIN lobs, ObjectLobFails(l)
    PROVE  LobInv'
<1> DEFINE got == lobs[l].got
           lob == [state |-> "failed", got |-> got]
<1>1. LobOK(l, lobs[l]) /\ lobs[l].state = "more"
  BY DEF LobInv, ObjectLobFails
<1>2. lobs' = [lobs EXCEPT ![l] = lob]
  <2>1. lobs' = [lobs EXCEPT ![l] = [lobs[l] EXCEPT !.state = "failed"]]
    BY DEF ObjectLobFails
  <2>2. \E s, g : lobs[l] = [state |-> s, got |-> g]
    BY <1>1 DEF LobOK
  <2>3. [lobs[l] EXCEPT !.state = "failed"] = lob
    BY ZenonT(60), <2>2, LobSet
  <2> QED BY <2>1, <2>3
<1>3. LobOK(l, lob)
  <2>1. \E s, g : lob = [state |-> s, got |-> g]
    BY Zenon
  <2>2. lob.state = "failed" /\ lob.got = lobs[l].got
    OBVIOUS
  <2> HIDE DEF lob
  <2>3. LobFine(l, lobs[l]) => LobFine(l, lob)
    BY <1>1, <2>2 DEF LobFine
  <2> QED BY <1>1, <2>1, <2>2, <2>3 DEF LobOK
<1>4. UNCHANGED <<result, mode, row, prefetch>>
  BY DEF ObjectLobFails
<1> HIDE DEF lob
<1> QED BY <1>2, <1>3, <1>4, LobChanges

LEMMA LobInvNext == StreamInv /\ LobInv /\ [Next]_vars => LobInv'
<1> SUFFICES ASSUME StreamInv, LobInv, [Next]_vars PROVE LobInv'
  OBVIOUS
<1>1. ops # <<>> => IsRaw
  BY DEF StreamInv, Positions
<1>2. CASE RawRow
  BY <1>2, LobInvRaw DEF RawRow
<1>3. CASE RawInject \/ RawRead \/ RawWrite \/ RawEncode \/ RawLob \/ RawEncodeEnd \/ RawClose
  <2>1. IsRaw /\ UNCHANGED <<result, mode, lobs>>
    BY <1>1, <1>3 DEF RawInject, RawRead, RawWrite, RawEncode, RawLob, RawEncodeEnd, RawClose
  <2> QED BY <2>1, LobInvRaw
<1>4. CASE RawMisread \/ RawLobFails
  <2>1. IsRaw /\ UNCHANGED <<result, mode, lobs>>
    BY <1>1, <1>4 DEF RawMisread, RawLobFails
  <2> QED BY <2>1, LobInvRaw
<1>5. CASE ObjectRow
  BY <1>5, LobInvObjectRow
<1>6. CASE ObjectThrows
  BY <1>6, LobInvSame DEF ObjectThrows
<1>7. ASSUME NEW how \in {"end", "error"}, RawEnd(how) PROVE LobInv'
  BY <1>7, LobInvSame DEF RawEnd
<1>8. ASSUME NEW how \in {"end", "error"}, ObjectEnd(how) PROVE LobInv'
  BY <1>8, LobInvSame DEF ObjectEnd
<1>9. ASSUME NEW l \in DOMAIN lobs, Resume(l) PROVE LobInv'
  BY <1>9, LobInvResume
<1>10. ASSUME NEW l \in DOMAIN lobs, ObjectLob(l) PROVE LobInv'
  BY <1>10, LobInvObjectLob
<1>11. ASSUME NEW l \in DOMAIN lobs, ObjectLobFails(l) PROVE LobInv'
  BY <1>11, LobInvObjectLobFails
<1>12. CASE UNCHANGED vars
  BY <1>12, LobInvSame DEF vars
<1> QED BY <1>2, <1>3, <1>4, <1>5, <1>6, <1>7, <1>8, <1>9, <1>10, <1>11, <1>12 DEF Next

\* Every stream of a LOB that ends has given the LOB, in whatever order the
\* client reads them and the rows, and whichever readLob fails; and one that
\* one readLob is enough for never gives anything else: as long as the rows
\* read since its own have not moved the offset that the streams share (hdb.js
\* readBlob).  That is asked of the LOB itself and not of the whole result.
THEOREM LobStreamsWhole == Spec => []LobsArrive
<1>1. Init => LobInv
  <2>1. DOMAIN <<>> = {}
    OBVIOUS
  <2> QED BY SMTT(60), <2>1 DEF Init, LobInv
<1>2. Spec => []LobInv
  BY <1>1, LobInvNext, StreamInvariant, PTL DEF Spec
<1> QED BY <1>2, LobsGive, StreamInvariant, PTL
=============================================================================
