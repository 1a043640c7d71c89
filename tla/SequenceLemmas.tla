--------------------------- MODULE SequenceLemmas ---------------------------
(***************************************************************************)
(* Induction over the natural numbers, functions that are defined by       *)
(* recursion over them, and what FlattenSeq makes of a sequence of         *)
(* sequences: what the proofs about HdbStream and DeepOperation need.      *)
(***************************************************************************)
EXTENDS Integers, Sequences, SequencesExt, FiniteSets, FiniteSetTheorems,
        WellFoundedInduction, SequenceTheorems, TLAPS

\* A set of natural numbers has a least one.
LEMMA Least ==
    ASSUME NEW T \in SUBSET Nat, T # {}
    PROVE  \E x \in T : \A y \in T : x <= y
<1>1. PICK n \in T : TRUE
  OBVIOUS
<1> DEFINE U == 0 .. n
           R == StrictSubsetOrdering(U)
           Q == {0 .. k : k \in {k \in T : k <= n}}
<1>2. IsFiniteSet(U)
  BY <1>1, FS_Interval
<1>3. IsWellFoundedOn(R, SUBSET U)
  BY <1>2, FS_StrictSubsetOrderingWellFounded, FS_FiniteSubsetsOfFinite
<1>4. Q \subseteq SUBSET U /\ Q # {}
  BY <1>1
<1> HIDE DEF R, Q
<1>5. PICK q \in Q : \A r \in Q : <<r, q>> \notin R
  BY <1>3, <1>4, WFMin
<1>6. PICK x \in T : x <= n /\ q = 0 .. x
  BY DEF Q
<1>7. ASSUME NEW y \in T, ~(x <= y) PROVE FALSE
  <2>1. 0 .. y \in Q /\ 0 .. y \in SUBSET U /\ q \in SUBSET U
    BY <1>1, <1>4, <1>6, <1>7 DEF Q
  <2>2. 0 .. y \subseteq q /\ 0 .. y # q
    <3>1. x \in 0 .. x /\ x \notin 0 .. y /\ 0 .. y \subseteq 0 .. x
      BY <1>7
    <3> QED BY <1>6, <3>1
  <2>3. <<0 .. y, q>> \in R
    BY <2>1, <2>2 DEF R, StrictSubsetOrdering
  <2> QED BY <1>5, <2>1, <2>3
<1> QED BY <1>7

\* Induction, in terms of the set of the numbers that have a property.
LEMMA SetInduction ==
    ASSUME NEW P \in SUBSET Nat, 0 \in P, \A n \in P : n + 1 \in P
    PROVE  P = Nat
<1> SUFFICES ASSUME Nat \ P # {} PROVE FALSE
  OBVIOUS
<1>1. PICK x \in Nat \ P : \A y \in Nat \ P : x <= y
  BY Least
<1>2. x # 0 /\ x - 1 \in Nat
  BY <1>1
<1>3. x - 1 \in P
  BY <1>1, <1>2
<1> QED BY <1>1, <1>2, <1>3

\* A function that is defined by recursion: f[1] = a, f[i] = step[i][f[i - 1]].
Recursion(n, a, step, f) ==
    (n # 0 => f[1] = a) /\ \A i \in 2 .. n : f[i] = step[i][f[i - 1]]
IsStep(S, n, step) == \A i \in 1 .. n, x \in S : step[i][x] \in S

LEMMA RecursiveFunction ==
    ASSUME NEW S, NEW n \in Nat, NEW a \in S, NEW step, IsStep(S, n, step)
    PROVE  \E f \in [1 .. n -> S] : Recursion(n, a, step, f)
<1> USE DEF Recursion, IsStep
<1> DEFINE P == {m \in Nat : m <= n => \E f \in [1 .. m -> S] :
                    (m # 0 => f[1] = a) /\ \A i \in 2 .. m : f[i] = step[i][f[i - 1]]}
<1>1. 0 \in P
  <2> DEFINE g == [i \in 1 .. 0 |-> a]
  <2>1. g \in [1 .. 0 -> S] /\ \A i \in 2 .. 0 : g[i] = step[i][g[i - 1]]
    OBVIOUS
  <2> QED BY <2>1
<1>2. ASSUME NEW m \in P PROVE m + 1 \in P
  <2> SUFFICES ASSUME m + 1 <= n
               PROVE  \E g \in [1 .. m + 1 -> S] :
                         (m + 1 # 0 => g[1] = a)
                         /\ \A i \in 2 .. m + 1 : g[i] = step[i][g[i - 1]]
    OBVIOUS
  <2>1. PICK f \in [1 .. m -> S] :
           (m # 0 => f[1] = a) /\ \A i \in 2 .. m : f[i] = step[i][f[i - 1]]
    BY <1>2
  <2> DEFINE g == [i \in 1 .. m + 1 |->
                      IF i <= m THEN f[i] ELSE IF i = 1 THEN a ELSE step[i][f[i - 1]]]
  <2>2. g \in [1 .. m + 1 -> S]
    <3> SUFFICES ASSUME NEW i \in 1 .. m + 1 PROVE g[i] \in S
      OBVIOUS
    <3>1. CASE i <= m \/ i = 1
      BY <3>1
    <3>2. CASE ~(i <= m \/ i = 1)
      <4>1. i \in 1 .. n /\ i - 1 \in 1 .. m
        BY <3>2
      <4>2. f[i - 1] \in S /\ step[i][f[i - 1]] \in S
        BY <4>1
      <4> QED BY <3>2, <4>2
    <3> QED BY <3>1, <3>2
  <2>3. ASSUME NEW i \in 2 .. m + 1
        PROVE  g[i] = step[i][g[i - 1]]
    <3>1. i - 1 \in 1 .. m /\ g[i - 1] = f[i - 1]
      OBVIOUS
    <3>2. i <= m => f[i] = step[i][f[i - 1]]
      BY <2>1
    <3> QED BY <3>1, <3>2
  <2>4. g[1] = a
    BY <2>1
  <2> HIDE DEF g
  <2> WITNESS g \in [1 .. m + 1 -> S]
  <2> QED BY <2>3, <2>4
<1> HIDE DEF P
<1>3. n \in P
  BY <1>1, <1>2, SetInduction DEF P
<1> QED BY <1>3 DEF P

----------------------------------------------------------------------------
(* FlattenSeq                                                              *)

\* f tells what FlattenSeq makes of the beginnings of s.
Flattens(s, f) ==
    f = [i \in 1 .. Len(s) |-> IF i = 1 THEN s[i] ELSE f[i - 1] \o s[i]]

LEMMA FlattensExists ==
    ASSUME NEW S, NEW s \in Seq(Seq(S)), s # <<>>
    PROVE  \E f \in [1 .. Len(s) -> Seq(S)] : Flattens(s, f)
<1> DEFINE step == [i \in 1 .. Len(s) |-> [x \in Seq(S) |-> x \o s[i]]]
<1>1. \A i \in 1 .. Len(s), x \in Seq(S) : step[i][x] = x \o s[i] /\ s[i] \in Seq(S)
  OBVIOUS
<1> HIDE DEF step
<1>2. s[1] \in Seq(S) /\ Len(s) \in Nat /\ Len(s) # 0
  OBVIOUS
<1>3. \A i \in 1 .. Len(s), x \in Seq(S) : step[i][x] \in Seq(S)
  BY ZenonT(60), <1>1, ConcatProperties
<1>4. PICK f \in [1 .. Len(s) -> Seq(S)] :
         f[1] = s[1] /\ \A i \in 2 .. Len(s) : f[i] = step[i][f[i - 1]]
  <2> DEFINE T == Seq(S)
             n == Len(s)
             a == s[1]
  <2>1. IsStep(T, n, step) /\ n \in Nat /\ n # 0 /\ a \in T
    BY <1>2, <1>3 DEF IsStep
  <2> HIDE DEF T, n, a
  <2>2. \E f \in [1 .. n -> T] : Recursion(n, a, step, f)
    BY <2>1, RecursiveFunction
  <2> QED BY <2>1, <2>2 DEF T, n, a, Recursion
<1>5. ASSUME NEW i \in 1 .. Len(s)
      PROVE  f[i] = IF i = 1 THEN s[i] ELSE f[i - 1] \o s[i]
  <2>1. CASE i = 1
    BY <1>4, <2>1
  <2>2. CASE i # 1
    <3>1. i - 1 \in 1 .. Len(s) /\ i \in 2 .. Len(s)
      BY <1>2, <2>2
    <3>2. f[i - 1] \in Seq(S)
      BY <3>1
    <3>3. step[i][f[i - 1]] = f[i - 1] \o s[i]
      BY <1>1, <3>2
    <3> QED BY <1>4, <2>2, <3>1, <3>3
  <2> QED BY <2>1, <2>2
<1>6. f = [i \in 1 .. Len(s) |-> IF i = 1 THEN s[i] ELSE f[i - 1] \o s[i]]
  <2> DEFINE g == [i \in 1 .. Len(s) |-> IF i = 1 THEN s[i] ELSE f[i - 1] \o s[i]]
  <2>1. \A i \in 1 .. Len(s) : f[i] = g[i]
    BY <1>5
  <2> HIDE DEF g
  <2>2. DOMAIN g = 1 .. Len(s) /\ g = [i \in 1 .. Len(s) |-> g[i]]
    BY DEF g
  <2>3. f = [i \in 1 .. Len(s) |-> f[i]]
    OBVIOUS
  <2>4. [i \in 1 .. Len(s) |-> f[i]] = [i \in 1 .. Len(s) |-> g[i]]
    BY <2>1
  <2>5. f = g
    BY <2>2, <2>3, <2>4
  <2> QED BY <2>5 DEF g
<1> QED BY <1>6 DEF Flattens

LEMMA FlattensIs ==
    ASSUME NEW s, NEW f, Flattens(s, f), NEW i \in 1 .. Len(s)
    PROVE  f[i] = IF i = 1 THEN s[i] ELSE f[i - 1] \o s[i]
BY DEF Flattens

LEMMA FlattensUnique ==
    ASSUME NEW s, Len(s) \in Nat, NEW f, NEW g, Flattens(s, f), Flattens(s, g)
    PROVE  \A i \in 1 .. Len(s) : f[i] = g[i]
<1> DEFINE P == {m \in Nat : m \in 1 .. Len(s) => f[m] = g[m]}
<1>1. 0 \in P
  OBVIOUS
<1>2. ASSUME NEW m \in P PROVE m + 1 \in P
  <2> SUFFICES ASSUME m + 1 \in 1 .. Len(s) PROVE f[m + 1] = g[m + 1]
    OBVIOUS
  <2>1. f[m + 1] = (IF m + 1 = 1 THEN s[m + 1] ELSE f[(m + 1) - 1] \o s[m + 1])
        /\ g[m + 1] = (IF m + 1 = 1 THEN s[m + 1] ELSE g[(m + 1) - 1] \o s[m + 1])
    BY FlattensIs
  <2>2. CASE m = 0
    BY <2>1, <2>2
  <2>3. CASE m # 0
    <3>1. f[m] = g[m] /\ m + 1 # 1 /\ (m + 1) - 1 = m
      BY <1>2, <2>3
    <3> QED BY <2>1, <3>1
  <2> QED BY <2>2, <2>3
<1> HIDE DEF P
<1>3. P = Nat
  BY <1>1, <1>2, SetInduction DEF P
<1> QED BY <1>3 DEF P

LEMMA FlattenSeqIs ==
    ASSUME NEW S, NEW s \in Seq(Seq(S)), s # <<>>, NEW f, Flattens(s, f)
    PROVE  FlattenSeq(s) = f[Len(s)]
<1>1. Len(s) \in Nat /\ Len(s) # 0
  OBVIOUS
<1> DEFINE c == CHOOSE g : g = [i \in 1 .. Len(s) |-> IF i = 1 THEN s[i] ELSE g[i - 1] \o s[i]]
<1>2. Flattens(s, c)
  BY DEF Flattens
<1>3. FlattenSeq(s) = c[Len(s)]
  BY <1>1 DEF FlattenSeq
<1> HIDE DEF c
<1>4. Len(s) \in 1 .. Len(s)
  BY <1>1
<1>5. c[Len(s)] = f[Len(s)]
  BY <1>1, <1>2, <1>4, FlattensUnique
<1> QED BY <1>3, <1>5

LEMMA FlattenEmpty == FlattenSeq(<<>>) = <<>>
BY DEF FlattenSeq

LEMMA FlattenType ==
    ASSUME NEW S, NEW s \in Seq(Seq(S))
    PROVE  FlattenSeq(s) \in Seq(S)
<1>1. CASE s = <<>>
  BY <1>1, FlattenEmpty, EmptySeq
<1>2. CASE s # <<>>
  <2>1. PICK f \in [1 .. Len(s) -> Seq(S)] : Flattens(s, f)
    BY <1>2, FlattensExists
  <2>2. Len(s) \in 1 .. Len(s)
    BY <1>2
  <2> QED BY SMTT(60), <1>2, <2>1, <2>2, FlattenSeqIs
<1> QED BY <1>1, <1>2

LEMMA FlattenAppend ==
    ASSUME NEW S, NEW s \in Seq(Seq(S)), NEW x \in Seq(S)
    PROVE  FlattenSeq(Append(s, x)) = FlattenSeq(s) \o x
<1> DEFINE t == Append(s, x)
<1>1. t \in Seq(Seq(S)) /\ t # <<>> /\ Len(t) = Len(s) + 1 /\ t[Len(t)] = x
      /\ \A i \in 1 .. Len(s) : t[i] = s[i]
  BY AppendProperties, LenProperties
<1>2. PICK g \in [1 .. Len(t) -> Seq(S)] : Flattens(t, g)
  BY <1>1, FlattensExists
<1> HIDE DEF t
<1>3. FlattenSeq(t) = g[Len(t)]
  BY <1>1, <1>2, FlattenSeqIs
<1>4. CASE s = <<>>
  <2>1. Len(t) = 1 /\ 1 \in 1 .. Len(t)
    BY <1>1, <1>4
  <2>2. g[1] = t[1]
    BY <1>2, <2>1, FlattensIs
  <2>3. FlattenSeq(s) \o x = x
    BY <1>4, FlattenEmpty
  <2> QED BY <1>1, <1>3, <2>1, <2>2, <2>3 DEF t
<1>5. CASE s # <<>>
  <2> DEFINE f == [i \in 1 .. Len(s) |-> g[i]]
  <2>0. Len(s) \in Nat \ {0}
    BY <1>5
  <2>1. ASSUME NEW i \in 1 .. Len(s)
        PROVE  f[i] = IF i = 1 THEN s[i] ELSE f[i - 1] \o s[i]
    <3>1. i \in 1 .. Len(t) /\ (i # 1 => i - 1 \in 1 .. Len(s))
      BY <1>1, <2>0
    <3>2. g[i] = IF i = 1 THEN t[i] ELSE g[i - 1] \o t[i]
      BY <1>2, <3>1, FlattensIs
    <3> QED BY <1>1, <3>1, <3>2
  <2>2. Flattens(s, f)
    BY <2>1 DEF Flattens
  <2> HIDE DEF f
  <2>3. FlattenSeq(s) = f[Len(s)]
    BY ONLY <1>5, <2>2, FlattenSeqIs, s \in Seq(Seq(S))
  <2>4. f[Len(s)] = g[Len(s)]
    BY <2>0 DEF f
  <2>5. g[Len(t)] = g[Len(t) - 1] \o t[Len(t)] /\ Len(t) - 1 = Len(s)
    <3>1. Len(t) \in 1 .. Len(t) /\ Len(t) # 1 /\ Len(t) - 1 = Len(s)
      BY <1>1, <2>0
    <3>2. g[Len(t)] = IF Len(t) = 1 THEN t[Len(t)] ELSE g[Len(t) - 1] \o t[Len(t)]
      BY <1>2, <3>1, FlattensIs
    <3> QED BY <3>1, <3>2
  <2> QED BY <1>1, <1>3, <2>3, <2>4, <2>5 DEF t
<1> QED BY <1>4, <1>5

LEMMA FlattenConcat ==
    ASSUME NEW S, NEW s \in Seq(Seq(S)), NEW t \in Seq(Seq(S))
    PROVE  FlattenSeq(s \o t) = FlattenSeq(s) \o FlattenSeq(t)
<1> DEFINE P == {n \in Nat : \A u \in Seq(Seq(S)) :
                    Len(u) = n => FlattenSeq(s \o u) = FlattenSeq(s) \o FlattenSeq(u)}
<1>1. 0 \in P
  <2> SUFFICES ASSUME NEW u \in Seq(Seq(S)), Len(u) = 0
               PROVE  FlattenSeq(s \o u) = FlattenSeq(s) \o FlattenSeq(u)
    OBVIOUS
  <2>1. u = <<>> /\ s \o u = s
    BY EmptySeq, ConcatProperties
  <2>2. FlattenSeq(s) \in Seq(S)
    BY FlattenType
  <2> QED BY <2>1, <2>2, FlattenEmpty
<1>2. ASSUME NEW n \in P PROVE n + 1 \in P
  <2> SUFFICES ASSUME NEW u \in Seq(Seq(S)), Len(u) = n + 1
               PROVE  FlattenSeq(s \o u) = FlattenSeq(s) \o FlattenSeq(u)
    OBVIOUS
  <2> DEFINE v == SubSeq(u, 1, n)
             x == u[n + 1]
  <2>1. v \in Seq(Seq(S)) /\ Len(v) = n /\ x \in Seq(S) /\ u = Append(v, x)
    OBVIOUS
  <2> HIDE DEF v, x
  <2>2. s \o u = Append(s \o v, x) /\ s \o v \in Seq(Seq(S))
    BY SMTT(60), <2>1
  <2>3. FlattenSeq(s \o u) = FlattenSeq(s \o v) \o x
    BY ZenonT(60), <2>1, <2>2, FlattenAppend
  <2>4. FlattenSeq(s \o v) = FlattenSeq(s) \o FlattenSeq(v)
    BY <1>2, <2>1
  <2>5. FlattenSeq(u) = FlattenSeq(v) \o x
    BY <2>1, FlattenAppend
  <2>6. FlattenSeq(s) \in Seq(S) /\ FlattenSeq(v) \in Seq(S)
    BY <2>1, FlattenType
  <2> QED BY SMTT(60), <2>1, <2>3, <2>4, <2>5, <2>6, ConcatAssociative
<1> HIDE DEF P
<1>3. P = Nat
  BY <1>1, <1>2, SetInduction DEF P
<1>4. Len(t) \in P
  BY <1>3
<1> QED BY <1>4 DEF P

----------------------------------------------------------------------------
(* Sequences of whatever elements                                          *)

IsSeq(s) == s \in Seq(Range(s))

LEMMA SeqIs ==
    ASSUME NEW S, NEW s \in Seq(S)
    PROVE  IsSeq(s) /\ Range(s) \subseteq S
<1>1. s \in [1 .. Len(s) -> S] /\ Len(s) \in Nat
  BY LenProperties
<1>2. s \in [1 .. Len(s) -> Range(s)]
  BY <1>1 DEF Range
<1>3. Range(s) \subseteq S
  BY <1>1 DEF Range
<1> QED BY <1>1, <1>2, <1>3 DEF IsSeq

LEMMA FunctionIsSeq ==
    ASSUME NEW n \in Nat, NEW s, s = [i \in 1 .. n |-> s[i]]
    PROVE  IsSeq(s) /\ Len(s) = n
<1>1. s \in [1 .. n -> Range(s)]
  BY DEF Range
<1>2. s \in Seq(Range(s))
  BY <1>1
<1>3. DOMAIN s = 1 .. Len(s) /\ Len(s) \in Nat /\ DOMAIN s = 1 .. n
  BY <1>1, <1>2, LenProperties
<1> QED BY <1>2, <1>3 DEF IsSeq

LEMMA IsSeqConcat ==
    ASSUME NEW s, NEW t, IsSeq(s), IsSeq(t)
    PROVE  /\ IsSeq(s \o t)
           /\ Len(s \o t) = Len(s) + Len(t)
           /\ \A i \in 1 .. Len(s) : (s \o t)[i] = s[i]
           /\ \A i \in 1 .. Len(t) : (s \o t)[Len(s) + i] = t[i]
<1> DEFINE S == Range(s) \cup Range(t)
<1>1. s \in Seq(S) /\ t \in Seq(S)
  BY SeqMonotonic DEF IsSeq
<1>2. s \o t \in Seq(S) /\ Len(s \o t) = Len(s) + Len(t)
      /\ \A i \in 1 .. Len(s) + Len(t) : (s \o t)[i] = IF i <= Len(s) THEN s[i] ELSE t[i - Len(s)]
  BY <1>1, ConcatProperties
<1>3. Len(s) \in Nat /\ Len(t) \in Nat
  BY <1>1, LenProperties
<1> HIDE DEF S
<1>4. \A i \in 1 .. Len(s) : (s \o t)[i] = s[i]
  BY <1>2, <1>3
<1>5. ASSUME NEW i \in 1 .. Len(t) PROVE (s \o t)[Len(s) + i] = t[i]
  <2>1. Len(s) + i \in 1 .. Len(s) + Len(t) /\ ~(Len(s) + i <= Len(s)) /\ (Len(s) + i) - Len(s) = i
    BY <1>3
  <2> QED BY <1>2, <2>1
<1> QED BY <1>2, <1>4, <1>5, SeqIs

LEMMA IsSeqLen == ASSUME NEW s, IsSeq(s) PROVE Len(s) \in Nat /\ DOMAIN s = 1 .. Len(s)
BY LenProperties DEF IsSeq

LEMMA SameSeq ==
    ASSUME NEW s, NEW t, IsSeq(s), IsSeq(t), Len(s) = Len(t), \A i \in 1 .. Len(s) : s[i] = t[i]
    PROVE  s = t
<1> DEFINE S == Range(s) \cup Range(t)
<1>1. s \in Seq(S) /\ t \in Seq(S)
  BY SeqMonotonic DEF IsSeq
<1> HIDE DEF S
<1> QED BY <1>1, SeqEqual

LEMMA SubSeqIs ==
    ASSUME NEW s, NEW m \in Int, NEW n \in Int
    PROVE  /\ IsSeq(SubSeq(s, m, n))
           /\ Len(SubSeq(s, m, n)) = IF m <= n THEN n - m + 1 ELSE 0
           /\ \A i \in 1 .. n - m + 1 : SubSeq(s, m, n)[i] = s[m + i - 1]
<1> DEFINE S == {s[i] : i \in m .. n}
<1>1. \A i \in m .. n : s[i] \in S
  OBVIOUS
<1> HIDE DEF S
<1>2. /\ SubSeq(s, m, n) \in Seq(S)
      /\ Len(SubSeq(s, m, n)) = IF m <= n THEN n - m + 1 ELSE 0
      /\ \A i \in 1 .. n - m + 1 : SubSeq(s, m, n)[i] = s[m + i - 1]
  BY <1>1, SubSeqProperties
<1> QED BY <1>2, SeqIs

\* Flattening sequences of whatever elements.
LEMMA FlattenIsSeq ==
    ASSUME NEW s, IsSeq(s), \A i \in DOMAIN s : IsSeq(s[i])
    PROVE  /\ IsSeq(FlattenSeq(s))
           /\ Range(FlattenSeq(s)) \subseteq UNION {Range(s[i]) : i \in DOMAIN s}
<1> DEFINE S == UNION {Range(s[i]) : i \in DOMAIN s}
<1>1. s \in Seq(Seq(S))
  <2>1. \A i \in DOMAIN s : s[i] \in Seq(S)
    BY SeqMonotonic DEF IsSeq
  <2> HIDE DEF S
  <2>2. Range(s) \subseteq Seq(S)
    BY <2>1 DEF Range
  <2> QED BY <2>2, SeqMonotonic DEF IsSeq
<1> HIDE DEF S
<1>2. FlattenSeq(s) \in Seq(S)
  BY <1>1, FlattenType
<1> QED BY <1>2, SeqIs DEF S

\* What is begun with s begins with what s is flattened to.
LEMMA FlattenPrefix ==
    ASSUME NEW s, NEW t, IsSeq(s), IsSeq(t),
           \A i \in DOMAIN s : IsSeq(s[i]), \A i \in DOMAIN t : IsSeq(t[i])
    PROVE  IsPrefix(FlattenSeq(s), FlattenSeq(s \o t))
<1> DEFINE A == UNION {Range(s[i]) : i \in DOMAIN s}
           B == UNION {Range(t[i]) : i \in DOMAIN t}
           S == A \cup B
<1>1. s \in Seq(Seq(S)) /\ t \in Seq(Seq(S))
  <2>1. \A i \in DOMAIN s : s[i] \in Seq(S)
    BY SeqMonotonic DEF IsSeq
  <2>2. \A i \in DOMAIN t : t[i] \in Seq(S)
    BY SeqMonotonic DEF IsSeq
  <2> HIDE DEF S
  <2>3. Range(s) \subseteq Seq(S) /\ Range(t) \subseteq Seq(S)
    BY <2>1, <2>2 DEF Range
  <2> QED BY <2>3, SeqMonotonic DEF IsSeq
<1> HIDE DEF S
<1>2. FlattenSeq(s \o t) = FlattenSeq(s) \o FlattenSeq(t)
  BY <1>1, FlattenConcat
<1>3. FlattenSeq(s) \in Seq(S) /\ FlattenSeq(t) \in Seq(S)
  BY <1>1, FlattenType
<1>4. SubSeq(FlattenSeq(s) \o FlattenSeq(t), 1, Len(FlattenSeq(s))) = FlattenSeq(s)
      /\ Len(FlattenSeq(s)) <= Len(FlattenSeq(s) \o FlattenSeq(t))
  BY <1>3
<1> QED BY <1>2, <1>4 DEF IsPrefix

----------------------------------------------------------------------------
(* Concatenation, and parts of sequences                                   *)
LEMMA ConcatAssoc ==
    ASSUME NEW s, NEW t, NEW u, IsSeq(s), IsSeq(t), IsSeq(u)
    PROVE  (s \o t) \o u = s \o (t \o u)
<1> DEFINE S == Range(s) \cup Range(t) \cup Range(u)
<1>1. s \in Seq(S) /\ t \in Seq(S) /\ u \in Seq(S)
  BY SeqMonotonic DEF IsSeq
<1> HIDE DEF S
<1> QED BY SMTT(60), <1>1, ConcatAssociative

LEMMA ConcatNone == ASSUME NEW s, IsSeq(s) PROVE s \o <<>> = s /\ <<>> \o s = s
BY ConcatEmptySeq DEF IsSeq

LEMMA CancelRight ==
    ASSUME NEW s, NEW t, NEW u, IsSeq(s), IsSeq(t), IsSeq(u), s \o u = t \o u
    PROVE  s = t
<1>1. Len(s) + Len(u) = Len(t) + Len(u) /\ Len(s) \in Nat /\ Len(t) \in Nat /\ Len(u) \in Nat
  BY IsSeqConcat, IsSeqLen
<1>2. Len(s) = Len(t)
  BY <1>1
<1>3. \A i \in 1 .. Len(s) : (s \o u)[i] = s[i] /\ (t \o u)[i] = t[i]
  BY <1>2, IsSeqConcat
<1> QED BY <1>2, <1>3, SameSeq

LEMMA FlattenBoth ==
    ASSUME NEW s, NEW t, IsSeq(s), IsSeq(t),
           \A i \in DOMAIN s : IsSeq(s[i]), \A i \in DOMAIN t : IsSeq(t[i])
    PROVE  FlattenSeq(s \o t) = FlattenSeq(s) \o FlattenSeq(t)
<1> DEFINE A == UNION {Range(s[i]) : i \in DOMAIN s}
           B == UNION {Range(t[i]) : i \in DOMAIN t}
           S == A \cup B
<1>1. s \in Seq(Seq(S)) /\ t \in Seq(Seq(S))
  <2>1. \A i \in DOMAIN s : s[i] \in Seq(S)
    BY SeqMonotonic DEF IsSeq
  <2>2. \A i \in DOMAIN t : t[i] \in Seq(S)
    BY SeqMonotonic DEF IsSeq
  <2> HIDE DEF S
  <2>3. Range(s) \subseteq Seq(S) /\ Range(t) \subseteq Seq(S)
    BY <2>1, <2>2 DEF Range
  <2> QED BY <2>3, SeqMonotonic DEF IsSeq
<1> HIDE DEF S
<1> QED BY <1>1, FlattenConcat

LEMMA FlattenOne == ASSUME NEW x, IsSeq(x) PROVE FlattenSeq(<<x>>) = x
<1> DEFINE S == Range(x)
<1>1. x \in Seq(S) /\ <<>> \in Seq(Seq(S))
  BY DEF IsSeq
<1>2. Append(<<>>, x) = <<x>>
  OBVIOUS
<1> HIDE DEF S
<1>3. FlattenSeq(Append(<<>>, x)) = FlattenSeq(<<>>) \o x
  BY <1>1, FlattenAppend
<1> QED BY <1>2, <1>3, FlattenEmpty, ConcatNone

LEMMA OneIsSeq == ASSUME NEW x PROVE IsSeq(<<x>>) /\ Len(<<x>>) = 1 /\ <<x>>[1] = x /\ IsSeq(<<>>)
<1>1. <<x>> \in Seq({x}) /\ <<>> \in Seq({x}) /\ Len(<<x>>) = 1 /\ <<x>>[1] = x
  OBVIOUS
<1> QED BY <1>1, SeqIs

\* A sequence of n + 1 texts ends with the last one.
LEMMA FlattenLast ==
    ASSUME NEW n \in Nat, NEW f, f = [i \in 1 .. n + 1 |-> f[i]], NEW g, g = [i \in 1 .. n |-> g[i]],
           \A i \in 1 .. n : g[i] = f[i], \A i \in 1 .. n + 1 : IsSeq(f[i])
    PROVE  FlattenSeq(f) = FlattenSeq(g) \o f[n + 1]
<1>1. IsSeq(f) /\ Len(f) = n + 1 /\ IsSeq(g) /\ Len(g) = n
  <2>1. n + 1 \in Nat
    OBVIOUS
  <2> QED BY <2>1, FunctionIsSeq
<1> DEFINE x == f[n + 1]
<1>2. IsSeq(<<x>>) /\ Len(<<x>>) = 1 /\ <<x>>[1] = x /\ DOMAIN <<x>> = {1}
  <2>1. DOMAIN <<x>> = {1}
    OBVIOUS
  <2> QED BY <2>1, OneIsSeq
<1>3. IsSeq(x)
  OBVIOUS
<1>4. DOMAIN g = 1 .. n
  OBVIOUS
<1> HIDE DEF x
<1>5. /\ IsSeq(g \o <<x>>) /\ Len(g \o <<x>>) = n + 1
      /\ \A i \in 1 .. n : (g \o <<x>>)[i] = g[i]
      /\ \A i \in 1 .. 1 : (g \o <<x>>)[n + i] = <<x>>[i]
  BY <1>1, <1>2, IsSeqConcat
<1>6. ASSUME NEW i \in 1 .. n + 1 PROVE f[i] = (g \o <<x>>)[i]
  <2>1. CASE i \in 1 .. n
    BY <1>5, <2>1
  <2>2. CASE i = n + 1
    <3>1. (g \o <<x>>)[n + 1] = x
      BY <1>2, <1>5
    <3> QED BY <2>2, <3>1 DEF x
  <2> QED BY <2>1, <2>2
<1>7. f = g \o <<x>>
  BY <1>1, <1>5, <1>6, SameSeq
<1>8. FlattenSeq(g \o <<x>>) = FlattenSeq(g) \o FlattenSeq(<<x>>)
  <2>1. \A i \in DOMAIN g : IsSeq(g[i])
    BY <1>4
  <2>2. \A i \in DOMAIN <<x>> : IsSeq(<<x>>[i])
    BY <1>2, <1>3
  <2> QED BY <1>1, <1>2, <2>1, <2>2, FlattenBoth
<1> QED BY <1>3, <1>7, <1>8, FlattenOne DEF x

LEMMA TwoIsSeq == ASSUME NEW x, NEW y PROVE IsSeq(<<x, y>>)
<1> DEFINE s == <<x, y>>
<1>1. s = [i \in 1 .. 2 |-> s[i]]
  OBVIOUS
<1> HIDE DEF s
<1>2. IsSeq(s)
  BY <1>1, FunctionIsSeq
<1> QED BY <1>2 DEF s

LEMMA ConcatWithin ==
    ASSUME NEW S, NEW x, IsSeq(x), \A k \in 1 .. Len(x) : x[k] \in S,
           NEW y, IsSeq(y), \A k \in 1 .. Len(y) : y[k] \in S
    PROVE  \A k \in DOMAIN (x \o y) : (x \o y)[k] \in S
<1> DEFINE order == x \o y
<1>1. /\ IsSeq(order) /\ Len(order) = Len(x) + Len(y)
      /\ \A k \in 1 .. Len(x) : order[k] = x[k]
      /\ \A k \in 1 .. Len(y) : order[Len(x) + k] = y[k]
  BY IsSeqConcat
<1>2. DOMAIN order = 1 .. Len(order) /\ Len(x) \in Nat /\ Len(y) \in Nat
  BY <1>1, IsSeqLen
<1> HIDE DEF order
<1> SUFFICES ASSUME NEW k \in DOMAIN order PROVE order[k] \in S
  BY DEF order
<1>3. CASE k <= Len(x)
  <2>1. k \in 1 .. Len(x)
    BY <1>1, <1>2, <1>3
  <2> QED BY <1>1, <2>1
<1>4. CASE ~(k <= Len(x))
  <2> DEFINE j == k - Len(x)
  <2>1. j \in 1 .. Len(y) /\ Len(x) + j = k
    BY <1>1, <1>2, <1>4
  <2> HIDE DEF j
  <2>2. order[Len(x) + j] = y[j]
    BY <1>1, <2>1
  <2> QED BY <2>1, <2>2
<1> QED BY <1>3, <1>4

LEMMA PieceIs ==
    ASSUME NEW m, NEW a \in Nat, NEW b \in Nat, a <= b
    PROVE  /\ IsSeq(SubSeq(m, a + 1, b)) /\ Len(SubSeq(m, a + 1, b)) = b - a
           /\ \A k \in 1 .. b - a : SubSeq(m, a + 1, b)[k] = m[a + k]
<1> DEFINE c == a + 1
           s == SubSeq(m, c, b)
<1>1. c \in Int /\ b \in Int /\ c - 1 = a /\ b - c + 1 = b - a
      /\ (IF c <= b THEN b - c + 1 ELSE 0) = b - a
  OBVIOUS
<1>2. /\ IsSeq(s) /\ Len(s) = IF c <= b THEN b - c + 1 ELSE 0
      /\ \A i \in 1 .. b - c + 1 : s[i] = m[c + i - 1]
  <2> HIDE DEF c
  <2> QED BY <1>1, SubSeqIs
<1>3. Len(s) = b - a
  <2> HIDE DEF s
  <2> QED BY <1>1, <1>2
<1>4. ASSUME NEW k \in 1 .. b - a PROVE s[k] = m[a + k]
  <2>1. k \in 1 .. b - c + 1 /\ c + k - 1 = a + k
    OBVIOUS
  <2> HIDE DEF s, c
  <2>2. s[k] = m[c + k - 1]
    BY <1>2, <2>1
  <2> QED BY <2>1, <2>2
<1> QED BY <1>2, <1>3, <1>4

LEMMA PieceSplit ==
    ASSUME NEW m, NEW a \in Nat, NEW b \in Nat, NEW c \in Nat, a <= b, b <= c
    PROVE  SubSeq(m, a + 1, c) = SubSeq(m, a + 1, b) \o SubSeq(m, b + 1, c)
<1> DEFINE x == SubSeq(m, a + 1, b)
           y == SubSeq(m, b + 1, c)
           z == SubSeq(m, a + 1, c)
<1>1. /\ IsSeq(x) /\ Len(x) = b - a /\ \A k \in 1 .. b - a : x[k] = m[a + k]
  BY PieceIs
<1>2. /\ IsSeq(y) /\ Len(y) = c - b /\ \A k \in 1 .. c - b : y[k] = m[b + k]
  BY PieceIs
<1>3. /\ IsSeq(z) /\ Len(z) = c - a /\ \A k \in 1 .. c - a : z[k] = m[a + k]
  BY PieceIs
<1> HIDE DEF x, y, z
<1>4. /\ IsSeq(x \o y) /\ Len(x \o y) = Len(x) + Len(y)
      /\ \A i \in 1 .. Len(x) : (x \o y)[i] = x[i]
      /\ \A i \in 1 .. Len(y) : (x \o y)[Len(x) + i] = y[i]
  BY <1>1, <1>2, IsSeqConcat
<1>5. Len(x \o y) = c - a
  BY <1>1, <1>2, <1>4
<1>6. ASSUME NEW k \in 1 .. c - a PROVE (x \o y)[k] = z[k]
  <2>1. CASE k <= b - a
    <3>1. k \in 1 .. b - a
      BY <2>1
    <3> QED BY <1>1, <1>3, <1>4, <3>1
  <2>2. CASE ~(k <= b - a)
    <3> DEFINE i == k - (b - a)
    <3>1. i \in 1 .. c - b /\ b - a + i = k /\ b + i = a + k
      BY <2>2
    <3> HIDE DEF i
    <3>2. (x \o y)[Len(x) + i] = y[i] /\ y[i] = m[b + i] /\ z[k] = m[a + k]
      BY <1>2, <1>3, <1>4, <3>1
    <3>3. Len(x) + i = k
      BY <1>1, <3>1
    <3> QED BY <3>1, <3>2, <3>3
  <2> QED BY <2>1, <2>2
<1>7. z = x \o y
  BY <1>3, <1>4, <1>5, <1>6, SameSeq
<1> QED BY <1>7 DEF x, y, z

LEMMA PieceSame ==
    ASSUME NEW m, NEW o, NEW a \in Nat, NEW b \in Nat, a <= b,
           \A k \in a + 1 .. b : m[k] = o[k]
    PROVE  SubSeq(m, a + 1, b) = SubSeq(o, a + 1, b)
<1> DEFINE x == SubSeq(m, a + 1, b)
           y == SubSeq(o, a + 1, b)
<1>1. /\ IsSeq(x) /\ Len(x) = b - a /\ \A k \in 1 .. b - a : x[k] = m[a + k]
  BY PieceIs
<1>2. /\ IsSeq(y) /\ Len(y) = b - a /\ \A k \in 1 .. b - a : y[k] = o[a + k]
  BY PieceIs
<1> HIDE DEF x, y
<1>3. \A k \in 1 .. b - a : x[k] = y[k]
  <2> SUFFICES ASSUME NEW k \in 1 .. b - a PROVE x[k] = y[k]
    OBVIOUS
  <2>1. a + k \in a + 1 .. b
    OBVIOUS
  <2> QED BY <1>1, <1>2, <2>1
<1>4. x = y
  BY <1>1, <1>2, <1>3, SameSeq
<1> QED BY <1>4 DEF x, y

LEMMA PieceOf ==
    ASSUME NEW m, NEW a \in Nat, NEW text, IsSeq(text), \A k \in 1 .. Len(text) : m[a + k] = text[k]
    PROVE  SubSeq(m, a + 1, a + Len(text)) = text
<1> DEFINE b == a + Len(text)
           x == SubSeq(m, a + 1, b)
<1>1. Len(text) \in Nat /\ b \in Nat /\ a <= b /\ b - a = Len(text)
  BY IsSeqLen
<1> HIDE DEF b
<1>2. /\ IsSeq(x) /\ Len(x) = b - a /\ \A k \in 1 .. b - a : x[k] = m[a + k]
  BY ZenonT(60), <1>1, PieceIs
<1> HIDE DEF x
<1>3. x = text
  BY <1>1, <1>2, SameSeq
<1> QED BY <1>3 DEF x, b

LEMMA PieceNone ==
    ASSUME NEW m, NEW a \in Nat
    PROVE  SubSeq(m, a + 1, a) = <<>>
<1> DEFINE b == a
           x == SubSeq(m, a + 1, b)
<1>0. b \in Nat /\ a <= b /\ b - a = 0
  OBVIOUS
<1> HIDE DEF b
<1>1. IsSeq(x) /\ Len(x) = b - a
  BY <1>0, PieceIs
<1> HIDE DEF x
<1>2. Len(x) = 0
  BY <1>0, <1>1
<1>3. x = <<>>
  BY <1>1, <1>2, EmptySeq DEF IsSeq
<1> QED BY <1>3 DEF x, b

LEMMA PieceShift ==
    ASSUME NEW u, NEW z, NEW d \in Nat, NEW a \in Nat, NEW b \in Nat, a <= b,
           \A k \in a + 1 .. b : u[d + k] = z[k]
    PROVE  SubSeq(u, (d + a) + 1, d + b) = SubSeq(z, a + 1, b)
<1> DEFINE e == d + a
           c == d + b
           x == SubSeq(u, e + 1, c)
           y == SubSeq(z, a + 1, b)
<1>1. e \in Nat /\ c \in Nat /\ e <= c /\ c - e = b - a /\ \A k \in Nat : e + k = d + (a + k)
  OBVIOUS
<1>2. /\ IsSeq(y) /\ Len(y) = b - a /\ \A k \in 1 .. b - a : y[k] = z[a + k]
  BY PieceIs
<1> HIDE DEF e, c
<1>3. /\ IsSeq(x) /\ Len(x) = c - e /\ \A k \in 1 .. c - e : x[k] = u[e + k]
  BY SMTT(60), <1>1, PieceIs
<1> HIDE DEF x, y
<1>4. \A k \in 1 .. b - a : x[k] = y[k]
  <2> SUFFICES ASSUME NEW k \in 1 .. b - a PROVE x[k] = y[k]
    OBVIOUS
  <2>1. a + k \in a + 1 .. b /\ k \in Nat
    OBVIOUS
  <2>2. u[d + (a + k)] = z[a + k]
    BY <2>1
  <2>3. x[k] = u[e + k] /\ e + k = d + (a + k)
    BY <1>1, <1>3, <2>1
  <2> QED BY <1>2, <2>2, <2>3
<1>5. x = y
  BY <1>1, <1>2, <1>3, <1>4, SameSeq
<1> QED BY <1>5 DEF x, y, e, c

LEMMA WholePiece == ASSUME NEW x, IsSeq(x) PROVE SubSeq(x, 1, Len(x)) = x
<1> DEFINE z == 0
           n == Len(x)
           y == SubSeq(x, z + 1, n)
<1>1. z \in Nat /\ n \in Nat /\ z <= n /\ n - z = n /\ \A k \in 1 .. n : z + k = k
  BY IsSeqLen
<1>2. z + 1 = 1
  OBVIOUS
<1> HIDE DEF z
<1>3. /\ IsSeq(y) /\ Len(y) = n - z /\ \A k \in 1 .. n - z : y[k] = x[z + k]
  BY <1>1, PieceIs
<1> HIDE DEF y
<1>4. Len(y) = n /\ \A k \in 1 .. n : y[k] = x[k]
  BY <1>1, <1>3
<1>5. y = x
  BY <1>3, <1>4, SameSeq
<1> QED BY <1>2, <1>5 DEF y
=============================================================================
