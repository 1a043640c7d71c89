-------------------------- MODULE ResultRowsProofs --------------------------
(***************************************************************************)
(* The text that handleLevel of base.js puts between the rows of a result  *)
(* makes of them the JSON that they stand for: what was given for n rows,  *)
(* without what closes it, is continued by the text for the next row.      *)
(* And parseRows makes of the same rows the objects they come from.        *)
(***************************************************************************)
EXTENDS HdbStreamProofs

\* What the statement returned.
RowsSound == InPathOrder(Rows)

----------------------------------------------------------------------------
(* Paths and their order                                                   *)
PathOf(r) == IF r = 0 THEN RootPath ELSE Rows[r].path
Agree(p, q, k) == /\ k <= Len(p) /\ k <= Len(q)
                  /\ \A x \in 1 .. k : p[x] = q[x]

LEMMA PrefixIs ==
    ASSUME NEW p \in Seq(Nat), NEW q \in Seq(Nat)
    PROVE  /\ IsPrefix(p, q) <=> Agree(p, q, Len(p))
           /\ IsStrictPrefix(p, q) <=> Agree(p, q, Len(p)) /\ Len(p) < Len(q)
<1>1. Len(p) \in Nat /\ Len(q) \in Nat /\ IsSeq(p) /\ IsSeq(q)
  BY LenProperties, SeqIs
<1>2. SubSeq(p, 1, Len(p)) = p
  BY SubSeqFull
<1>3. ASSUME Len(p) <= Len(q)
      PROVE  p = SubSeq(q, 1, Len(p)) <=> \A x \in 1 .. Len(p) : p[x] = q[x]
  <2>1. /\ IsSeq(SubSeq(q, 1, Len(p))) /\ Len(SubSeq(q, 1, Len(p))) = Len(p)
        /\ \A x \in 1 .. Len(p) : SubSeq(q, 1, Len(p))[x] = q[x]
    <3>1. /\ IsSeq(SubSeq(q, 1, Len(p)))
          /\ Len(SubSeq(q, 1, Len(p))) = IF 1 <= Len(p) THEN Len(p) - 1 + 1 ELSE 0
          /\ \A x \in 1 .. Len(p) - 1 + 1 : SubSeq(q, 1, Len(p))[x] = q[1 + x - 1]
      BY <1>1, SubSeqIs
    <3> QED BY <1>1, <3>1
  <2>2. ASSUME \A x \in 1 .. Len(p) : p[x] = q[x] PROVE p = SubSeq(q, 1, Len(p))
    BY <1>1, <2>1, <2>2, SameSeq
  <2> QED BY <2>1, <2>2
<1>4. IsPrefix(p, q) <=> Agree(p, q, Len(p))
  BY SMTT(60), <1>1, <1>2, <1>3 DEF IsPrefix, Agree
<1>5. ASSUME Agree(p, q, Len(p)) PROVE p # q <=> Len(p) < Len(q)
  <2>1. ASSUME Len(p) = Len(q) PROVE p = q
    BY <1>1, <1>5, <2>1, SameSeq DEF Agree
  <2> QED BY <1>1, <1>5, <2>1 DEF Agree
<1> QED BY <1>4, <1>5 DEF IsStrictPrefix

\* The first place where paths differ tells their order.
LEMMA PrecedesIs ==
    ASSUME NEW p \in Seq(Nat), NEW q \in Seq(Nat), Precedes(p, q)
    PROVE  \/ Agree(p, q, Len(p)) /\ Len(p) < Len(q)
           \/ \E i \in 1 .. Len(p) : /\ i <= Len(q) /\ p[i] < q[i]
                                     /\ \A j \in 1 .. i - 1 : p[j] = q[j]
<1>1. DOMAIN p = 1 .. Len(p) /\ DOMAIN q = 1 .. Len(q) /\ Len(p) \in Nat /\ Len(q) \in Nat
  BY LenProperties
<1>2. CASE IsStrictPrefix(p, q)
  BY <1>2, PrefixIs
<1>3. CASE \E i \in DOMAIN p \cap DOMAIN q : p[i] < q[i] /\ \A j \in 1 .. i - 1 : p[j] = q[j]
  <2>1. PICK i \in DOMAIN p \cap DOMAIN q : p[i] < q[i] /\ \A j \in 1 .. i - 1 : p[j] = q[j]
    BY <1>3
  <2>2. i \in 1 .. Len(p) /\ i <= Len(q)
    BY <1>1
  <2> QED BY <2>1, <2>2
<1> QED BY <1>2, <1>3 DEF Precedes

\* Between paths that agree there are but those that agree, too.
LEMMA Between ==
    ASSUME NEW p \in Seq(Nat), NEW q \in Seq(Nat), NEW r \in Seq(Nat), NEW k \in Nat,
           Precedes(p, q), Precedes(q, r), Agree(p, r, k)
    PROVE  Agree(p, q, k)
<1>1. Len(p) \in Nat /\ Len(q) \in Nat /\ Len(r) \in Nat
  BY LenProperties
<1>2. ASSUME NEW x \in 1 .. k PROVE p[x] = r[x] /\ x \in 1 .. Len(p) /\ x \in 1 .. Len(r)
  BY <1>1 DEF Agree
<1>3. \/ Agree(p, q, Len(p)) /\ Len(p) < Len(q)
      \/ \E i \in 1 .. Len(p) : /\ i <= Len(q) /\ p[i] < q[i]
                                /\ \A j \in 1 .. i - 1 : p[j] = q[j]
  BY PrecedesIs
<1>4. \/ Agree(q, r, Len(q)) /\ Len(q) < Len(r)
      \/ \E i \in 1 .. Len(q) : /\ i <= Len(r) /\ q[i] < r[i]
                                /\ \A j \in 1 .. i - 1 : q[j] = r[j]
  BY PrecedesIs
<1>5. CASE Agree(p, q, Len(p)) /\ Len(p) < Len(q)
  BY <1>1, <1>5 DEF Agree
<1>6. CASE \E i \in 1 .. Len(p) : /\ i <= Len(q) /\ p[i] < q[i]
                                  /\ \A j \in 1 .. i - 1 : p[j] = q[j]
  <2>1. PICK i \in 1 .. Len(p) : /\ i <= Len(q) /\ p[i] < q[i]
                                 /\ \A j \in 1 .. i - 1 : p[j] = q[j]
    BY <1>6
  <2>2. CASE i > k
    <3>1. \A j \in 1 .. k : j \in 1 .. i - 1
      BY <2>2
    <3> QED BY SMTT(60), <1>1, <2>1, <2>2, <3>1 DEF Agree
  <2>3. CASE i <= k
    <3>1. i \in 1 .. k /\ p[i] = r[i] /\ p[i] \in Nat /\ q[i] \in Nat /\ i \in 1 .. Len(q)
          /\ i <= Len(r)
      BY SMTT(60), <1>1, <1>2, <2>1, <2>3 DEF Agree
    <3>2. ~(Agree(q, r, Len(q)) /\ Len(q) < Len(r))
      BY SMTT(60), <2>1, <3>1 DEF Agree
    <3>3. PICK j \in 1 .. Len(q) : /\ j <= Len(r) /\ q[j] < r[j]
                                   /\ \A x \in 1 .. j - 1 : q[x] = r[x]
      BY <1>4, <3>2
    <3>4. CASE j < i
      <4>1. j \in 1 .. i - 1 /\ j \in 1 .. k
        BY <2>3, <3>4
      <4>2. q[j] = p[j] /\ p[j] = r[j] /\ q[j] \in Nat
        BY SMTT(60), <1>2, <2>1, <4>1
      <4> QED BY SMTT(60), <3>3, <4>2
    <3>5. CASE j = i
      <4>1. q[i] < r[i]
        BY <3>3, <3>5
      <4> QED BY SMTT(60), <2>1, <3>1, <4>1
    <3>6. CASE j > i
      <4>1. i \in 1 .. j - 1
        BY <3>6
      <4>2. q[i] = r[i]
        BY <3>3, <4>1
      <4> QED BY SMTT(60), <2>1, <3>1, <4>2
    <3> QED BY <3>4, <3>5, <3>6
  <2> QED BY <2>2, <2>3
<1> QED BY <1>3, <1>5, <1>6

LEMMA PrecedesOnce ==
    ASSUME NEW p \in Seq(Nat), NEW q \in Seq(Nat), Precedes(p, q)
    PROVE  ~Agree(q, p, Len(q))
<1> SUFFICES ASSUME Agree(q, p, Len(q)) PROVE FALSE
  OBVIOUS
<1>1. Len(p) \in Nat /\ Len(q) \in Nat
  BY LenProperties
<1>2. Len(q) <= Len(p) /\ \A x \in 1 .. Len(q) : q[x] = p[x]
  BY DEF Agree
<1>3. PICK i \in 1 .. Len(p) : i <= Len(q) /\ p[i] < q[i]
  BY <1>1, <1>2, PrecedesIs
<1>4. i \in 1 .. Len(q) /\ p[i] \in Nat
  BY SMTT(60), <1>1, <1>3
<1>5. p[i] = q[i]
  BY <1>2, <1>4
<1> QED BY <1>3, <1>4, <1>5

Even(k) == \E d \in Nat : k = 2 * d

LEMMA Parity == \A k \in Nat : Even(k) <=> ~Even(k + 1)
<1> DEFINE P == {k \in Nat : Even(k) <=> ~Even(k + 1)}
<1>1. 0 \in P
  <2>1. Even(0) /\ ~Even(0 + 1)
    BY DEF Even
  <2> QED BY <2>1
<1>2. \A n \in P : n + 1 \in P
  <2> TAKE n \in P
  <2>1. ASSUME Even(n) PROVE Even(n + 1 + 1)
    <3>1. PICK d \in Nat : n = 2 * d
      BY <2>1 DEF Even
    <3>2. n + 1 + 1 = 2 * (d + 1) /\ d + 1 \in Nat
      BY <3>1
    <3> QED BY <3>2 DEF Even
  <2>2. ASSUME Even(n + 1 + 1) PROVE Even(n)
    <3>1. PICK d \in Nat : n + 1 + 1 = 2 * d
      BY <2>2 DEF Even
    <3>2. n = 2 * (d - 1) /\ d - 1 \in Nat
      BY <3>1
    <3> QED BY <3>2 DEF Even
  <2> QED BY <2>1, <2>2
<1> HIDE DEF P
<1>3. P = Nat
  BY <1>1, <1>2, SetInduction DEF P
<1> QED BY <1>3 DEF P

LEMMA Twice == ASSUME NEW k \in Nat PROVE Even(k + 2) <=> Even(k)
<1>1. k + 1 \in Nat /\ k + 1 + 1 = k + 2
  OBVIOUS
<1>2. (Even(k) <=> ~Even(k + 1)) /\ (Even(k + 1) <=> ~Even(k + 1 + 1))
  BY <1>1, Parity
<1> QED BY <1>1, <1>2

\* Agreement is that of places up to the k-th.
LEMMA AgreeIs ==
    ASSUME NEW p \in Seq(Nat), NEW q \in Seq(Nat), NEW k \in Nat, Agree(p, q, k)
    PROVE  /\ Agree(q, p, k)
           /\ \A j \in Nat : j <= k => Agree(p, q, j)
           /\ \A r \in Seq(Nat) : Agree(q, r, k) => Agree(p, r, k)
           /\ k <= Len(p) /\ k <= Len(q) /\ Len(p) \in Nat /\ Len(q) \in Nat
BY LenProperties DEF Agree

\* The paths of rows: the root is 0, and after it come a number for each row
\* and a number for each expand, in turn.
LEMMA PathsAre ==
    ASSUME result \in Results, RowsSound
    PROVE  /\ Len(Rows) \in Nat
           /\ \A r \in 0 .. Len(Rows) :
                /\ PathOf(r) \in Seq(Nat) /\ Len(PathOf(r)) \in Nat
                /\ PathOf(r)[1] = 0 /\ Len(PathOf(r)) >= 1
           /\ \A r \in 1 .. Len(Rows) :
                Even(Len(PathOf(r))) /\ Len(PathOf(r)) >= 2 /\ PathOf(r) = Rows[r].path
<1>1. Len(Rows) \in Nat /\ DOMAIN Rows = 1 .. Len(Rows) /\ \A i \in 1 .. Len(Rows) : IsRow(Rows[i])
  BY RowsAre
<1>2. /\ PathOf(0) \in Seq(Nat) /\ Len(PathOf(0)) \in Nat
      /\ PathOf(0)[1] = 0 /\ Len(PathOf(0)) >= 1
  BY DEF PathOf, RootPath
<1>3. \A r \in 1 .. Len(Rows) : /\ PathOf(r) = Rows[r].path /\ PathOf(r) \in Seq(Nat)
                                /\ Len(PathOf(r)) \in Nat
  BY <1>1, LenProperties DEF PathOf, IsRow
<1> DEFINE Good(r) == PathOf(r)[1] = 0 /\ Even(Len(PathOf(r))) /\ Len(PathOf(r)) >= 2
           P == {n \in Nat : \A r \in 1 .. Len(Rows) : r <= n => Good(r)}
<1>4. 0 \in P
  OBVIOUS
<1>5. \A n \in P : n + 1 \in P
  <2> TAKE n \in P
  <2>0. n \in Nat
    OBVIOUS
  <2>1. ASSUME NEW r \in 1 .. Len(Rows), r = n + 1 PROVE Good(r)
    <3> DEFINE path == Rows[r].path
    <3>1. PathOf(r) = path /\ path \in Seq(Nat) /\ Len(path) \in Nat /\ r \in DOMAIN Rows
      BY <1>1, <1>3
    <3>2. \/ IsRoot(path) /\ path[1] = 0
          \/ \E j \in 1 .. r - 1 : /\ Len(path) = Len(Rows[j].path) + 2
                                   /\ Parent(path) = Rows[j].path
      BY <3>1 DEF RowsSound, InPathOrder
    <3>3. CASE IsRoot(path) /\ path[1] = 0
      <4>1. Even(2)
        BY DEF Even
      <4> QED BY <3>1, <3>3, <4>1 DEF IsRoot
    <3>4. CASE \E j \in 1 .. r - 1 : /\ Len(path) = Len(Rows[j].path) + 2
                                     /\ Parent(path) = Rows[j].path
      <4>1. PICK j \in 1 .. r - 1 : /\ Len(path) = Len(Rows[j].path) + 2
                                    /\ Parent(path) = Rows[j].path
        BY <3>4
      <4>2. j \in 1 .. Len(Rows) /\ j <= n
        BY <1>1, <2>1
      <4>3. Good(j) /\ PathOf(j) = Rows[j].path /\ Len(PathOf(j)) \in Nat
        BY <1>3, <4>2
      <4>4. Len(path) >= 4 /\ Even(Len(path))
        <5>1. Even(Len(PathOf(j)) + 2)
          BY <4>3, Twice
        <5> QED BY <4>1, <4>3, <5>1
      <4>5. path[1] = SubSeq(path, 1, Len(path) - 2)[1]
        <5>1. Len(path) - 2 \in Int /\ 1 \in Int /\ 1 \in 1 .. (Len(path) - 2) - 1 + 1
          BY <3>1, <4>4
        <5> HIDE DEF path
        <5>2. \A i \in 1 .. (Len(path) - 2) - 1 + 1 :
                 SubSeq(path, 1, Len(path) - 2)[i] = path[1 + i - 1]
          BY <5>1, SubSeqIs
        <5>3. SubSeq(path, 1, Len(path) - 2)[1] = path[1 + 1 - 1]
          BY <5>1, <5>2
        <5>4. 1 + 1 - 1 = 1
          OBVIOUS
        <5> QED BY <5>3, <5>4
      <4> QED BY SMTT(60), <3>1, <4>1, <4>3, <4>4, <4>5 DEF Parent
    <3> QED BY <3>2, <3>3, <3>4
  <2> HIDE DEF Good
  <2>2. ASSUME NEW r \in 1 .. Len(Rows), r <= n PROVE Good(r)
    BY <2>2
  <2> HIDE DEF P
  <2>3. ASSUME NEW r \in 1 .. Len(Rows), r <= n + 1 PROVE Good(r)
    <3>1. r <= n \/ r = n + 1
      BY <1>1, <2>0, <2>3
    <3> QED BY <2>1, <2>2, <3>1
  <2> QED BY <2>0, <2>3 DEF P
<1> HIDE DEF Good, P
<1>6. P = Nat
  <2>1. P \in SUBSET Nat
    BY DEF P
  <2> QED BY <1>4, <1>5, <2>1, SetInduction
<1>7. \A r \in 1 .. Len(Rows) : Good(r)
  <2>1. Len(Rows) \in P
    BY <1>1, <1>6
  <2> QED BY <1>1, <2>1 DEF P
<1>8. ASSUME NEW r \in 0 .. Len(Rows)
      PROVE  /\ PathOf(r) \in Seq(Nat) /\ Len(PathOf(r)) \in Nat
             /\ PathOf(r)[1] = 0 /\ Len(PathOf(r)) >= 1
  <2>1. CASE r = 0
    BY <1>2, <2>1
  <2>2. CASE r # 0
    <3>1. r \in 1 .. Len(Rows)
      BY <1>1, <2>2
    <3> QED BY <1>3, <1>7, <3>1 DEF Good
  <2> QED BY <2>1, <2>2
<1> QED BY <1>1, <1>3, <1>7, <1>8 DEF Good

----------------------------------------------------------------------------
(* Rows in the order of their paths                                        *)
Sound == result \in Results /\ RowsSound

LEMMA InOrder ==
    ASSUME Sound, NEW i \in 0 .. Len(Rows), NEW j \in 0 .. Len(Rows), i < j
    PROVE  /\ Precedes(PathOf(i), PathOf(j)) /\ i \in Nat /\ j \in Nat
           /\ PathOf(i) \in Seq(Nat) /\ PathOf(j) \in Seq(Nat)
           /\ Len(PathOf(i)) \in Nat /\ Len(PathOf(j)) \in Nat
<1>1. /\ PathOf(i) \in Seq(Nat) /\ PathOf(j) \in Seq(Nat) /\ Len(Rows) \in Nat
      /\ Len(PathOf(i)) \in Nat /\ Len(PathOf(j)) \in Nat /\ DOMAIN Rows = 1 .. Len(Rows)
  BY PathsAre, RowsAre DEF Sound
<1>2. i \in Nat /\ j \in Nat /\ j \in 1 .. Len(Rows)
  BY <1>1
<1>3. CASE i = 0
  <2>1. PathOf(j)[1] = 0 /\ Len(PathOf(j)) >= 2 /\ PathOf(0) \in Seq(Nat)
    BY <1>2, PathsAre DEF Sound
  <2>2. Len(PathOf(0)) = 1 /\ PathOf(0)[1] = 0
    BY DEF PathOf, RootPath
  <2>3. Agree(PathOf(0), PathOf(j), 1)
    BY SMTT(60), <1>1, <2>1, <2>2 DEF Agree
  <2>4. IsStrictPrefix(PathOf(0), PathOf(j))
    <3>1. Agree(PathOf(0), PathOf(j), Len(PathOf(0)))
      BY Zenon, <2>2, <2>3
    <3>2. Len(PathOf(0)) < Len(PathOf(j))
      <4>1. Len(PathOf(j)) \in Nat /\ Len(PathOf(j)) >= 2 /\ Len(PathOf(0)) = 1
        BY <1>1, <2>1, <2>2
      <4> QED BY <4>1
    <3> QED BY <1>1, <2>1, <3>1, <3>2, PrefixIs
  <2> QED BY <1>1, <1>2, <1>3, <2>4 DEF Precedes
<1>4. CASE i # 0
  <2>1. i \in 1 .. Len(Rows)
    BY <1>1, <1>4
  <2> QED BY <1>1, <1>2, <2>1 DEF Sound, RowsSound, InPathOrder, PathOf
<1> QED BY <1>3, <1>4

\* No two rows have the same path.
LEMMA SameRow ==
    ASSUME Sound, NEW i \in 0 .. Len(Rows), NEW j \in 0 .. Len(Rows),
           Len(PathOf(i)) = Len(PathOf(j)), Agree(PathOf(i), PathOf(j), Len(PathOf(i)))
    PROVE  i = j
<1>1. Len(Rows) \in Nat
  BY PathsAre DEF Sound
<1>2. CASE i < j
  <2>1. Precedes(PathOf(i), PathOf(j)) /\ PathOf(i) \in Seq(Nat) /\ PathOf(j) \in Seq(Nat)
        /\ Len(PathOf(i)) \in Nat
    BY <1>2, InOrder
  <2>2. Agree(PathOf(j), PathOf(i), Len(PathOf(j)))
    BY <2>1, AgreeIs
  <2> QED BY <2>1, <2>2, PrecedesOnce
<1>3. CASE j < i
  <2>1. Precedes(PathOf(j), PathOf(i)) /\ PathOf(i) \in Seq(Nat) /\ PathOf(j) \in Seq(Nat)
    BY <1>3, InOrder
  <2> QED BY <2>1, PrecedesOnce
<1> QED BY <1>1, <1>2, <1>3

\* Rows between two that agree agree with them.
LEMMA Inside ==
    ASSUME Sound, NEW i \in 0 .. Len(Rows), NEW j \in 0 .. Len(Rows), NEW n \in 0 .. Len(Rows),
           i <= j, j <= n, NEW k \in Nat, Agree(PathOf(i), PathOf(n), k)
    PROVE  Agree(PathOf(i), PathOf(j), k) /\ Agree(PathOf(j), PathOf(n), k)
<1>1. /\ PathOf(i) \in Seq(Nat) /\ PathOf(j) \in Seq(Nat) /\ PathOf(n) \in Seq(Nat)
      /\ Len(Rows) \in Nat
  BY PathsAre DEF Sound
<1>2. k <= Len(PathOf(i)) /\ k <= Len(PathOf(n)) /\ \A r \in {i, n} : Agree(PathOf(r), PathOf(r), k)
  BY <1>1 DEF Agree
<1>3. CASE i = j
  BY <1>2, <1>3
<1>4. CASE j = n
  BY <1>2, <1>4
<1>5. CASE i < j /\ j < n
  <2>1. Precedes(PathOf(i), PathOf(j)) /\ Precedes(PathOf(j), PathOf(n))
    BY <1>5, InOrder
  <2>2. Agree(PathOf(i), PathOf(j), k)
    BY <1>1, <2>1, Between
  <2>3. Agree(PathOf(j), PathOf(i), k)
    BY <1>1, <2>2, AgreeIs
  <2> QED BY <1>1, <2>2, <2>3, AgreeIs
<1> QED BY <1>1, <1>3, <1>4, <1>5

\* What comes before a row does not come after it at the place where they part.
LEMMA Earlier ==
    ASSUME Sound, NEW i \in 0 .. Len(Rows), NEW n \in 0 .. Len(Rows), i <= n,
           NEW k \in Nat, Agree(PathOf(i), PathOf(n), k), k < Len(PathOf(i))
    PROVE  k < Len(PathOf(n)) /\ PathOf(i)[k + 1] <= PathOf(n)[k + 1]
<1>1. /\ PathOf(i) \in Seq(Nat) /\ PathOf(n) \in Seq(Nat) /\ Len(Rows) \in Nat
      /\ Len(PathOf(i)) \in Nat /\ Len(PathOf(n)) \in Nat
  BY PathsAre DEF Sound
<1>2. CASE i = n
  <2>1. k + 1 \in 1 .. Len(PathOf(n))
    BY <1>1, <1>2
  <2>2. PathOf(n)[k + 1] \in Nat
    BY SMTT(60), <1>1, <2>1
  <2> QED BY <1>2, <2>2
<1>3. CASE i < n
  <2> DEFINE p == PathOf(i)
             q == PathOf(n)
  <2>1. p \in Seq(Nat) /\ q \in Seq(Nat) /\ Len(p) \in Nat /\ Len(q) \in Nat
    BY <1>1
  <2>2. Precedes(p, q)
    BY <1>3, InOrder
  <2>3. k <= Len(q) /\ k < Len(p) /\ \A x \in 1 .. k : p[x] = q[x]
    BY DEF Agree
  <2> HIDE DEF p, q
  <2>4. CASE k = Len(q)
    <3>1. Agree(q, p, Len(q))
      BY <2>1, <2>3, <2>4 DEF Agree
    <3> QED BY <2>1, <2>2, <3>1, PrecedesOnce
  <2>5. CASE k < Len(q)
    <3>1. k + 1 \in 1 .. Len(p) /\ k + 1 \in 1 .. Len(q)
      BY <2>1, <2>3, <2>5
    <3>2. p[k + 1] \in Nat /\ q[k + 1] \in Nat
      BY SMTT(60), <2>1, <3>1
    <3>3. \/ Agree(p, q, Len(p)) /\ Len(p) < Len(q)
          \/ \E x \in 1 .. Len(p) : /\ x <= Len(q) /\ p[x] < q[x]
                                    /\ \A j \in 1 .. x - 1 : p[j] = q[j]
      BY <2>1, <2>2, PrecedesIs
    <3>4. CASE Agree(p, q, Len(p)) /\ Len(p) < Len(q)
      <4>1. p[k + 1] = q[k + 1]
        BY <3>1, <3>4 DEF Agree
      <4> QED BY <2>5, <3>2, <4>1 DEF p, q
    <3>5. CASE \E x \in 1 .. Len(p) : /\ x <= Len(q) /\ p[x] < q[x]
                                      /\ \A j \in 1 .. x - 1 : p[j] = q[j]
      <4>1. PICK x \in 1 .. Len(p) : /\ x <= Len(q) /\ p[x] < q[x]
                                     /\ \A j \in 1 .. x - 1 : p[j] = q[j]
        BY <3>5
      <4>2. CASE x <= k
        <5>1. x \in 1 .. k
          BY <2>1, <4>2
        <5>2. p[x] = q[x] /\ p[x] \in Nat
          BY SMTT(60), <2>1, <2>3, <5>1
        <5> QED BY <4>1, <5>2
      <4>3. CASE x = k + 1
        BY <2>5, <3>2, <4>1, <4>3 DEF p, q
      <4>4. CASE x > k + 1
        <5>1. k + 1 \in 1 .. x - 1
          BY <2>1, <4>4
        <5>2. p[k + 1] = q[k + 1]
          BY <4>1, <5>1
        <5> QED BY <2>5, <3>2, <5>2 DEF p, q
      <4> QED BY <2>1, <4>2, <4>3, <4>4
    <3> QED BY <3>3, <3>4, <3>5
  <2> QED BY <2>1, <2>3, <2>4, <2>5
<1> QED BY <1>1, <1>2, <1>3

----------------------------------------------------------------------------
(* The levels of a row                                                     *)
\* The row whose record the k-th level of row r is.
IsAnc(j, r, k) == Len(PathOf(j)) = k /\ Agree(PathOf(j), PathOf(r), k)
Anc(r, k) == CHOOSE j \in 1 .. Len(Rows) : IsAnc(j, r, k)

LEMMA AncUnique ==
    ASSUME Sound, NEW r \in 0 .. Len(Rows), NEW i \in 1 .. Len(Rows), NEW j \in 1 .. Len(Rows),
           NEW k \in Nat, IsAnc(i, r, k), IsAnc(j, r, k)
    PROVE  i = j
<1>1. /\ PathOf(i) \in Seq(Nat) /\ PathOf(j) \in Seq(Nat) /\ PathOf(r) \in Seq(Nat)
      /\ Len(Rows) \in Nat
  BY PathsAre DEF Sound
<1>2. Agree(PathOf(r), PathOf(j), k)
  BY <1>1, AgreeIs DEF IsAnc
<1>3. Agree(PathOf(i), PathOf(j), k)
  BY <1>1, <1>2, AgreeIs DEF IsAnc
<1> QED BY <1>1, <1>3, SameRow DEF IsAnc

\* What the order says of a row of an expand.
LEMMA ParentIs ==
    ASSUME Sound, NEW r \in 1 .. Len(Rows), Len(PathOf(r)) # 2
    PROVE  \E j \in 1 .. r - 1 : /\ IsAnc(j, r, Len(PathOf(r)) - 2) /\ j \in 1 .. Len(Rows)
                                 /\ Len(PathOf(r)) - 2 \in Nat \ {0} /\ Even(Len(PathOf(r)) - 2)
                                 /\ PathOf(r)[Len(PathOf(r)) - 2 + 1] \in DOMAIN Rows[j].expands
<1> DEFINE path == Rows[r].path
<1>1. /\ Len(Rows) \in Nat /\ DOMAIN Rows = 1 .. Len(Rows) /\ PathOf(r) = path
      /\ path \in Seq(Nat) /\ Len(path) \in Nat
  BY PathsAre, RowsAre DEF Sound
<1>2. PICK j \in 1 .. r - 1 : /\ Len(path) = Len(Rows[j].path) + 2
                              /\ Parent(path) = Rows[j].path
                              /\ path[Len(path) - 1] \in DOMAIN Rows[j].expands
  BY <1>1 DEF Sound, RowsSound, InPathOrder, IsRoot
<1>3. j \in 1 .. Len(Rows)
  BY <1>1
<1>4. PathOf(j) = Rows[j].path /\ Len(PathOf(j)) \in Nat /\ PathOf(j) \in Seq(Nat)
      /\ Len(PathOf(j)) >= 2 /\ Even(Len(PathOf(j)))
  BY <1>3, PathsAre DEF Sound
<1>5. Len(PathOf(j)) = Len(path) - 2
  BY <1>1, <1>2, <1>4
<1> HIDE DEF path
<1>6. \A x \in 1 .. Len(path) - 2 : PathOf(j)[x] = path[x]
  <2>0. Len(path) - 2 \in Int /\ 1 \in Int
    BY <1>1
  <2>1. \A i \in 1 .. (Len(path) - 2) - 1 + 1 : SubSeq(path, 1, Len(path) - 2)[i] = path[1 + i - 1]
    BY <2>0, SubSeqIs
  <2>2. \A x \in 1 .. Len(path) - 2 : x \in 1 .. (Len(path) - 2) - 1 + 1 /\ 1 + x - 1 = x
    BY <2>0
  <2>3. PathOf(j) = SubSeq(path, 1, Len(path) - 2)
    BY <1>2, <1>4 DEF Parent
  <2> QED BY <2>1, <2>2, <2>3
<1>7. IsAnc(j, r, Len(path) - 2)
  BY <1>1, <1>5, <1>6 DEF IsAnc, Agree
<1>8. Len(path) - 2 \in Nat \ {0} /\ Even(Len(path) - 2) /\ Len(path) - 1 = Len(path) - 2 + 1
  BY <1>1, <1>4, <1>5
<1> QED BY <1>1, <1>2, <1>3, <1>7, <1>8

\* Every even level of a row is that of a row, which has the expand of the next.
HasAnc(r, k) == \E j \in 1 .. r : /\ IsAnc(j, r, k)
                                  /\ k < Len(PathOf(r)) => PathOf(r)[k + 1] \in DOMAIN Rows[j].expands

LEMMA AncExists ==
    ASSUME Sound, NEW k \in Nat \ {0}, Even(k)
    PROVE  \A r \in 1 .. Len(Rows) : k <= Len(PathOf(r)) => HasAnc(r, k)
<1>1. Len(Rows) \in Nat
  BY PathsAre DEF Sound
<1> DEFINE P == {n \in Nat : \A r \in 1 .. Len(Rows) : r <= n /\ k <= Len(PathOf(r)) => HasAnc(r, k)}
<1>2. 0 \in P
  OBVIOUS
<1>3. \A n \in P : n + 1 \in P
  <2> TAKE n \in P
  <2>1. n \in Nat /\ \A r \in 1 .. Len(Rows) : r <= n /\ k <= Len(PathOf(r)) => HasAnc(r, k)
    BY Zenon DEF P
  <2> HIDE DEF P
  <2>2. ASSUME NEW r \in 1 .. Len(Rows), r <= n + 1, k <= Len(PathOf(r)) PROVE HasAnc(r, k)
    <3>1. r \in 1 .. r /\ r \in Nat /\ r \in 0 .. Len(Rows)
      BY <1>1
    <3>2. PathOf(r) \in Seq(Nat) /\ Len(PathOf(r)) \in Nat /\ Even(Len(PathOf(r)))
      BY PathsAre DEF Sound
    <3>3. CASE Len(PathOf(r)) = k
      <4>1. IsAnc(r, r, k)
        BY <3>2, <3>3 DEF IsAnc, Agree
      <4> QED BY <3>1, <3>2, <3>3, <4>1 DEF HasAnc
    <3>4. CASE Len(PathOf(r)) # k
      <4>0. Len(PathOf(r)) # 2
        <5>1. k # 1
          <6>1. ~Even(0 + 1) /\ 0 + 1 = 1
            <7>1. Even(0) /\ 0 \in Nat
              BY DEF Even
            <7> QED BY <7>1, Parity
          <6> QED BY <6>1
        <5>2. k \in Nat /\ k >= 1 /\ k <= Len(PathOf(r)) /\ k # Len(PathOf(r)) /\ k # 1
          BY <2>2, <3>4, <5>1
        <5>3. Len(PathOf(r)) \in Nat
          BY <3>2
        <5> DEFINE l == Len(PathOf(r))
        <5>4. k \in Nat /\ k >= 1 /\ k <= l /\ k # l /\ k # 1 /\ l \in Nat
          BY <5>2, <5>3
        <5> HIDE DEF l
        <5>5. l # 2
          BY <5>4
        <5> QED BY <5>5 DEF l
      <4> DEFINE l == Len(PathOf(r)) - 2
      <4>1. PICK j \in 1 .. r - 1 : /\ IsAnc(j, r, l) /\ j \in 1 .. Len(Rows)
                                    /\ l \in Nat \ {0} /\ Even(l)
                                    /\ PathOf(r)[l + 1] \in DOMAIN Rows[j].expands
        BY <4>0, ParentIs
      <4>2. PathOf(j) \in Seq(Nat) /\ Len(PathOf(j)) = l /\ Agree(PathOf(j), PathOf(r), l)
            /\ j <= n /\ j \in 1 .. r /\ j \in Nat
        BY <1>1, <2>1, <2>2, <3>1, <4>1, PathsAre DEF Sound, IsAnc
      <4>3. k <= l
        <5>1. k # l + 1
          <6>1. Even(l) <=> ~Even(l + 1)
            BY <4>1, Parity
          <6> QED BY <4>1, <6>1
        <5>2. Len(PathOf(r)) = l + 2
          BY <3>2
        <5> HIDE DEF l
        <5> QED BY <2>2, <3>2, <3>4, <4>1, <5>1, <5>2
      <4>4. CASE k = l
        BY <3>1, <4>1, <4>2, <4>4 DEF HasAnc
      <4>5. CASE k < l
        <5>1. HasAnc(j, k)
          BY <2>1, <4>1, <4>2, <4>3
        <5>2. PICK i \in 1 .. j : /\ IsAnc(i, j, k)
                                  /\ PathOf(j)[k + 1] \in DOMAIN Rows[i].expands
          BY <4>2, <4>5, <5>1 DEF HasAnc
        <5>3. i \in 0 .. Len(Rows) /\ i \in 1 .. r
          BY <1>1, <3>1, <4>1
        <5>4. PathOf(i) \in Seq(Nat)
          BY <5>3, PathsAre DEF Sound
        <5>5. Agree(PathOf(j), PathOf(r), k)
          BY <3>2, <4>2, <4>3, AgreeIs
        <5>6. IsAnc(i, r, k)
          BY <3>2, <4>2, <5>2, <5>4, <5>5, AgreeIs DEF IsAnc
        <5>7. PathOf(j)[k + 1] = PathOf(r)[k + 1]
          <6>1. k + 1 \in 1 .. l
            BY <4>1, <4>5
          <6> QED BY <4>2, <6>1 DEF Agree
        <5> QED BY <5>2, <5>3, <5>6, <5>7 DEF HasAnc
      <4> QED BY <4>1, <4>3, <4>4, <4>5
    <3> QED BY <3>3, <3>4
  <2>3. n + 1 \in Nat
    BY <2>1
  <2> QED BY <2>2, <2>3 DEF P
<1> HIDE DEF P
<1>4. P = Nat
  <2>1. P \in SUBSET Nat
    BY DEF P
  <2> QED BY <1>2, <1>3, <2>1, SetInduction
<1>5. Len(Rows) \in P
  BY <1>1, <1>4
<1> QED BY <1>1, <1>5 DEF P

LEMMA AncIs ==
    ASSUME Sound, NEW r \in 1 .. Len(Rows), NEW k \in Nat \ {0}, Even(k), k <= Len(PathOf(r))
    PROVE  /\ Anc(r, k) \in 1 .. r /\ Anc(r, k) \in 1 .. Len(Rows) /\ IsAnc(Anc(r, k), r, k)
           /\ k < Len(PathOf(r)) => PathOf(r)[k + 1] \in DOMAIN Rows[Anc(r, k)].expands
           /\ \A j \in 1 .. Len(Rows) : IsAnc(j, r, k) => j = Anc(r, k)
           /\ k = Len(PathOf(r)) => Anc(r, k) = r
<1>1. Len(Rows) \in Nat /\ PathOf(r) \in Seq(Nat) /\ Len(PathOf(r)) \in Nat /\ r \in 0 .. Len(Rows)
  BY PathsAre DEF Sound
<1>2. PICK j \in 1 .. r : /\ IsAnc(j, r, k)
                          /\ k < Len(PathOf(r)) => PathOf(r)[k + 1] \in DOMAIN Rows[j].expands
  BY AncExists DEF HasAnc
<1>3. j \in 1 .. Len(Rows)
  BY <1>1
<1>4. Anc(r, k) \in 1 .. Len(Rows) /\ IsAnc(Anc(r, k), r, k)
  BY <1>2, <1>3 DEF Anc
<1>5. \A i \in 1 .. Len(Rows) : IsAnc(i, r, k) => i = Anc(r, k)
  BY <1>1, <1>4, AncUnique
<1>6. j = Anc(r, k)
  BY <1>2, <1>3, <1>5
<1>7. k = Len(PathOf(r)) => IsAnc(r, r, k)
  BY <1>1 DEF IsAnc, Agree
<1> QED BY <1>2, <1>4, <1>5, <1>6, <1>7

\* Rows that agree have the same levels.
LEMMA AncShared ==
    ASSUME Sound, NEW r \in 1 .. Len(Rows), NEW s \in 1 .. Len(Rows), NEW k \in Nat \ {0}, Even(k),
           Agree(PathOf(r), PathOf(s), k)
    PROVE  Anc(r, k) = Anc(s, k)
<1>1. PathOf(r) \in Seq(Nat) /\ PathOf(s) \in Seq(Nat)
  BY PathsAre DEF Sound
<1>2. k <= Len(PathOf(r)) /\ k <= Len(PathOf(s))
  BY <1>1, AgreeIs
<1> DEFINE a == Anc(r, k)
<1>3. a \in 1 .. Len(Rows) /\ IsAnc(a, r, k)
  BY <1>2, AncIs
<1>4. PathOf(a) \in Seq(Nat)
  BY <1>3, PathsAre DEF Sound
<1> HIDE DEF a
<1>5. IsAnc(a, s, k)
  BY <1>1, <1>3, <1>4, AgreeIs DEF IsAnc
<1> QED BY <1>2, <1>3, <1>5, AncIs DEF a

\* The level of row n that row n + 1 is put below.
IsTop(n, t) ==
    /\ t \in 1 .. Len(PathOf(n)) /\ t < Len(PathOf(n + 1)) /\ Agree(PathOf(n), PathOf(n + 1), t)
    /\ \A k \in 1 .. Len(PathOf(n)) :
          k < Len(PathOf(n + 1)) /\ Agree(PathOf(n), PathOf(n + 1), k) => k <= t

LEMMA OneIsOdd == ~Even(1)
<1>1. Even(0) /\ 0 \in Nat /\ 0 + 1 = 1
  BY DEF Even
<1> QED BY <1>1, Parity

LEMMA Attach ==
    ASSUME Sound, NEW n \in 0 .. Len(Rows), n < Len(Rows), NEW t, IsTop(n, t)
    PROVE  /\ n \in Nat /\ n + 1 \in 1 .. Len(Rows) /\ t \in Nat /\ t >= 1
           /\ Even(t) => /\ Len(PathOf(n + 1)) = t + 2
                         /\ PathOf(n + 1)[t + 1] \in DOMAIN Rows[Anc(n + 1, t)].expands
                         /\ \A j \in 1 .. n : Agree(PathOf(j), PathOf(n + 1), t) /\ t < Len(PathOf(j))
                                              => PathOf(j)[t + 1] < PathOf(n + 1)[t + 1]
           /\ ~Even(t) => Len(PathOf(n + 1)) = t + 1
<1> DEFINE q == PathOf(n + 1)
           p == PathOf(n)
           m == Len(q)
<1>1. Len(Rows) \in Nat /\ n \in Nat /\ n + 1 \in 1 .. Len(Rows) /\ n + 1 \in 0 .. Len(Rows)
  <2>1. Len(Rows) \in Nat
    BY PathsAre DEF Sound
  <2> QED BY <2>1
<1>2. p \in Seq(Nat) /\ q \in Seq(Nat) /\ m \in Nat /\ Len(p) \in Nat /\ Even(m) /\ m >= 2
  BY <1>1, PathsAre DEF Sound
<1>3. /\ t \in 1 .. Len(p) /\ t < m /\ Agree(p, q, t)
      /\ \A k \in 1 .. Len(p) : k < m /\ Agree(p, q, k) => k <= t
  BY DEF IsTop
<1>4. t \in Nat /\ t >= 1
  BY <1>2, <1>3
<1>5. CASE m = 2
  <2> HIDE DEF m
  <2>1. t = 1 /\ m = t + 1
    BY <1>3, <1>4, <1>5
  <2> QED BY <1>1, <1>4, <2>1, OneIsOdd DEF m
<1>6. CASE m # 2
  <2>1. PICK j \in 1 .. n : /\ IsAnc(j, n + 1, m - 2) /\ j \in 1 .. Len(Rows)
                            /\ m - 2 \in Nat \ {0} /\ Even(m - 2)
                            /\ q[m - 2 + 1] \in DOMAIN Rows[j].expands
    <3>1. n + 1 - 1 = n
      BY <1>1
    <3> QED BY <1>1, <1>6, <3>1, ParentIs
  <2>2. m - 2 \in Nat /\ m - 2 >= 1 /\ m - 2 < m
    <3> HIDE DEF m
    <3> QED BY SMTT(60), <1>2, <2>1
  <2>3. Agree(p, q, m - 2)
    <3>1. j \in 0 .. Len(Rows) /\ j <= n /\ n <= n + 1
      BY <1>1
    <3>2. Agree(PathOf(j), PathOf(n + 1), m - 2)
      BY <2>1 DEF IsAnc
    <3> QED BY <1>1, <2>2, <3>1, <3>2, Inside
  <2>4. m - 2 \in 1 .. Len(p)
    BY SMTT(60), <1>2, <2>2, <2>3, AgreeIs
  <2>5. m - 2 <= t
    BY <1>3, <2>2, <2>3, <2>4
  <2>6. t = m - 2 \/ t = m - 1
    <3> HIDE DEF m
    <3> QED BY <1>2, <1>3, <1>4, <2>5
  <2>7. CASE t = m - 1
    <3>1. m = t + 1
      <4> HIDE DEF m
      <4> QED BY <1>2, <2>7
    <3>2. Even(t) <=> ~Even(t + 1)
      BY <1>4, Parity
    <3>3. ~Even(t)
      BY <1>2, <3>1, <3>2
    <3> QED BY <1>1, <1>4, <3>1, <3>3
  <2>8. CASE t = m - 2
    <3>1. m = t + 2
      <4> HIDE DEF m
      <4> QED BY <1>2, <2>8
    <3>2. Even(t) /\ q[t + 1] \in DOMAIN Rows[j].expands
      BY <2>1, <2>8
    <3>3. j = Anc(n + 1, t)
      <4>1. IsAnc(j, n + 1, t)
        BY <2>1, <2>8
      <4>2. t \in Nat \ {0} /\ t <= Len(PathOf(n + 1))
        BY SMTT(60), <1>2, <1>3, <1>4
      <4> QED BY <1>1, <2>1, <3>2, <4>1, <4>2, AncIs
    <3>4. ASSUME NEW i \in 1 .. n, Agree(PathOf(i), q, t), t < Len(PathOf(i))
          PROVE  PathOf(i)[t + 1] < q[t + 1]
      <4>1. i \in 0 .. Len(Rows) /\ i <= n + 1 /\ i <= n /\ n <= n + 1
        BY <1>1
      <4>2. PathOf(i)[t + 1] <= q[t + 1] /\ PathOf(i) \in Seq(Nat) /\ Len(PathOf(i)) \in Nat
        BY <1>1, <1>4, <3>4, <4>1, Earlier, PathsAre DEF Sound
      <4>3. t + 1 \in 1 .. Len(PathOf(i)) /\ t + 1 \in 1 .. m /\ t + 1 < m /\ t + 1 \in Nat
        <5> HIDE DEF m
        <5> QED BY <1>2, <1>4, <3>1, <3>4, <4>2
      <4>4. PathOf(i)[t + 1] \in Nat /\ q[t + 1] \in Nat
        BY SMTT(60), <1>2, <4>2, <4>3
      <4>5. ASSUME PathOf(i)[t + 1] = q[t + 1] PROVE FALSE
        <5>1. Agree(PathOf(i), q, t + 1)
          <6>1. \A x \in 1 .. t + 1 : x \in 1 .. t \/ x = t + 1
            BY <1>4
          <6>2. \A x \in 1 .. t : PathOf(i)[x] = q[x]
            BY <3>4 DEF Agree
          <6>3. t + 1 <= Len(PathOf(i)) /\ t + 1 <= Len(q)
            BY <4>3
          <6> HIDE DEF q, m
          <6> QED BY <4>5, <6>1, <6>2, <6>3 DEF Agree
        <5>2. Agree(p, q, t + 1)
          BY <1>1, <4>1, <4>3, <5>1, Inside
        <5>3. t + 1 \in 1 .. Len(p)
          BY <1>2, <4>3, <5>2, AgreeIs
        <5>4. t + 1 <= t
          BY <1>3, <4>3, <5>2, <5>3
        <5> QED BY <1>4, <5>4
      <4> HIDE DEF q
      <4> QED BY <4>2, <4>4, <4>5
    <3> QED BY <1>1, <1>4, <3>1, <3>2, <3>3, <3>4
  <2> QED BY <2>6, <2>7, <2>8
<1> QED BY <1>5, <1>6

LEMMA TopExists ==
    ASSUME Sound, NEW n \in 0 .. Len(Rows), n < Len(Rows)
    PROVE  \E t : IsTop(n, t)
<1> DEFINE p == PathOf(n)
           q == PathOf(n + 1)
           B == {k \in 1 .. Len(p) : k < Len(q) /\ Agree(p, q, k)}
<1>1. Len(Rows) \in Nat /\ n + 1 \in 1 .. Len(Rows) /\ n + 1 \in 0 .. Len(Rows)
  <2>1. Len(Rows) \in Nat
    BY PathsAre DEF Sound
  <2> QED BY <2>1
<1>2. /\ p \in Seq(Nat) /\ q \in Seq(Nat) /\ Len(p) \in Nat /\ Len(q) \in Nat
      /\ p[1] = 0 /\ q[1] = 0 /\ Len(p) >= 1 /\ Len(q) >= 2
  BY <1>1, PathsAre DEF Sound
<1> HIDE DEF p, q
<1>3. 1 \in B
  BY SMTT(60), <1>2 DEF Agree
<1>4. B \subseteq 1 .. Len(p) /\ B # {}
  BY <1>3
<1> HIDE DEF B
<1>5. PICK t \in B : \A j \in B : j <= t
  BY <1>2, <1>4, Greatest
<1> QED BY <1>5 DEF B, IsTop, p, q

----------------------------------------------------------------------------
(* The rows that are the elements of a list                                *)

\* The rows among the first n that are elements of the k-th level of row r.
Kids(n, r, k) == {j \in 1 .. n : Len(PathOf(j)) = k + 1 /\ Agree(PathOf(j), PathOf(r), k)}
Filled(n, i) == {p \in DOMAIN Rows[i].expands : Of(n, i, p) # {}}

LEMMA OfIs ==
    ASSUME Sound, NEW i \in 1 .. Len(Rows), NEW n \in 0 .. Len(Rows), NEW p
    PROVE  Of(n, i, p) = {j \in 1 .. n : /\ Len(PathOf(j)) = Len(PathOf(i)) + 2
                                         /\ Agree(PathOf(i), PathOf(j), Len(PathOf(i)))
                                         /\ PathOf(j)[Len(PathOf(i)) + 1] = p}
<1>1. Len(Rows) \in Nat
  BY PathsAre DEF Sound
<1>2. PathOf(i) = Rows[i].path /\ PathOf(i) \in Seq(Nat) /\ Len(PathOf(i)) \in Nat
  BY PathsAre DEF Sound
<1>3. ASSUME NEW j \in 1 .. n
      PROVE  j \in Of(n, i, p) <=> /\ Len(PathOf(j)) = Len(PathOf(i)) + 2
                                   /\ Agree(PathOf(i), PathOf(j), Len(PathOf(i)))
                                   /\ PathOf(j)[Len(PathOf(i)) + 1] = p
  <2>1. j \in 1 .. Len(Rows)
    BY <1>1
  <2>2. PathOf(j) = Rows[j].path /\ PathOf(j) \in Seq(Nat) /\ Len(PathOf(j)) \in Nat
    BY <2>1, PathsAre DEF Sound
  <2>3. IsStrictPrefix(PathOf(i), PathOf(j)) <=>
            Agree(PathOf(i), PathOf(j), Len(PathOf(i))) /\ Len(PathOf(i)) < Len(PathOf(j))
    BY <1>2, <2>2, PrefixIs
  <2>4. j \in Of(n, i, p) <=> /\ IsStrictPrefix(PathOf(i), PathOf(j))
                              /\ Len(PathOf(j)) = Len(PathOf(i)) + 2
                              /\ PathOf(j)[Len(PathOf(i)) + 1] = p
    BY Zenon, <1>2, <2>2 DEF Of
  <2>5. Len(PathOf(j)) = Len(PathOf(i)) + 2 => Len(PathOf(i)) < Len(PathOf(j))
    BY <1>2, <2>2
  <2> QED BY Zenon, <2>3, <2>4, <2>5
<1>4. Of(n, i, p) \subseteq 1 .. n
  BY DEF Of
<1> QED BY <1>3, <1>4

\* The rows of an expand come after the row that has it.
LEMMA OfAfter ==
    ASSUME Sound, NEW i \in 1 .. Len(Rows), NEW n \in 0 .. Len(Rows), NEW p
    PROVE  Of(n, i, p) \subseteq i + 1 .. n
<1>1. Len(Rows) \in Nat
  BY PathsAre DEF Sound
<1> SUFFICES ASSUME NEW j \in Of(n, i, p) PROVE j \in i + 1 .. n
  OBVIOUS
<1>2. /\ j \in 1 .. n /\ Len(PathOf(j)) = Len(PathOf(i)) + 2
      /\ Agree(PathOf(i), PathOf(j), Len(PathOf(i)))
  BY OfIs
<1>3. j \in 0 .. Len(Rows) /\ i \in 0 .. Len(Rows) /\ j \in Nat /\ i \in Nat
  BY <1>1, <1>2
<1>4. i # j
  <2>1. Len(PathOf(i)) \in Nat
    BY PathsAre DEF Sound
  <2> QED BY <1>2, <2>1
<1>5. ASSUME j < i PROVE FALSE
  <2>1. Precedes(PathOf(j), PathOf(i)) /\ PathOf(i) \in Seq(Nat) /\ PathOf(j) \in Seq(Nat)
    BY <1>3, <1>5, InOrder
  <2> QED BY <1>2, <2>1, PrecedesOnce
<1> QED BY <1>2, <1>3, <1>4, <1>5

\* The rows of an expand are the elements of the level below.
LEMMA KidsOf ==
    ASSUME Sound, NEW r \in 1 .. Len(Rows), NEW n \in 0 .. Len(Rows), NEW k \in Nat \ {0}, Even(k),
           k < Len(PathOf(r))
    PROVE  /\ Of(n, Anc(r, k), PathOf(r)[k + 1]) = Kids(n, r, k + 1)
           /\ \A p : Of(n, Anc(r, k), p) =
                 {j \in 1 .. n : /\ Len(PathOf(j)) = k + 2 /\ Agree(PathOf(j), PathOf(r), k)
                                 /\ PathOf(j)[k + 1] = p}
<1> DEFINE a == Anc(r, k)
           x == PathOf(r)[k + 1]
<1>1. Len(Rows) \in Nat /\ PathOf(r) \in Seq(Nat) /\ Len(PathOf(r)) \in Nat
  BY PathsAre DEF Sound
<1>2. a \in 1 .. Len(Rows) /\ IsAnc(a, r, k)
  BY SMTT(60), <1>1, AncIs
<1>3. PathOf(a) \in Seq(Nat) /\ Len(PathOf(a)) = k /\ Agree(PathOf(a), PathOf(r), k)
  BY <1>2, PathsAre DEF Sound, IsAnc
<1> HIDE DEF a
<1>4. ASSUME NEW j \in 1 .. n
      PROVE  Agree(PathOf(a), PathOf(j), k) <=> Agree(PathOf(j), PathOf(r), k)
  <2>1. j \in 1 .. Len(Rows)
    BY <1>1
  <2>2. PathOf(j) \in Seq(Nat)
    BY <2>1, PathsAre DEF Sound
  <2>3. ASSUME Agree(PathOf(a), PathOf(j), k) PROVE Agree(PathOf(j), PathOf(r), k)
    <3>1. Agree(PathOf(j), PathOf(a), k)
      BY <1>3, <2>2, <2>3, AgreeIs
    <3> QED BY <1>1, <1>3, <2>2, <3>1, AgreeIs
  <2>4. ASSUME Agree(PathOf(j), PathOf(r), k) PROVE Agree(PathOf(a), PathOf(j), k)
    <3>1. Agree(PathOf(r), PathOf(j), k)
      BY <1>1, <2>2, <2>4, AgreeIs
    <3> QED BY <1>1, <1>3, <2>2, <3>1, AgreeIs
  <2> QED BY <2>3, <2>4
<1>5. \A p : Of(n, a, p) =
         {j \in 1 .. n : /\ Len(PathOf(j)) = k + 2 /\ Agree(PathOf(j), PathOf(r), k)
                         /\ PathOf(j)[k + 1] = p}
  <2> TAKE p
  <2>1. Of(n, a, p) = {j \in 1 .. n : /\ Len(PathOf(j)) = k + 2
                                      /\ Agree(PathOf(a), PathOf(j), k)
                                      /\ PathOf(j)[k + 1] = p}
    BY SMTT(60), <1>2, <1>3, OfIs
  <2> QED BY <1>4, <2>1
<1>6. ASSUME NEW j \in 1 .. n, Len(PathOf(j)) = k + 2
      PROVE  Agree(PathOf(j), PathOf(r), k + 1) <=>
                 Agree(PathOf(j), PathOf(r), k) /\ PathOf(j)[k + 1] = x
  <2>1. k + 1 <= Len(PathOf(r)) /\ k + 1 <= Len(PathOf(j)) /\ k <= Len(PathOf(r)) /\ k <= Len(PathOf(j))
    BY <1>1, <1>6
  <2>2. (\A y \in 1 .. k + 1 : PathOf(j)[y] = PathOf(r)[y]) <=>
            (\A y \in 1 .. k : PathOf(j)[y] = PathOf(r)[y]) /\ PathOf(j)[k + 1] = PathOf(r)[k + 1]
    <3>1. \A y \in 1 .. k + 1 : y \in 1 .. k \/ y = k + 1
      OBVIOUS
    <3>2. \A y \in 1 .. k : y \in 1 .. k + 1
      OBVIOUS
    <3>3. k + 1 \in 1 .. k + 1
      OBVIOUS
    <3> QED BY Zenon, <3>1, <3>2, <3>3
  <2> QED BY Zenon, <2>1, <2>2 DEF Agree
<1>7. k + 2 = k + 1 + 1
  OBVIOUS
<1>8. Kids(n, r, k + 1) =
         {j \in 1 .. n : /\ Len(PathOf(j)) = k + 2 /\ Agree(PathOf(j), PathOf(r), k)
                         /\ PathOf(j)[k + 1] = x}
  <2> HIDE DEF x
  <2>1. \A j \in 1 .. n : j \in Kids(n, r, k + 1) <=>
           j \in {y \in 1 .. n : /\ Len(PathOf(y)) = k + 2 /\ Agree(PathOf(y), PathOf(r), k)
                                 /\ PathOf(y)[k + 1] = x}
    BY Zenon, <1>6, <1>7 DEF Kids
  <2>2. Kids(n, r, k + 1) \subseteq 1 .. n
    BY Zenon DEF Kids
  <2> QED BY <2>1, <2>2
<1> QED BY <1>5, <1>8 DEF a

----------------------------------------------------------------------------
(* Numbers in their order                                                  *)
Below(S, x) == {y \in S : y < x}
Numbers(S) == S \in SUBSET Nat /\ IsFiniteSet(S)

LEMMA Maximum ==
    \A n \in Nat : \A S \in SUBSET Nat :
        IsFiniteSet(S) /\ Cardinality(S) = n /\ S # {} => \E p \in S : \A y \in S : y <= p
<1> DEFINE HasMaximum(S) == \E p \in S : \A y \in S : y <= p
           P == {n \in Nat : \A S \in SUBSET Nat :
                   IsFiniteSet(S) /\ Cardinality(S) = n /\ S # {} => HasMaximum(S)}
<1>1. 0 \in P
  BY FS_EmptySet
<1>2. \A n \in P : n + 1 \in P
  <2> TAKE n \in P
  <2>1. n \in Nat /\ \A S \in SUBSET Nat : IsFiniteSet(S) /\ Cardinality(S) = n /\ S # {} => HasMaximum(S)
    BY Zenon DEF P
  <2> HIDE DEF P
  <2>2. ASSUME NEW S \in SUBSET Nat, IsFiniteSet(S), Cardinality(S) = n + 1, S # {} PROVE HasMaximum(S)
    <3>1. PICK x \in S : TRUE
      BY <2>2
    <3> DEFINE R == S \ {x}
    <3>2. IsFiniteSet(R) /\ Cardinality(R) = n /\ R \in SUBSET Nat
      BY <2>1, <2>2, FS_RemoveElement
    <3>3. CASE R = {}
      <4>1. S = {x} /\ x \in Nat
        BY <3>1, <3>3
      <4> QED BY <4>1
    <3>4. CASE R # {}
      <4>1. HasMaximum(R)
        BY <2>1, <3>2, <3>4
      <4>2. PICK p \in R : \A y \in R : y <= p
        BY <4>1
      <4>3. p \in S /\ p \in Nat /\ x \in Nat
        BY <3>1
      <4>4. \A y \in S : y \in R \/ y = x
        OBVIOUS
      <4>5. CASE x <= p
        BY <4>2, <4>3, <4>4, <4>5
      <4>6. CASE ~(x <= p)
        <5>1. \A y \in R : y <= x
          <6> TAKE y \in R
          <6>1. y \in Nat /\ y <= p
            BY <4>2
          <6> QED BY <4>3, <4>6, <6>1
        <5>2. x <= x
          BY <4>3
        <5> QED BY <3>1, <4>4, <5>1, <5>2
      <4> QED BY <4>5, <4>6
    <3> QED BY <3>3, <3>4
  <2>3. n + 1 \in Nat
    BY <2>1
  <2> QED BY <2>2, <2>3 DEF P
<1> HIDE DEF P
<1>3. P = Nat
  <2>1. P \in SUBSET Nat
    BY DEF P
  <2> QED BY <1>1, <1>2, <2>1, SetInduction
<1> QED BY <1>3 DEF P

LEMMA BelowOnce ==
    ASSUME NEW S, Numbers(S), NEW x \in S, NEW y \in S,
           Cardinality(Below(S, x)) = Cardinality(Below(S, y))
    PROVE  x = y
<1>1. ASSUME NEW a \in S, NEW b \in S, a < b, Cardinality(Below(S, a)) = Cardinality(Below(S, b))
      PROVE  FALSE
  <2>0. a \in Nat /\ b \in Nat /\ \A z \in S : z \in Nat
    BY DEF Numbers
  <2>1. Below(S, a) \in SUBSET Below(S, b)
    <3>1. \A z \in S : z < a => z < b
      BY <1>1, <2>0
    <3> QED BY <3>1 DEF Below
  <2>2. a \in Below(S, b) /\ a \notin Below(S, a)
    BY <1>1 DEF Below, Numbers
  <2>3. IsFiniteSet(Below(S, b))
    <3>1. Below(S, b) \in SUBSET S
      BY DEF Below
    <3> QED BY <3>1, FS_Subset DEF Numbers
  <2>4. Below(S, a) = Below(S, b)
    BY <1>1, <2>1, <2>3, FS_Subset
  <2> QED BY <2>2, <2>4
<1>2. x \in Nat /\ y \in Nat
  BY DEF Numbers
<1> QED BY <1>1, <1>2

LEMMA BelowExists ==
    \A n \in Nat : \A S \in SUBSET Nat : IsFiniteSet(S) /\ Cardinality(S) = n =>
        \A k \in 1 .. n : \E x \in S : Cardinality(Below(S, x)) = k - 1
<1> DEFINE All(S, n) == \A k \in 1 .. n : \E x \in S : Cardinality(Below(S, x)) = k - 1
           P == {n \in Nat : \A S \in SUBSET Nat : IsFiniteSet(S) /\ Cardinality(S) = n => All(S, n)}
<1>1. 0 \in P
  OBVIOUS
<1>2. \A n \in P : n + 1 \in P
  <2> TAKE n \in P
  <2>1. n \in Nat /\ \A S \in SUBSET Nat : IsFiniteSet(S) /\ Cardinality(S) = n => All(S, n)
    BY Zenon DEF P
  <2> HIDE DEF P
  <2>2. ASSUME NEW S \in SUBSET Nat, IsFiniteSet(S), Cardinality(S) = n + 1 PROVE All(S, n + 1)
    <3>1. S # {} /\ n + 1 \in Nat
      BY <2>1, <2>2, FS_EmptySet
    <3>2. PICK p \in S : \A y \in S : y <= p
      BY <2>2, <3>1, Maximum
    <3> DEFINE R == S \ {p}
    <3>3. IsFiniteSet(R) /\ Cardinality(R) = n /\ R \in SUBSET Nat
      BY <2>1, <2>2, FS_RemoveElement
    <3>4. \A y \in S : y \in Nat
      OBVIOUS
    <3>5. Below(S, p) = R
      <4>1. \A y \in S : y < p <=> y # p
        BY <3>2, <3>4
      <4> QED BY <4>1 DEF Below
    <3>6. ASSUME NEW x \in R PROVE Below(S, x) = Below(R, x)
      <4>1. ~(p < x)
        BY <3>2, <3>4
      <4> QED BY <4>1 DEF Below
    <3>7. All(R, n)
      BY <2>1, <3>3
    <3>8. ASSUME NEW k \in 1 .. n + 1 PROVE \E x \in S : Cardinality(Below(S, x)) = k - 1
      <4>1. CASE k = n + 1
        <5>1. n + 1 - 1 = n
          BY <2>1
        <5>2. Cardinality(Below(S, p)) = k - 1
          <6>1. k - 1 = n
            <7>1. n \in Nat
              BY <2>1
            <7> QED BY <4>1, <7>1
          <6> HIDE DEF R
          <6>2. Cardinality(Below(S, p)) = n
            BY <3>3, <3>5
          <6> QED BY <6>1, <6>2
        <5> QED BY <5>2
      <4>2. CASE k # n + 1
        <5>1. k \in 1 .. n
          BY <2>1, <4>2
        <5>2. PICK x \in R : Cardinality(Below(R, x)) = k - 1
          BY <3>7, <5>1
        <5> QED BY <3>6, <5>2
      <4> QED BY <4>1, <4>2
    <3> QED BY <3>8
  <2>3. n + 1 \in Nat
    BY <2>1
  <2> HIDE DEF All
  <2> QED BY <2>2, <2>3 DEF P
<1> HIDE DEF P
<1>3. P = Nat
  <2>1. P \in SUBSET Nat
    BY DEF P
  <2> QED BY <1>1, <1>2, <2>1, SetInduction
<1> QED BY <1>3 DEF P

\* Numbers in their order.
LEMMA AscendingIs ==
    ASSUME NEW S, Numbers(S)
    PROVE  /\ Cardinality(S) \in Nat
           /\ Ascending(S) = [k \in 1 .. Cardinality(S) |-> Ascending(S)[k]]
           /\ IsSeq(Ascending(S)) /\ Len(Ascending(S)) = Cardinality(S)
           /\ DOMAIN Ascending(S) = 1 .. Cardinality(S)
           /\ \A k \in 1 .. Cardinality(S) :
                 Ascending(S)[k] \in S /\ Cardinality(Below(S, Ascending(S)[k])) = k - 1
<1>1. Cardinality(S) \in Nat
  BY FS_CardinalityType DEF Numbers
<1>2. Ascending(S) = [k \in 1 .. Cardinality(S) |->
                        CHOOSE x \in S : Cardinality(Below(S, x)) = k - 1]
  BY DEF Ascending, Below
<1>3. ASSUME NEW k \in 1 .. Cardinality(S)
      PROVE  Ascending(S)[k] \in S /\ Cardinality(Below(S, Ascending(S)[k])) = k - 1
  <2>1. \E x \in S : Cardinality(Below(S, x)) = k - 1
    BY <1>1, BelowExists DEF Numbers
  <2> DEFINE c == CHOOSE x \in S : Cardinality(Below(S, x)) = k - 1
  <2>2. c \in S /\ Cardinality(Below(S, c)) = k - 1
    BY <2>1
  <2>3. Ascending(S)[k] = c
    BY <1>2
  <2> HIDE DEF c
  <2> QED BY <2>2, <2>3
<1>4. Ascending(S) = [k \in 1 .. Cardinality(S) |-> Ascending(S)[k]]
  BY <1>2
<1>5. IsSeq(Ascending(S)) /\ Len(Ascending(S)) = Cardinality(S)
  BY <1>1, <1>4, FunctionIsSeq
<1>6. DOMAIN Ascending(S) = 1 .. Cardinality(S)
  BY <1>2
<1> QED BY <1>1, <1>3, <1>4, <1>5, <1>6

\* A number above all others comes last.
LEMMA AscendingAdd ==
    ASSUME NEW S, Numbers(S), NEW p \in Nat, \A x \in S : x < p
    PROVE  /\ Numbers(S \cup {p})
           /\ Cardinality(S) \in Nat /\ Cardinality(S \cup {p}) = Cardinality(S) + 1
           /\ \A k \in 1 .. Cardinality(S) : Ascending(S \cup {p})[k] = Ascending(S)[k]
           /\ Ascending(S \cup {p})[Cardinality(S) + 1] = p
<1> DEFINE R == S \cup {p}
           c == Cardinality(S)
<1>1. p \notin S
  BY DEF Numbers
<1>2. IsFiniteSet(R) /\ Cardinality(R) = c + 1 /\ c \in Nat
  BY <1>1, FS_AddElement, FS_CardinalityType DEF Numbers
<1>3. Numbers(R)
  BY <1>2 DEF Numbers
<1>4. Below(R, p) = S
  <2>1. \A y \in S : y < p
    OBVIOUS
  <2>2. ~(p < p)
    OBVIOUS
  <2> QED BY <2>1, <2>2 DEF Below
<1>5. ASSUME NEW x \in S PROVE Below(R, x) = Below(S, x)
  <2>1. ~(p < x)
    BY DEF Numbers
  <2> QED BY <2>1 DEF Below
<1> HIDE DEF R, c
<1>6. \A k \in 1 .. c + 1 : Ascending(R)[k] \in R /\ Cardinality(Below(R, Ascending(R)[k])) = k - 1
  BY <1>2, <1>3, AscendingIs
<1>7. \A k \in 1 .. c : Ascending(S)[k] \in S /\ Cardinality(Below(S, Ascending(S)[k])) = k - 1
  BY AscendingIs DEF c
<1>8. ASSUME NEW k \in 1 .. c PROVE Ascending(R)[k] = Ascending(S)[k]
  <2>1. k \in 1 .. c + 1
    BY <1>2
  <2> DEFINE a == Ascending(R)[k]
             b == Ascending(S)[k]
  <2>2. a \in R /\ Cardinality(Below(R, a)) = k - 1
    BY <1>6, <2>1
  <2>3. b \in S /\ Cardinality(Below(S, b)) = k - 1
    BY <1>7
  <2> HIDE DEF a, b
  <2>4. b \in R /\ Cardinality(Below(R, b)) = k - 1
    BY <1>5, <2>3 DEF R
  <2>5. a = b
    BY <1>3, <2>2, <2>4, BelowOnce
  <2> QED BY <2>5 DEF a, b
<1>9. Ascending(R)[c + 1] = p
  <2>1. c + 1 \in 1 .. c + 1 /\ c + 1 - 1 = c
    BY <1>2
  <2> DEFINE a == Ascending(R)[c + 1]
  <2>2. a \in R /\ Cardinality(Below(R, a)) = c
    <3>1. \A k \in 1 .. c + 1 : k = c + 1 =>
             Ascending(R)[k] \in R /\ Cardinality(Below(R, Ascending(R)[k])) = c
      <4> TAKE k \in 1 .. c + 1
      <4> HAVE k = c + 1
      <4>1. k - 1 = c
        BY <1>2
      <4> QED BY <1>6, <4>1
    <3> QED BY Zenon, <2>1, <3>1
  <2> HIDE DEF a
  <2>3. p \in R /\ Cardinality(Below(R, p)) = c
    BY <1>4 DEF R, c
  <2>4. a = p
    BY <1>3, <2>2, <2>3, BelowOnce
  <2> QED BY <2>4 DEF a
<1> QED BY <1>2, <1>3, <1>8, <1>9 DEF R, c

----------------------------------------------------------------------------
(* Texts with commas between them                                          *)
\* Texts in the order of their numbers, with commas between them and something
\* before them.
Before(k, c) == IF k > 1 THEN <<",">> ELSE c
Sep(S, c) == IF S = {} THEN c ELSE <<",">>

LEMMA BeforeIs == ASSUME NEW c, IsSeq(c) PROVE \A k : IsSeq(Before(k, c)) /\ IsSeq(Sep(k, c))
BY OneText DEF Before, Sep

Joined(c, t, S) ==
    FlattenSeq([k \in 1 .. Cardinality(S) |-> Before(k, c) \o t[Ascending(S)[k]]])
Texts(t, S) == \A x \in S : IsSeq(t[x])

LEMMA JoinedParts ==
    ASSUME NEW S, Numbers(S), NEW t, Texts(t, S), NEW c, IsSeq(c)
    PROVE  \A k \in 1 .. Cardinality(S) : IsSeq(Before(k, c) \o t[Ascending(S)[k]])
<1> TAKE k \in 1 .. Cardinality(S)
<1>1. Ascending(S)[k] \in S
  BY AscendingIs
<1>2. IsSeq(t[Ascending(S)[k]])
  BY <1>1 DEF Texts
<1> QED BY <1>2, BeforeIs, IsSeqConcat

LEMMA JoinedIsSeq ==
    ASSUME NEW S, Numbers(S), NEW t, Texts(t, S), NEW c, IsSeq(c)
    PROVE  IsSeq(Joined(c, t, S))
<1> DEFINE f == [k \in 1 .. Cardinality(S) |-> Before(k, c) \o t[Ascending(S)[k]]]
<1>1. \A k \in 1 .. Cardinality(S) : IsSeq(f[k])
  BY JoinedParts
<1>2. f = [k \in 1 .. Cardinality(S) |-> f[k]] /\ Cardinality(S) \in Nat /\ DOMAIN f = 1 .. Cardinality(S)
  BY AscendingIs
<1>3. Joined(c, t, S) = FlattenSeq(f)
  BY DEF Joined
<1> HIDE DEF f
<1>4. IsSeq(f)
  BY <1>2, FunctionIsSeq
<1> QED BY <1>1, <1>2, <1>3, <1>4, FlattenIsSeq

LEMMA JoinedNone == ASSUME NEW t, NEW c, IsSeq(c) PROVE Joined(c, t, {}) = <<>>
<1>1. Cardinality({}) = 0
  BY FS_EmptySet
<1>2. [k \in 1 .. Cardinality({}) |-> Before(k, c) \o t[Ascending({})[k]]] = <<>>
  <2> DEFINE f == [k \in 1 .. Cardinality({}) |-> Before(k, c) \o t[Ascending({})[k]]]
  <2>1. f = [k \in 1 .. 0 |-> f[k]] /\ 0 \in Nat
    BY <1>1
  <2> HIDE DEF f
  <2>2. IsSeq(f) /\ Len(f) = 0
    BY <2>1, FunctionIsSeq
  <2>3. IsSeq(<<>>) /\ Len(<<>>) = 0 /\ \A i \in 1 .. Len(f) : f[i] = <<>>[i]
    BY <2>2, OneIsSeq
  <2>4. f = <<>>
    BY <2>2, <2>3, SameSeq
  <2> QED BY <2>4 DEF f
<1> QED BY <1>2, FlattenEmpty DEF Joined

LEMMA JoinedSame ==
    ASSUME NEW S, Numbers(S), NEW t, NEW u, \A x \in S : t[x] = u[x], NEW c, IsSeq(c)
    PROVE  Joined(c, t, S) = Joined(c, u, S)
<1>1. \A k \in 1 .. Cardinality(S) : t[Ascending(S)[k]] = u[Ascending(S)[k]]
  BY AscendingIs
<1>2. [k \in 1 .. Cardinality(S) |-> Before(k, c) \o t[Ascending(S)[k]]]
        = [k \in 1 .. Cardinality(S) |-> Before(k, c) \o u[Ascending(S)[k]]]
  BY <1>1
<1> QED BY <1>2 DEF Joined

With(c, t, S, p) == Joined(c, t, S) \o (Sep(S, c) \o t[p])

LEMMA JoinedAdd ==
    ASSUME NEW S, Numbers(S), NEW p \in Nat, \A x \in S : x < p, NEW R, R = S \cup {p},
           NEW t, Texts(t, R), NEW c, IsSeq(c)
    PROVE  Joined(c, t, R) = With(c, t, S, p) /\ Numbers(R)
<1> DEFINE n == Cardinality(S)
           f == [k \in 1 .. n + 1 |-> Before(k, c) \o t[Ascending(R)[k]]]
           g == [k \in 1 .. n |-> Before(k, c) \o t[Ascending(S)[k]]]
<1>1. /\ Numbers(R) /\ n \in Nat /\ Cardinality(R) = n + 1
      /\ \A k \in 1 .. n : Ascending(R)[k] = Ascending(S)[k]
      /\ Ascending(R)[n + 1] = p
  BY AscendingAdd
<1>2. Joined(c, t, R) = FlattenSeq(f) /\ Joined(c, t, S) = FlattenSeq(g)
  BY <1>1 DEF Joined
<1>3. \A k \in 1 .. n + 1 : IsSeq(f[k])
  <2>2. \A k \in 1 .. Cardinality(R) : IsSeq(Before(k, c) \o t[Ascending(R)[k]])
    BY <1>1, JoinedParts
  <2> QED BY <1>1, <2>2
<1>4. \A k \in 1 .. n : g[k] = f[k]
  <2>1. \A k \in 1 .. n : k \in 1 .. n + 1
    BY <1>1
  <2> QED BY <1>1, <2>1
<1>5. f[n + 1] = Sep(S, c) \o t[p]
  <2>1. n + 1 \in 1 .. n + 1
    BY <1>1
  <2>2. n + 1 > 1 <=> S # {}
    <3>1. n = 0 <=> S = {}
      BY FS_EmptySet DEF Numbers
    <3> HIDE DEF n
    <3> QED BY <1>1, <3>1
  <2>3. Before(n + 1, c) = Sep(S, c)
    BY Zenon, <2>2 DEF Before, Sep
  <2> HIDE DEF n
  <2> QED BY <1>1, <2>1, <2>3
<1>6. f = [k \in 1 .. n + 1 |-> f[k]] /\ g = [k \in 1 .. n |-> g[k]]
  OBVIOUS
<1> HIDE DEF f, g, n
<1>7. FlattenSeq(f) = FlattenSeq(g) \o f[n + 1]
  BY <1>1, <1>3, <1>4, <1>6, FlattenLast
<1> QED BY <1>1, <1>2, <1>5, <1>7 DEF With

Sequenced(c, t, order) ==
    FlattenSeq([m \in DOMAIN order |-> Before(m, c) \o t[order[m]]])
Order(S, T) == Ascending(S) \o Ascending(T)

\* First these, then those.
LEMMA JoinedTwo ==
    ASSUME NEW S, Numbers(S), NEW T, Numbers(T), NEW t, Texts(t, S), Texts(t, T), NEW c, IsSeq(c)
    PROVE  Sequenced(c, t, Order(S, T)) = Joined(c, t, S) \o Joined(Sep(S, c), t, T)
<1> DEFINE order == Ascending(S) \o Ascending(T)
<1>0. Order(S, T) = order
  BY DEF Order
<1> DEFINE f == [m \in DOMAIN order |-> Before(m, c) \o t[order[m]]]
           g == [k \in 1 .. Cardinality(S) |-> Before(k, c) \o t[Ascending(S)[k]]]
           i == [k \in 1 .. Cardinality(T) |-> Before(k, Sep(S, c)) \o t[Ascending(T)[k]]]
           a == Cardinality(S)
           b == Cardinality(T)
<1>1. /\ IsSeq(Ascending(S)) /\ Len(Ascending(S)) = a /\ a \in Nat
      /\ IsSeq(Ascending(T)) /\ Len(Ascending(T)) = b /\ b \in Nat
  BY AscendingIs
<1>2. /\ IsSeq(order) /\ Len(order) = a + b /\ DOMAIN order = 1 .. a + b
      /\ \A k \in 1 .. a : order[k] = Ascending(S)[k]
      /\ \A k \in 1 .. b : order[a + k] = Ascending(T)[k]
  <2>1. /\ IsSeq(order) /\ Len(order) = a + b
        /\ \A k \in 1 .. a : order[k] = Ascending(S)[k]
        /\ \A k \in 1 .. b : order[a + k] = Ascending(T)[k]
    <3> HIDE DEF a, b
    <3> QED BY <1>1, IsSeqConcat
  <2>2. DOMAIN order = 1 .. Len(order)
    BY <2>1, IsSeqLen
  <2> QED BY <2>1, <2>2
<1>3. /\ f = [k \in 1 .. a + b |-> f[k]] /\ g = [k \in 1 .. a |-> g[k]] /\ i = [k \in 1 .. b |-> i[k]]
      /\ DOMAIN g = 1 .. a /\ DOMAIN i = 1 .. b
  BY <1>2
<1>4. \A k \in 1 .. a : IsSeq(g[k])
  BY JoinedParts
<1>5. \A k \in 1 .. b : IsSeq(i[k])
  <2>1. \A k \in 1 .. Cardinality(T) :
           IsSeq(Before(k, Sep(S, c)) \o t[Ascending(T)[k]])
    <3>1. IsSeq(Sep(S, c))
      BY BeforeIs
    <3> QED BY <3>1, JoinedParts
  <2> QED BY <2>1
<1>6. \A k \in 1 .. a : f[k] = g[k]
  <2>1. \A k \in 1 .. a : k \in 1 .. a + b
    BY <1>1
  <2> HIDE DEF a, b
  <2> QED BY <1>2, <2>1 DEF a
<1>7. \A k \in 1 .. b : f[a + k] = i[k]
  <2> TAKE k \in 1 .. b
  <2>0. a = 0 <=> S = {}
    BY FS_EmptySet DEF Numbers
  <2> HIDE DEF a
  <2>1. a + k \in 1 .. a + b
    BY <1>1
  <2>2. a + k > 1 <=> k > 1 \/ S # {}
    BY <1>1, <2>0
  <2>3. Before(a + k, c) = Before(k, Sep(S, c))
    BY Zenon, <2>2 DEF Before, Sep
  <2>4. f[a + k] = Before(a + k, c) \o t[order[a + k]]
    BY <1>2, <2>1
  <2>5. i[k] = Before(k, Sep(S, c)) \o t[Ascending(T)[k]]
    OBVIOUS
  <2>6. order[a + k] = Ascending(T)[k]
    BY <1>2
  <2> HIDE DEF f, i, b
  <2> QED BY Zenon, <2>3, <2>4, <2>5, <2>6
<1>8. FlattenSeq(g) = Joined(c, t, S) /\ FlattenSeq(i) = Joined(Sep(S, c), t, T)
  BY DEF Joined
<1> HIDE DEF f, g, i, a, b
<1>9. IsSeq(f) /\ Len(f) = a + b /\ IsSeq(g) /\ Len(g) = a /\ IsSeq(i) /\ Len(i) = b
  <2>1. a + b \in Nat
    BY <1>1
  <2> QED BY <1>1, <1>3, <2>1, FunctionIsSeq
<1>10. f = g \o i
  <2>1. /\ IsSeq(g \o i) /\ Len(g \o i) = a + b
        /\ \A k \in 1 .. a : (g \o i)[k] = g[k]
        /\ \A k \in 1 .. b : (g \o i)[a + k] = i[k]
    BY <1>9, IsSeqConcat
  <2>2. ASSUME NEW k \in 1 .. a + b PROVE f[k] = (g \o i)[k]
    <3>1. CASE k \in 1 .. a
      BY <1>6, <2>1, <3>1
    <3>2. CASE k \notin 1 .. a
      <4>1. k - a \in 1 .. b /\ a + (k - a) = k
        BY <1>1, <3>2
      <4> DEFINE l == k - a
      <4>2. l \in 1 .. b /\ a + l = k
        BY <4>1
      <4> HIDE DEF l
      <4>3. f[a + l] = i[l] /\ (g \o i)[a + l] = i[l]
        BY <1>7, <2>1, <4>2
      <4> QED BY <4>2, <4>3
    <3> QED BY <3>1, <3>2
  <2> QED BY <1>9, <2>1, <2>2, SameSeq
<1>11. FlattenSeq(g \o i) = FlattenSeq(g) \o FlattenSeq(i)
  BY <1>3, <1>4, <1>5, <1>9, FlattenBoth
<1> HIDE DEF order
<1> QED BY <1>0, <1>8, <1>10, <1>11 DEF f, Sequenced

LEMMA ListIs ==
    ASSUME NEW S, Numbers(S), NEW t
    PROVE  List(t, S) = Joined(<<>>, t, S)
<1>1. DOMAIN Ascending(S) = 1 .. Cardinality(S)
  BY AscendingIs
<1>2. \A k : Comma(k > 1) = Before(k, <<>>)
  BY Zenon DEF Comma, Before
<1> QED BY <1>1, <1>2 DEF List, Joined

\* What is left over of an expand.
Empty(many, p) == <<p, IF many THEN "[]" ELSE "null">>

LEMMA EmptyIs == ASSUME NEW many, NEW p PROVE IsSeq(Empty(many, p))
<1> DEFINE v == IF many THEN "[]" ELSE "null"
<1>1. Empty(many, p) = <<p>> \o <<v>>
  BY TwoAreOneAndOne DEF Empty
<1>2. IsSeq(<<p>>) /\ IsSeq(<<v>>)
  BY OneText
<1> HIDE DEF v
<1> QED BY <1>1, <1>2, IsSeqConcat

LEMMA LeftOverIs ==
    ASSUME NEW l, Numbers(DOMAIN l.expands), l.suffix = <<"}">>
    PROVE  LeftOver(l) = Joined(Comma(l.hasProperties),
                                [p \in DOMAIN l.expands |-> Empty(l.expands[p] = "many", p)],
                                DOMAIN l.expands)
<1> DEFINE D == DOMAIN l.expands
           u == [p \in D |-> Empty(l.expands[p] = "many", p)]
           f == [n \in 1 .. Cardinality(D) |->
                   Comma(n > 1 \/ l.hasProperties)
                   \o <<Ascending(D)[n], IF l.expands[Ascending(D)[n]] = "many" THEN "[]" ELSE "null">>]
           g == [n \in 1 .. Cardinality(D) |-> Before(n, Comma(l.hasProperties)) \o u[Ascending(D)[n]]]
<1>1. DOMAIN Ascending(D) = 1 .. Cardinality(D) /\ \A k \in 1 .. Cardinality(D) : Ascending(D)[k] \in D
  BY AscendingIs
<1>2. CASE D = {}
  <2>1. LeftOver(l) = <<>>
    BY <1>2 DEF LeftOver
  <2> HIDE DEF D, u
  <2>2. Joined(Comma(l.hasProperties), u, D) = <<>>
    BY ZenonT(60), <1>2, CommaIs, JoinedNone
  <2> QED BY <2>1, <2>2 DEF D, u
<1>3. CASE D # {}
  <2>1. LeftOver(l) = FlattenSeq(f)
    BY <1>1, <1>3 DEF LeftOver
  <2>2. f = g
    <3>1. \A n \in 1 .. Cardinality(D) : u[Ascending(D)[n]]
             = <<Ascending(D)[n], IF l.expands[Ascending(D)[n]] = "many" THEN "[]" ELSE "null">>
      BY <1>1 DEF Empty
    <3>2. \A n : Comma(n > 1 \/ l.hasProperties) = Before(n, Comma(l.hasProperties))
      BY Zenon DEF Comma, Before
    <3> HIDE DEF u
    <3> QED BY <3>1, <3>2
  <2> QED BY <2>1, <2>2 DEF Joined
<1> QED BY <1>2, <1>3

----------------------------------------------------------------------------
(* The text of a row: what it has itself, its expands that have rows, and  *)
(* what is left over of the others                                         *)

Body(i) == SubSeq(Json(i), 1, Rows[i].json - 1)
           \o FlattenSeq([b \in DOMAIN Blobs(i) |-> BlobText(i, b)])
MemberTexts(n, i, f) ==
    [p \in DOMAIN Rows[i].expands |-> Member(f, Of(n, i, p), Rows[i].expands[p] = "many", p)]
RowText(n, i, f) ==
    LET names == DOMAIN Rows[i].expands
        filled == {p \in names : Of(n, i, p) # {}}
        order == Ascending(filled) \o Ascending(names \ filled)
    IN  SubSeq(Json(i), 1, Rows[i].json - 1)
        \o FlattenSeq([b \in DOMAIN Blobs(i) |-> BlobText(i, b)])
        \o FlattenSeq([m \in DOMAIN order |->
              Comma(m > 1 \/ HasProperties(i))
              \o Member(f, Of(n, i, order[m]), Rows[i].expands[order[m]] = "many", order[m])])
        \o <<"}">>
Unfilled(n, i) == DOMAIN Rows[i].expands \ Filled(n, i)
RowLevel(n, i) ==
    Level(0, <<"}">>, PathOf(i), [p \in Unfilled(n, i) |-> Rows[i].expands[p]],
          HasProperties(i) \/ Filled(n, i) # {})

LEMMA BlobTextIs ==
    ASSUME result \in Results, NEW i \in 1 .. Len(Rows), NEW b \in DOMAIN Blobs(i)
    PROVE  IsSeq(BlobText(i, b))
<1>1. IsRow(Rows[i]) /\ i \in Nat /\ b \in Nat
  <2>1. IsRow(Rows[i]) /\ Len(Rows) \in Nat
    BY RowsAre
  <2>2. b \in 1 .. Len(Blobs(i)) /\ Len(Blobs(i)) \in Nat
    BY <2>1, LenProperties DEF IsRow, Blobs
  <2> QED BY <2>1, <2>2
<1>2. Blobs(i)[b] \in Nat \cup {Absent, Null}
  BY <1>1, ElementOfSeq DEF IsRow, Blobs
<1>3. CASE Blobs(i)[b] = Absent
  BY <1>3, OneText DEF BlobText
<1>4. CASE Blobs(i)[b] # Absent
  <2> DEFINE s == Separator(i, b) \o <<"key">>
             v == IF Blobs(i)[b] = Null THEN <<"null">>
                  ELSE <<"quote">> \o Base64(Content(i, b)) \o <<"quote">>
  <2>1. IsSeq(s)
    BY SeparatorIs, OneText, IsSeqConcat
  <2>2. IsSeq(v)
    <3>1. CASE Blobs(i)[b] = Null
      BY <3>1, OneText
    <3>2. CASE Blobs(i)[b] # Null
      <4>1. Blobs(i)[b] \in Nat
        BY <1>2, <1>4, <3>2
      <4> DEFINE c == Content(i, b)
      <4>2. IsSeq(c)
        BY <1>1, <4>1, PrefetchedIs, SeqIs
      <4>3. v = <<"quote">> \o Base64(c) \o <<"quote">>
        BY <3>2
      <4> HIDE DEF c, v
      <4>4. IsSeq(Base64(c))
        <5>1. IsSeq(Encoded(c)) /\ IsSeq(Rest(c))
          BY <4>2, EncodedIs
        <5>2. IsSeq(EncodedEnd(Rest(c)))
          BY <5>1, EncodedIs
        <5> QED BY <5>1, <5>2, IsSeqConcat DEF Base64
      <4>5. IsSeq(<<"quote">>)
        BY OneText
      <4> QED BY <4>3, <4>4, <4>5, IsSeqConcat
    <3> QED BY <3>1, <3>2
  <2>3. BlobText(i, b) = s \o v
    BY <1>4 DEF BlobText
  <2> HIDE DEF s, v
  <2> QED BY <2>1, <2>2, <2>3, IsSeqConcat
<1> QED BY <1>3, <1>4

LEMMA BodyIs ==
    ASSUME result \in Results, NEW i \in 1 .. Len(Rows)
    PROVE  IsSeq(Body(i))
<1> DEFINE f == [b \in DOMAIN Blobs(i) |-> BlobText(i, b)]
           j == SubSeq(Json(i), 1, Rows[i].json - 1)
<1>1. IsRow(Rows[i])
  BY RowsAre
<1>2. IsSeq(j)
  BY <1>1, SubSeqIs DEF IsRow
<1>3. Len(Blobs(i)) \in Nat /\ DOMAIN Blobs(i) = 1 .. Len(Blobs(i))
  BY <1>1, LenProperties DEF IsRow, Blobs
<1>4. \A b \in DOMAIN f : IsSeq(f[b])
  BY BlobTextIs
<1>5. f = [b \in 1 .. Len(Blobs(i)) |-> f[b]]
  BY <1>3
<1>6. Body(i) = j \o FlattenSeq(f)
  BY DEF Body
<1> HIDE DEF f, j
<1>7. IsSeq(f)
  BY <1>3, <1>5, FunctionIsSeq
<1>8. IsSeq(FlattenSeq(f))
  BY <1>4, <1>7, FlattenIsSeq
<1> QED BY <1>2, <1>6, <1>8, IsSeqConcat

LEMMA NamesAre ==
    ASSUME Sound, NEW i \in 1 .. Len(Rows), NEW n \in 0 .. Len(Rows)
    PROVE  /\ Numbers(DOMAIN Rows[i].expands) /\ Numbers(Filled(n, i)) /\ Numbers(Unfilled(n, i))
           /\ \A p : Numbers(Of(n, i, p))
           /\ 0 \notin DOMAIN Rows[i].expands
           /\ Filled(n, i) \subseteq DOMAIN Rows[i].expands
<1>1. IsRow(Rows[i]) /\ Len(Rows) \in Nat
  BY RowsAre DEF Sound
<1>2. Numbers(DOMAIN Rows[i].expands) /\ 0 \notin DOMAIN Rows[i].expands
  BY <1>1 DEF IsRow, Numbers
<1>3. Filled(n, i) \in SUBSET DOMAIN Rows[i].expands /\ Unfilled(n, i) \in SUBSET DOMAIN Rows[i].expands
  BY DEF Filled, Unfilled
<1>4. Numbers(Filled(n, i)) /\ Numbers(Unfilled(n, i))
  BY <1>2, <1>3, FS_Subset DEF Numbers
<1>5. ASSUME NEW p PROVE Numbers(Of(n, i, p))
  <2>1. n \in Int /\ 1 \in Int /\ n \in Nat
    BY <1>1
  <2>2. IsFiniteSet(1 .. n)
    BY <2>1, FS_Interval
  <2>3. Of(n, i, p) \in SUBSET (1 .. n)
    BY DEF Of
  <2>4. 1 .. n \subseteq Nat
    BY <2>1
  <2> QED BY <2>2, <2>3, <2>4, FS_Subset DEF Numbers
<1> QED BY <1>2, <1>3, <1>4, <1>5

LEMMA MemberIs ==
    ASSUME NEW t, NEW S, Numbers(S), Texts(t, S), NEW many, NEW p
    PROVE  IsSeq(Member(t, S, many, p))
<1> DEFINE rest == IF S = {} THEN <<IF many THEN "[]" ELSE "null">>
                   ELSE IF many THEN <<"[">> \o List(t, S) \o <<"]">> ELSE List(t, S)
<1>1. IsSeq(List(t, S))
  <2>1. IsSeq(<<>>)
    BY OneText
  <2> QED BY <2>1, JoinedIsSeq, ListIs
<1>2. IsSeq(<<"[">>) /\ IsSeq(<<"]">>) /\ IsSeq(<<p>>) /\ \A x : IsSeq(<<x>>)
  BY OneText
<1>3. IsSeq(rest)
  <2>1. IsSeq(<<"[">> \o List(t, S) \o <<"]">>)
    BY <1>1, <1>2, IsSeqConcat
  <2> QED BY <1>1, <1>2, <2>1
<1>4. Member(t, S, many, p) = <<p>> \o rest
  BY DEF Member
<1> HIDE DEF rest
<1> QED BY <1>2, <1>3, <1>4, IsSeqConcat

LEMMA MembersAre ==
    ASSUME Sound, NEW i \in 1 .. Len(Rows), NEW n \in 0 .. Len(Rows), NEW f, Texts(f, i + 1 .. n)
    PROVE  /\ Texts(MemberTexts(n, i, f), DOMAIN Rows[i].expands)
           /\ \A p : Texts(f, Of(n, i, p))
<1> DEFINE u == MemberTexts(n, i, f)
<1>1. ASSUME NEW p PROVE Texts(f, Of(n, i, p)) /\ Numbers(Of(n, i, p))
  BY OfAfter, NamesAre DEF Texts
<1>2. ASSUME NEW p \in DOMAIN Rows[i].expands PROVE IsSeq(u[p])
  <2>1. u[p] = Member(f, Of(n, i, p), Rows[i].expands[p] = "many", p)
    BY DEF MemberTexts
  <2> QED BY <1>1, <2>1, MemberIs
<1> QED BY <1>1, <1>2 DEF Texts

LEMMA RowLevelIs ==
    ASSUME Sound, NEW i \in 1 .. Len(Rows), NEW n \in 0 .. Len(Rows)
    PROVE  /\ IsSeq(LeftOver(RowLevel(n, i)))
           /\ LeftOver(RowLevel(n, i)) =
                 Joined(Sep(Filled(n, i), Comma(HasProperties(i))),
                        [p \in Unfilled(n, i) |-> Empty(Rows[i].expands[p] = "many", p)],
                        Unfilled(n, i))
           /\ StepUp(RowLevel(n, i)) = LeftOver(RowLevel(n, i)) \o <<"}">>
           /\ IsSeq(StepUp(RowLevel(n, i)))
<1> DEFINE l == RowLevel(n, i)
           U == Unfilled(n, i)
           h == HasProperties(i) \/ Filled(n, i) # {}
           c == Sep(Filled(n, i), Comma(HasProperties(i)))
           e == [p \in U |-> Rows[i].expands[p]]
           v == [p \in U |-> Empty(Rows[i].expands[p] = "many", p)]
<1>1. l.suffix = <<"}">> /\ l.expands = e /\ l.hasProperties = h
  BY DEF RowLevel, Level
<1>2. DOMAIN e = U /\ Numbers(U)
  BY NamesAre
<1>3. [p \in DOMAIN e |-> Empty(e[p] = "many", p)] = v
  OBVIOUS
<1>0. Comma(h) = c /\ IsSeq(c)
  <2>1. Comma(h) = c
    BY Zenon DEF Comma, Sep
  <2> QED BY <2>1, CommaIs
<1> HIDE DEF l, e, U, h, c
<1>4. LeftOver(l) = Joined(c, v, U)
  <2> HIDE DEF v
  <2> QED BY <1>0, <1>1, <1>2, <1>3, LeftOverIs
<1>5. Texts(v, U)
  <2>1. \A p \in U : v[p] = Empty(Rows[i].expands[p] = "many", p)
    OBVIOUS
  <2> HIDE DEF v
  <2> QED BY <2>1, EmptyIs DEF Texts
<1> HIDE DEF v
<1>6. IsSeq(LeftOver(l))
  BY <1>0, <1>2, <1>4, <1>5, JoinedIsSeq
<1>7. StepUp(l) = LeftOver(l) \o <<"}">>
  BY <1>1 DEF StepUp
<1>8. IsSeq(StepUp(l))
  BY <1>6, <1>7, OneText, IsSeqConcat
<1> QED BY <1>4, <1>6, <1>7, <1>8 DEF l, v, U, c

LEMMA RowTextIs ==
    ASSUME Sound, NEW i \in 1 .. Len(Rows), NEW n \in 0 .. Len(Rows), NEW f, Texts(f, i + 1 .. n)
    PROVE  /\ RowText(n, i, f) =
                 (Body(i) \o Joined(Comma(HasProperties(i)), MemberTexts(n, i, f), Filled(n, i)))
                 \o StepUp(RowLevel(n, i))
           /\ IsSeq(RowText(n, i, f))
           /\ IsSeq(Joined(Comma(HasProperties(i)), MemberTexts(n, i, f), Filled(n, i)))
           /\ IsSeq(Body(i))
<1> DEFINE h == Comma(HasProperties(i))
           u == MemberTexts(n, i, f)
           F == Filled(n, i)
           U == Unfilled(n, i)
           order == Ascending(F) \o Ascending(U)
           m == Sequenced(h, u, order)
           a == Joined(h, u, F)
           b == Joined(Sep(F, h), u, U)
           s == LeftOver(RowLevel(n, i))
           z == <<"}">>
<1>0. IsSeq(h) /\ IsSeq(Sep(F, h))
  BY CommaIs, BeforeIs
<1>1. /\ Numbers(DOMAIN Rows[i].expands) /\ Numbers(F) /\ Numbers(U)
      /\ F \subseteq DOMAIN Rows[i].expands /\ U \subseteq DOMAIN Rows[i].expands
  BY NamesAre DEF Unfilled
<1>2. Texts(u, DOMAIN Rows[i].expands)
  BY MembersAre
<1>3. Texts(u, F) /\ Texts(u, U)
  BY <1>1, <1>2 DEF Texts
<1>4. \A k \in DOMAIN order : order[k] \in DOMAIN Rows[i].expands
  <2>1. /\ IsSeq(Ascending(F)) /\ IsSeq(Ascending(U))
        /\ Len(Ascending(F)) = Cardinality(F) /\ Len(Ascending(U)) = Cardinality(U)
        /\ Cardinality(F) \in Nat /\ Cardinality(U) \in Nat
        /\ \A k \in 1 .. Cardinality(F) : Ascending(F)[k] \in F
        /\ \A k \in 1 .. Cardinality(U) : Ascending(U)[k] \in U
    BY <1>1, AscendingIs
  <2>2. \A k \in 1 .. Len(Ascending(F)) : Ascending(F)[k] \in DOMAIN Rows[i].expands
    BY <1>1, <2>1
  <2>3. \A k \in 1 .. Len(Ascending(U)) : Ascending(U)[k] \in DOMAIN Rows[i].expands
    BY <1>1, <2>1
  <2> QED BY <2>1, <2>2, <2>3, ConcatWithin
<1>5. RowText(n, i, f) = Body(i) \o m \o z
  <2>1. m = FlattenSeq([k \in DOMAIN order |->
                 Comma(k > 1 \/ HasProperties(i))
                 \o Member(f, Of(n, i, order[k]), Rows[i].expands[order[k]] = "many", order[k])])
    <3>0. \A k : Before(k, h) = Comma(k > 1 \/ HasProperties(i))
      BY Zenon DEF Before, Comma
    <3>1. \A k \in DOMAIN order : u[order[k]] =
             Member(f, Of(n, i, order[k]), Rows[i].expands[order[k]] = "many", order[k])
      BY <1>4 DEF MemberTexts
    <3> HIDE DEF order, u, h
    <3>2. [k \in DOMAIN order |-> Before(k, h) \o u[order[k]]] = [k \in DOMAIN order |->
                 Comma(k > 1 \/ HasProperties(i))
                 \o Member(f, Of(n, i, order[k]), Rows[i].expands[order[k]] = "many", order[k])]
      BY <3>0, <3>1
    <3> QED BY <3>2 DEF Sequenced
  <2> HIDE DEF m
  <2> QED BY Zenon, <2>1 DEF RowText, Body, Filled, Unfilled
<1>6. m = a \o b
  <2>1. /\ order = Order(F, U)
        /\ m = Sequenced(h, u, order) /\ a = Joined(h, u, F) /\ b = Joined(Sep(F, h), u, U)
    BY DEF Order
  <2> HIDE DEF order, u, h, F, U, m, a, b
  <2>2. Sequenced(h, u, Order(F, U)) = Joined(h, u, F) \o Joined(Sep(F, h), u, U)
    BY <1>0, <1>1, <1>3, JoinedTwo
  <2> QED BY <2>1, <2>2
<1>7. b = s
  <2> DEFINE v == [p \in U |-> Empty(Rows[i].expands[p] = "many", p)]
  <2>1. \A p \in U : u[p] = v[p]
    <3> TAKE p \in U
    <3>1. p \in DOMAIN Rows[i].expands /\ Of(n, i, p) = {}
      BY DEF Unfilled, Filled
    <3>2. u[p] = Member(f, {}, Rows[i].expands[p] = "many", p)
      BY <3>1 DEF MemberTexts
    <3>3. Member(f, {}, Rows[i].expands[p] = "many", p)
            = <<p>> \o <<IF Rows[i].expands[p] = "many" THEN "[]" ELSE "null">>
      BY Zenon DEF Member
    <3>4. Empty(Rows[i].expands[p] = "many", p)
            = <<p>> \o <<IF Rows[i].expands[p] = "many" THEN "[]" ELSE "null">>
      BY TwoAreOneAndOne DEF Empty
    <3>5. v[p] = Empty(Rows[i].expands[p] = "many", p)
      OBVIOUS
    <3> HIDE DEF v, u
    <3> QED BY <3>2, <3>3, <3>4, <3>5
  <2>2. s = Joined(Sep(F, h), v, U)
    BY RowLevelIs
  <2> HIDE DEF v, u, h, F, U, s
  <2>3. Joined(Sep(F, h), u, U) = Joined(Sep(F, h), v, U)
    BY <1>0, <1>1, <2>1, JoinedSame
  <2> QED BY <2>2, <2>3
<1>8. IsSeq(Body(i)) /\ IsSeq(a) /\ IsSeq(s) /\ IsSeq(z)
  <2>1. IsSeq(a)
    <3> HIDE DEF h, u, F
    <3> QED BY <1>0, <1>1, <1>3, JoinedIsSeq
  <2>2. IsSeq(Body(i)) /\ IsSeq(s) /\ IsSeq(z)
    BY BodyIs, RowLevelIs, OneText DEF Sound
  <2> QED BY <2>1, <2>2
<1>9. StepUp(RowLevel(n, i)) = s \o z
  BY RowLevelIs
<1> DEFINE B == Body(i)
<1>10. RowText(n, i, f) = B \o m \o z /\ IsSeq(B)
  BY <1>5, <1>8
<1> HIDE DEF m, a, b, s, z, B
<1>11. /\ (B \o (a \o s)) \o z = (B \o a) \o (s \o z) /\ IsSeq(B \o a)
       /\ IsSeq((B \o a) \o (s \o z))
  <2>1. IsSeq(B \o a) /\ IsSeq(s \o z)
    BY <1>8, <1>10, IsSeqConcat
  <2>2. B \o (a \o s) = (B \o a) \o s
    <3>1. IsSeq(B) /\ IsSeq(a) /\ IsSeq(s)
      BY <1>8, <1>10
    <3> QED BY SMTT(60), <3>1, ConcatAssoc
  <2> DEFINE c == B \o a
  <2>3. (c \o s) \o z = c \o (s \o z)
    <3>1. IsSeq(c)
      BY <2>1
    <3> HIDE DEF c
    <3> QED BY SMTT(60), <1>8, <3>1, ConcatAssoc
  <2> QED BY <2>1, <2>2, <2>3, IsSeqConcat
<1>12. RowText(n, i, f) = (B \o a) \o (s \o z)
  BY <1>6, <1>7, <1>10, <1>11
<1> QED BY <1>8, <1>9, <1>10, <1>11, <1>12 DEF a, B

LEMMA RowTextSame ==
    ASSUME Sound, NEW i \in 1 .. Len(Rows), NEW n \in 0 .. Len(Rows), NEW f, Texts(f, i + 1 .. n),
           NEW g, \A j \in i + 1 .. n : f[j] = g[j]
    PROVE  Texts(g, i + 1 .. n) /\ RowText(n, i, f) = RowText(n, i, g)
<1> DEFINE h == Comma(HasProperties(i))
           u == MemberTexts(n, i, f)
           v == MemberTexts(n, i, g)
           F == Filled(n, i)
<1>0. IsSeq(h)
  BY CommaIs
<1>1. Texts(g, i + 1 .. n)
  BY DEF Texts
<1>2. \A p \in F : u[p] = v[p]
  <2> TAKE p \in F
  <2>1. p \in DOMAIN Rows[i].expands
    BY DEF Filled
  <2>2. Numbers(Of(n, i, p)) /\ \A j \in Of(n, i, p) : f[j] = g[j]
    BY OfAfter, NamesAre
  <2>3. List(f, Of(n, i, p)) = List(g, Of(n, i, p))
    <3> DEFINE R == Of(n, i, p)
    <3>1. Numbers(R) /\ \A j \in R : f[j] = g[j]
      BY <2>2
    <3> HIDE DEF R
    <3>2. Joined(<<>>, f, R) = Joined(<<>>, g, R)
      BY <3>1, OneText, JoinedSame
    <3>3. List(f, R) = List(g, R)
      BY <3>1, <3>2, ListIs
    <3> QED BY <3>3 DEF R
  <2>4. Member(f, Of(n, i, p), Rows[i].expands[p] = "many", p)
          = Member(g, Of(n, i, p), Rows[i].expands[p] = "many", p)
    BY <2>3 DEF Member
  <2> QED BY <2>1, <2>4 DEF MemberTexts
<1>3. Numbers(F)
  BY NamesAre
<1>4. RowText(n, i, f) = (Body(i) \o Joined(h, u, F)) \o StepUp(RowLevel(n, i))
  BY RowTextIs
<1>5. RowText(n, i, g) = (Body(i) \o Joined(h, v, F)) \o StepUp(RowLevel(n, i))
  BY <1>1, RowTextIs
<1> HIDE DEF h, u, v, F
<1>6. Joined(h, u, F) = Joined(h, v, F)
  BY <1>0, <1>2, <1>3, JoinedSame
<1> QED BY <1>1, <1>4, <1>5, <1>6

\* The texts of all rows, among the first n.
T(n) == CHOOSE f : f = [i \in 1 .. n |-> RowText(n, i, f)]

LEMMA TextsExist ==
    ASSUME Sound, NEW n \in 0 .. Len(Rows)
    PROVE  \E f : f = [i \in 1 .. n |-> RowText(n, i, f)] /\ Texts(f, 1 .. n)
<1>1. Len(Rows) \in Nat /\ n \in Nat
  <2>1. Len(Rows) \in Nat
    BY PathsAre DEF Sound
  <2> QED BY <2>1
<1> DEFINE Good(f, m) == /\ f = [i \in 1 .. n |-> f[i]]
                         /\ \A i \in n - m + 1 .. n : f[i] = RowText(n, i, f)
                         /\ Texts(f, n - m + 1 .. n)
           P == {m \in Nat : m <= n => \E f : Good(f, m)}
<1>2. 0 \in P
  <2> DEFINE f == [i \in 1 .. n |-> <<>>]
  <2>1. f = [i \in 1 .. n |-> f[i]] /\ n - 0 + 1 .. n = {}
    BY <1>1
  <2> HIDE DEF f
  <2>2. Good(f, 0)
    BY <2>1 DEF Texts
  <2> HIDE DEF Good
  <2> QED BY <2>2
<1>3. \A m \in P : m + 1 \in P
  <2> TAKE m \in P
  <2> HIDE DEF Good
  <2>1. m \in Nat /\ (m <= n => \E f : Good(f, m))
    BY Zenon DEF P
  <2> HIDE DEF P
  <2>2. ASSUME m + 1 <= n PROVE \E f : Good(f, m + 1)
    <3>1. m <= n
      BY <1>1, <2>1, <2>2
    <3>2. PICK f : Good(f, m)
      BY <2>1, <3>1
    <3> DEFINE k == n - m
    <3>3. /\ k \in 1 .. n /\ k \in 1 .. Len(Rows) /\ n - (m + 1) + 1 = k /\ k \in Nat
          /\ \A i \in k + 1 .. n : i \in 1 .. n /\ i # k /\ i \in 1 .. Len(Rows) /\ i \in k .. n
                                   /\ \A j \in i + 1 .. n : j \in 1 .. n /\ j # k /\ j \in k + 1 .. n
          /\ \A i \in k .. n : i = k \/ i \in k + 1 .. n
      BY <1>1, <2>1, <2>2
    <3> DEFINE g == [i \in 1 .. n |-> IF i = k THEN RowText(n, k, f) ELSE f[i]]
    <3> HIDE DEF k
    <3>4. /\ f = [i \in 1 .. n |-> f[i]]
          /\ \A i \in k + 1 .. n : f[i] = RowText(n, i, f)
          /\ Texts(f, k + 1 .. n)
      BY <3>2 DEF Good, k
    <3>5. g[k] = RowText(n, k, f) /\ \A i \in k + 1 .. n : g[i] = f[i]
      BY <3>3
    <3>6. g = [i \in 1 .. n |-> g[i]]
      OBVIOUS
    <3> HIDE DEF g
    <3>7. RowText(n, k, f) = RowText(n, k, g) /\ IsSeq(RowText(n, k, f))
      <4>1. \A j \in k + 1 .. n : f[j] = g[j]
        BY <3>5
      <4>2. k \in 1 .. Len(Rows) /\ Texts(f, k + 1 .. n)
        BY <3>3, <3>4
      <4>3. RowText(n, k, f) = RowText(n, k, g)
        BY <4>1, <4>2, RowTextSame
      <4>4. IsSeq(RowText(n, k, f))
        BY <4>2, RowTextIs
      <4> QED BY <4>3, <4>4
    <3>8. ASSUME NEW i \in k + 1 .. n PROVE g[i] = RowText(n, i, g)
      <4>1. i \in 1 .. Len(Rows) /\ \A j \in i + 1 .. n : j \in k + 1 .. n
        BY <3>3
      <4>2. \A j \in i + 1 .. n : f[j] = g[j]
        BY <3>5, <4>1
      <4>3. Texts(f, i + 1 .. n)
        BY <3>4, <4>1 DEF Texts
      <4>4. RowText(n, i, f) = RowText(n, i, g)
        BY <4>1, <4>2, <4>3, RowTextSame
      <4> QED BY <3>4, <3>5, <4>4
    <3>9. \A i \in k .. n : g[i] = RowText(n, i, g)
      BY <3>3, <3>5, <3>7, <3>8
    <3>10. Texts(g, k .. n)
      BY <3>3, <3>4, <3>5, <3>7 DEF Texts
    <3>11. Good(g, m + 1)
      BY <3>3, <3>6, <3>9, <3>10 DEF Good
    <3> QED BY <3>11
  <2>3. m + 1 \in Nat
    BY <2>1
  <2> QED BY <2>2, <2>3 DEF P
<1> HIDE DEF P, Good
<1>4. P = Nat
  <2>1. P \in SUBSET Nat
    BY DEF P
  <2> QED BY <1>2, <1>3, <2>1, SetInduction
<1>5. n \in P /\ n <= n
  BY <1>1, <1>4
<1>6. PICK f : Good(f, n)
  BY Zenon, <1>5 DEF P
<1>7. n - n + 1 = 1
  BY <1>1
<1>8. /\ f = [i \in 1 .. n |-> f[i]] /\ \A i \in 1 .. n : f[i] = RowText(n, i, f)
      /\ Texts(f, 1 .. n)
  BY <1>6, <1>7 DEF Good
<1>9. f = [i \in 1 .. n |-> RowText(n, i, f)]
  BY <1>8
<1> QED BY <1>8, <1>9

LEMMA TextsAre ==
    ASSUME Sound, NEW n \in 0 .. Len(Rows)
    PROVE  /\ \A i \in 1 .. n : T(n)[i] = RowText(n, i, T(n))
           /\ Texts(T(n), 1 .. n)
<1>1. Len(Rows) \in Nat /\ n \in Nat
  <2>1. Len(Rows) \in Nat
    BY PathsAre DEF Sound
  <2> QED BY <2>1
<1> DEFINE t == T(n)
<1>2. t = [i \in 1 .. n |-> RowText(n, i, t)]
  <2>1. \E f : f = [i \in 1 .. n |-> RowText(n, i, f)]
    BY TextsExist
  <2> QED BY Zenon, <2>1 DEF T
<1> HIDE DEF t
<1>3. \A i \in 1 .. n : t[i] = RowText(n, i, t)
  BY <1>2
<1> DEFINE P == {m \in Nat : m <= n => Texts(t, n - m + 1 .. n)}
<1>4. 0 \in P
  <2>1. n - 0 + 1 .. n = {}
    BY <1>1
  <2> QED BY <2>1 DEF Texts
<1>5. \A m \in P : m + 1 \in P
  <2> TAKE m \in P
  <2>1. m \in Nat /\ (m <= n => Texts(t, n - m + 1 .. n))
    OBVIOUS
  <2> HIDE DEF P
  <2>2. ASSUME m + 1 <= n PROVE Texts(t, n - (m + 1) + 1 .. n)
    <3> DEFINE k == n - m
    <3>1. k \in 1 .. n /\ k \in 1 .. Len(Rows) /\ n - (m + 1) + 1 = k /\ m <= n
          /\ \A i \in k .. n : i = k \/ i \in k + 1 .. n
      BY <1>1, <2>1, <2>2
    <3>2. Texts(t, k + 1 .. n)
      BY <2>1, <3>1
    <3> HIDE DEF k
    <3>3. IsSeq(RowText(n, k, t))
      BY <3>1, <3>2, RowTextIs
    <3> QED BY <1>3, <3>1, <3>2, <3>3 DEF Texts
  <2>3. m + 1 \in Nat
    BY <2>1
  <2> QED BY <2>2, <2>3 DEF P
<1> HIDE DEF P
<1>6. P = Nat
  <2>1. P \in SUBSET Nat
    BY DEF P
  <2> QED BY <1>4, <1>5, <2>1, SetInduction
<1>7. n \in P /\ n <= n /\ n - n + 1 = 1
  BY <1>1, <1>6
<1>8. Texts(t, 1 .. n)
  BY <1>7 DEF P
<1> QED BY <1>3, <1>8 DEF t

\* The rows of the result.
LEMMA ExpectedIs ==
    ASSUME Sound, NEW n \in 0 .. Len(Rows)
    PROVE  Expected(n) = LET all == List(T(n), {i \in 1 .. n : IsRoot(Rows[i].path)})
                         IN  IF mode = "one" THEN all ELSE <<"[">> \o all \o <<"]">>
BY Zenon DEF Expected, T, RowText

----------------------------------------------------------------------------
(* The rows that the next row is not below keep their texts                *)
LEMMA ListSame ==
    ASSUME NEW S, Numbers(S), NEW t, NEW u, \A x \in S : t[x] = u[x]
    PROVE  List(t, S) = List(u, S)
<1>1. IsSeq(<<>>)
  BY OneIsSeq
<1>2. Joined(<<>>, t, S) = Joined(<<>>, u, S)
  BY <1>1, JoinedSame
<1> QED BY <1>2, ListIs

\* Is row n + 1 one of the expand p of row i?
IsOf(n, i, p) == /\ Len(PathOf(n + 1)) = Len(PathOf(i)) + 2
                 /\ Agree(PathOf(i), PathOf(n + 1), Len(PathOf(i)))
                 /\ PathOf(n + 1)[Len(PathOf(i)) + 1] = p

LEMMA OfStep ==
    ASSUME Sound, NEW i \in 1 .. Len(Rows), NEW n \in 0 .. Len(Rows), n < Len(Rows), NEW p
    PROVE  /\ IsOf(n, i, p) => Of(n + 1, i, p) = Of(n, i, p) \cup {n + 1}
           /\ ~IsOf(n, i, p) => Of(n + 1, i, p) = Of(n, i, p)
<1>1. n \in Nat /\ n + 1 \in 0 .. Len(Rows)
  <2>1. Len(Rows) \in Nat
    BY PathsAre DEF Sound
  <2> QED BY <2>1
<1> DEFINE In(j) == /\ Len(PathOf(j)) = Len(PathOf(i)) + 2
                    /\ Agree(PathOf(i), PathOf(j), Len(PathOf(i)))
                    /\ PathOf(j)[Len(PathOf(i)) + 1] = p
<1>2. Of(n, i, p) = {j \in 1 .. n : In(j)} /\ Of(n + 1, i, p) = {j \in 1 .. n + 1 : In(j)}
  BY <1>1, OfIs
<1>3. IsOf(n, i, p) <=> In(n + 1)
  BY DEF IsOf
<1> HIDE DEF In
<1>4. 1 .. n + 1 = (1 .. n) \cup {n + 1}
  BY <1>1
<1>5. CASE In(n + 1)
  <2>1. {j \in 1 .. n + 1 : In(j)} = {j \in 1 .. n : In(j)} \cup {n + 1}
    BY Zenon, <1>4, <1>5
  <2> QED BY Zenon, <2>1, <1>2, <1>3, <1>5
<1>6. CASE ~In(n + 1)
  <2>1. {j \in 1 .. n + 1 : In(j)} = {j \in 1 .. n : In(j)}
    BY Zenon, <1>4, <1>6
  <2> QED BY Zenon, <2>1, <1>2, <1>3, <1>6
<1> QED BY <1>5, <1>6

\* Is row i not one that row n + 1 is below?
Aside(n, i) == ~Agree(PathOf(i), PathOf(n + 1), Len(PathOf(i)))

LEMMA OfAside ==
    ASSUME Sound, NEW i \in 1 .. Len(Rows), NEW n \in 0 .. Len(Rows), n < Len(Rows), Aside(n, i)
    PROVE  \A p : /\ Of(n + 1, i, p) = Of(n, i, p)
                  /\ \A j \in Of(n, i, p) : j \in i + 1 .. n /\ Aside(n, j)
<1> TAKE p
<1>1. Of(n + 1, i, p) = Of(n, i, p)
  BY OfStep DEF IsOf, Aside
<1>2. ASSUME NEW j \in Of(n, i, p) PROVE j \in i + 1 .. n /\ Aside(n, j)
  <2>0. Len(Rows) \in Nat
    BY PathsAre DEF Sound
  <2>1. j \in i + 1 .. n /\ j \in 0 .. Len(Rows) /\ n + 1 \in 0 .. Len(Rows)
    BY <1>2, <2>0, OfAfter
  <2>2. Agree(PathOf(i), PathOf(j), Len(PathOf(i)))
    BY <1>2, OfIs
  <2>3. /\ PathOf(i) \in Seq(Nat) /\ PathOf(j) \in Seq(Nat) /\ PathOf(n + 1) \in Seq(Nat)
        /\ Len(PathOf(i)) \in Nat /\ Len(PathOf(j)) \in Nat
    BY <2>0, <2>1, PathsAre DEF Sound
  <2>4. ASSUME Agree(PathOf(j), PathOf(n + 1), Len(PathOf(j))) PROVE FALSE
    <3>1. Len(PathOf(i)) <= Len(PathOf(j))
      BY <2>2 DEF Agree
    <3>2. Agree(PathOf(j), PathOf(n + 1), Len(PathOf(i)))
      BY <2>3, <2>4, <3>1, AgreeIs
    <3>3. Agree(PathOf(i), PathOf(n + 1), Len(PathOf(i)))
      BY <2>2, <2>3, <3>2 DEF Agree
    <3> QED BY <3>3 DEF Aside
  <2> QED BY <2>1, <2>4 DEF Aside
<1> QED BY <1>1, <1>2

\* Such a row has the text it had.
LEMMA AsideSame ==
    ASSUME Sound, NEW i \in 1 .. Len(Rows), NEW n \in 0 .. Len(Rows), n < Len(Rows), Aside(n, i),
           NEW f, Texts(f, i + 1 .. n), NEW g, \A j \in i + 1 .. n : Aside(n, j) => g[j] = f[j],
           Texts(g, i + 1 .. n + 1)
    PROVE  RowText(n + 1, i, g) = RowText(n, i, f)
<1>1. n \in Nat /\ n + 1 \in 0 .. Len(Rows)
  <2>1. Len(Rows) \in Nat
    BY PathsAre DEF Sound
  <2> QED BY <2>1
<1>2. \A p : /\ Of(n + 1, i, p) = Of(n, i, p)
             /\ \A j \in Of(n, i, p) : j \in i + 1 .. n /\ Aside(n, j)
  BY OfAside
<1>3. ASSUME NEW p PROVE List(g, Of(n + 1, i, p)) = List(f, Of(n, i, p))
  <2>1. Numbers(Of(n, i, p))
    BY NamesAre
  <2>2. \A j \in Of(n, i, p) : g[j] = f[j]
    BY <1>2
  <2> DEFINE S == Of(n, i, p)
  <2> HIDE DEF S
  <2>3. List(g, S) = List(f, S)
    BY <2>1, <2>2, ListSame DEF S
  <2> QED BY <1>2, <2>3 DEF S
<1>4. MemberTexts(n + 1, i, g) = MemberTexts(n, i, f)
  <2>1. ASSUME NEW p PROVE Member(g, Of(n + 1, i, p), Rows[i].expands[p] = "many", p)
                           = Member(f, Of(n, i, p), Rows[i].expands[p] = "many", p)
    BY SMTT(60), <1>2, <1>3 DEF Member
  <2> QED BY <2>1 DEF MemberTexts
<1>5. Filled(n + 1, i) = Filled(n, i)
  BY <1>2 DEF Filled
<1>6. RowLevel(n + 1, i) = RowLevel(n, i)
  BY <1>5 DEF RowLevel, Unfilled
<1>7. /\ RowText(n, i, f) =
              (Body(i) \o Joined(Comma(HasProperties(i)), MemberTexts(n, i, f), Filled(n, i)))
              \o StepUp(RowLevel(n, i))
  BY RowTextIs
<1>8. /\ RowText(n + 1, i, g) =
              (Body(i) \o Joined(Comma(HasProperties(i)), MemberTexts(n + 1, i, g), Filled(n + 1, i)))
              \o StepUp(RowLevel(n + 1, i))
  BY <1>1, RowTextIs
<1> QED BY Zenon, <1>4, <1>5, <1>6, <1>7, <1>8

LEMMA AsideStays ==
    ASSUME Sound, NEW n \in 0 .. Len(Rows), n < Len(Rows)
    PROVE  \A j \in 1 .. n : Aside(n, j) => T(n + 1)[j] = T(n)[j]
<1>1. Len(Rows) \in Nat /\ n \in Nat /\ n + 1 \in 0 .. Len(Rows)
  <2>1. Len(Rows) \in Nat
    BY PathsAre DEF Sound
  <2> QED BY <2>1
<1> DEFINE f == T(n)
           g == T(n + 1)
<1>2. (\A i \in 1 .. n : f[i] = RowText(n, i, f)) /\ Texts(f, 1 .. n)
  BY TextsAre
<1>3. (\A i \in 1 .. n + 1 : g[i] = RowText(n + 1, i, g)) /\ Texts(g, 1 .. n + 1)
  BY <1>1, TextsAre
<1> HIDE DEF f, g
<1> DEFINE Same(m) == \A j \in n - m + 1 .. n : Aside(n, j) => g[j] = f[j]
           P == {m \in Nat : m <= n => Same(m)}
<1>4. 0 \in P
  <2>1. n - 0 + 1 .. n = {}
    BY <1>1
  <2> QED BY <2>1
<1>5. \A m \in P : m + 1 \in P
  <2> TAKE m \in P
  <2>1. m \in Nat /\ (m <= n => Same(m))
    OBVIOUS
  <2> HIDE DEF P, Same
  <2>2. ASSUME m + 1 <= n PROVE Same(m + 1)
    <3> DEFINE k == n - m
    <3>1. /\ k \in 1 .. n /\ k \in 1 .. Len(Rows) /\ n - (m + 1) + 1 = k /\ m <= n /\ k \in 1 .. n + 1
          /\ \A i \in k .. n : i = k \/ i \in k + 1 .. n
          /\ \A i \in k + 1 .. n : i \in 1 .. n
          /\ \A i \in k + 1 .. n + 1 : i \in 1 .. n + 1
      BY <1>1, <2>1, <2>2
    <3>2. \A j \in k + 1 .. n : Aside(n, j) => g[j] = f[j]
      BY <2>1, <3>1 DEF Same
    <3> HIDE DEF k
    <3>3. Texts(f, k + 1 .. n) /\ Texts(g, k + 1 .. n + 1)
      BY <1>2, <1>3, <3>1 DEF Texts
    <3>4. ASSUME Aside(n, k) PROVE g[k] = f[k]
      <4>1. RowText(n + 1, k, g) = RowText(n, k, f)
        BY <3>1, <3>2, <3>3, <3>4, AsideSame
      <4> QED BY <1>2, <1>3, <3>1, <4>1
    <3> QED BY <3>1, <3>2, <3>4 DEF Same
  <2>3. m + 1 \in Nat
    BY <2>1
  <2> QED BY <2>2, <2>3 DEF P
<1> HIDE DEF P
<1>6. P = Nat
  <2>1. P \in SUBSET Nat
    BY DEF P
  <2> QED BY <1>4, <1>5, <2>1, SetInduction
<1>7. n \in P /\ n <= n /\ n - n + 1 = 1
  BY <1>1, <1>6
<1>8. Same(n)
  BY <1>7 DEF P
<1> QED BY <1>7, <1>8 DEF f, g, Same

----------------------------------------------------------------------------
(* What the levels of a row give                                           *)
\* Row n + 1 and the levels: what a level begins with, what comes before the
\* first of its elements, its elements and their texts, and what closes it.
Start(n, k) == IF Even(k) THEN Body(Anc(n, k)) ELSE <<>>
First(n, k) == IF Even(k) THEN Comma(HasProperties(Anc(n, k))) ELSE <<>>
Parts(n, k) == IF Even(k) THEN MemberTexts(n, Anc(n, k), T(n)) ELSE T(n)
Elements(n, k) == IF Even(k) THEN Filled(n, Anc(n, k)) ELSE Kids(n, n, k)
\* The element that the row is below.
LastOf(n, k) == IF Even(k) THEN PathOf(n)[k + 1] ELSE Anc(n, k + 1)
IsMany(n, k) == IF k = 1 THEN mode # "one" ELSE Rows[Anc(n, k - 1)].expands[PathOf(n)[k]] = "many"
Open(n, k) == IF Even(k) THEN <<PathOf(n)[k + 1]>> \o (IF IsMany(n, k + 1) THEN <<"[">> ELSE <<>>)
              ELSE <<>>
Up(n, k) == IF Even(k) THEN StepUp(RowLevel(n, Anc(n, k)))
            ELSE IF IsMany(n, k) THEN <<"]">> ELSE <<>>
Others(n, k) == Elements(n, k) \ {LastOf(n, k)}
Inner(n, k) == Start(n, k) \o Joined(First(n, k), Parts(n, k), Elements(n, k))
Q(n, k) == Inner(n, k) \o Up(n, k)
\* What comes before the element that the row is below.
Pre(n, k) == (Start(n, k) \o Joined(First(n, k), Parts(n, k), Others(n, k)))
             \o (Sep(Others(n, k), First(n, k)) \o Open(n, k))
IsLevel(n, k) == k \in Nat \ {0} /\ k <= Len(PathOf(n))

LEMMA KidsLast ==
    ASSUME Sound, NEW n \in 1 .. Len(Rows), NEW k \in Nat \ {0}, ~Even(k), k < Len(PathOf(n))
    PROVE  /\ Anc(n, k + 1) \in Kids(n, n, k)
           /\ \A j \in Kids(n, n, k) : j <= Anc(n, k + 1)
           /\ IsAnc(Anc(n, k + 1), n, k + 1) /\ Anc(n, k + 1) \in 1 .. n
<1>0. /\ Len(Rows) \in Nat /\ n \in 0 .. Len(Rows) /\ n \in Nat
      /\ PathOf(n) \in Seq(Nat) /\ Len(PathOf(n)) \in Nat
  <2>1. Len(Rows) \in Nat
    BY PathsAre DEF Sound
  <2>2. n \in 0 .. Len(Rows) /\ n \in Nat
    BY <2>1
  <2> QED BY <2>1, <2>2, PathsAre DEF Sound
<1> DEFINE l == Len(PathOf(n))
<1>1. k + 1 \in Nat \ {0} /\ k + 1 <= l /\ Even(k + 1) /\ k <= k + 1
  <2>1. Even(k + 1)
    BY Parity
  <2>2. k < l /\ l \in Nat
    BY <1>0
  <2> HIDE DEF l
  <2> QED BY <2>1, <2>2
<1> DEFINE c == Anc(n, k + 1)
<1>2. c \in 1 .. n /\ c \in 1 .. Len(Rows) /\ IsAnc(c, n, k + 1)
  BY <1>1, AncIs
<1> HIDE DEF c, l
<1>3. Len(PathOf(c)) = k + 1 /\ Agree(PathOf(c), PathOf(n), k + 1)
  BY <1>2 DEF IsAnc
<1>4. c \in 0 .. Len(Rows) /\ PathOf(c) \in Seq(Nat)
  <2>1. c \in 0 .. Len(Rows)
    BY <1>2, <1>0
  <2> QED BY <2>1, PathsAre DEF Sound
<1>5. c \in Kids(n, n, k)
  <2>1. Agree(PathOf(c), PathOf(n), k)
    BY <1>0, <1>1, <1>3, <1>4, AgreeIs
  <2> QED BY <1>2, <1>3, <2>1 DEF Kids
<1>6. ASSUME NEW j \in Kids(n, n, k), c < j PROVE FALSE
  <2>1. j \in 1 .. n /\ Len(PathOf(j)) = k + 1
    BY <1>6 DEF Kids
  <2>2. j \in 0 .. Len(Rows) /\ c <= j /\ j <= n
    BY <1>0, <1>2, <1>6, <2>1
  <2>3. Agree(PathOf(c), PathOf(j), k + 1)
    BY <1>0, <1>1, <1>3, <1>4, <2>2, Inside
  <2>4. c = j
    BY <1>3, <1>4, <2>1, <2>2, <2>3, SameRow
  <2> QED BY <1>2, <1>6, <2>4
<1>7. ASSUME NEW j \in Kids(n, n, k) PROVE j <= c
  <2>1. j \in Nat /\ c \in Nat
    BY <1>0, <1>2, <1>7 DEF Kids
  <2>2. ~(c < j)
    BY <1>6
  <2> QED BY <2>1, <2>2
<1> QED BY <1>2, <1>5, <1>7 DEF c

LEMMA FilledLast ==
    ASSUME Sound, NEW n \in 1 .. Len(Rows), NEW k \in Nat \ {0}, Even(k), k < Len(PathOf(n))
    PROVE  /\ PathOf(n)[k + 1] \in Filled(n, Anc(n, k))
           /\ \A p \in Filled(n, Anc(n, k)) : p <= PathOf(n)[k + 1]
           /\ Of(n, Anc(n, k), PathOf(n)[k + 1]) = Kids(n, n, k + 1)
           /\ Kids(n, n, k + 1) # {} /\ k + 1 < Len(PathOf(n))
<1>0. /\ Len(Rows) \in Nat /\ n \in 0 .. Len(Rows) /\ n \in Nat
      /\ PathOf(n) \in Seq(Nat) /\ Len(PathOf(n)) \in Nat /\ Even(Len(PathOf(n)))
  <2>1. Len(Rows) \in Nat
    BY PathsAre DEF Sound
  <2>2. n \in 0 .. Len(Rows) /\ n \in Nat
    BY <2>1
  <2> QED BY <2>1, <2>2, PathsAre DEF Sound
<1> DEFINE l == Len(PathOf(n))
<1>1. /\ k + 1 \in Nat \ {0} /\ k + 1 < l /\ ~Even(k + 1) /\ k <= l /\ k < l
  <2>1. ~Even(k + 1)
    BY Parity
  <2>2. k < l /\ l \in Nat /\ Even(l)
    BY <1>0
  <2> HIDE DEF l
  <2>3. k + 1 # l
    BY <2>1, <2>2
  <2> QED BY <2>1, <2>2, <2>3
<1>2. /\ PathOf(n)[k + 1] \in DOMAIN Rows[Anc(n, k)].expands
      /\ Anc(n, k) \in 1 .. Len(Rows)
  BY <1>1, AncIs
<1>3. /\ Of(n, Anc(n, k), PathOf(n)[k + 1]) = Kids(n, n, k + 1)
      /\ \A p : Of(n, Anc(n, k), p) =
            {j \in 1 .. n : /\ Len(PathOf(j)) = k + 2 /\ Agree(PathOf(j), PathOf(n), k)
                            /\ PathOf(j)[k + 1] = p}
  BY <1>0, KidsOf
<1>4. Kids(n, n, k + 1) # {}
  BY <1>1, KidsLast
<1>5. PathOf(n)[k + 1] \in Filled(n, Anc(n, k))
  BY <1>2, <1>3, <1>4 DEF Filled
<1>6. ASSUME NEW p \in Filled(n, Anc(n, k)) PROVE p <= PathOf(n)[k + 1]
  <2>1. Of(n, Anc(n, k), p) # {}
    BY <1>6 DEF Filled
  <2>2. PICK j \in 1 .. n : /\ Len(PathOf(j)) = k + 2 /\ Agree(PathOf(j), PathOf(n), k)
                            /\ PathOf(j)[k + 1] = p
    BY <1>3, <2>1
  <2>3. j \in 0 .. Len(Rows) /\ j <= n
    BY <1>0
  <2>4. k < Len(PathOf(j))
    BY <2>2
  <2>5. PathOf(j)[k + 1] <= PathOf(n)[k + 1]
    BY <1>0, <2>2, <2>3, <2>4, Earlier
  <2> QED BY <2>2, <2>5
<1> QED BY <1>1, <1>3, <1>4, <1>5, <1>6

LEMMA NIs ==
    ASSUME Sound, NEW n \in 0 .. Len(Rows)
    PROVE  /\ Len(Rows) \in Nat /\ n \in Nat
           /\ PathOf(n) \in Seq(Nat) /\ Len(PathOf(n)) \in Nat /\ Len(PathOf(n)) >= 1
           /\ n = 0 => Len(PathOf(n)) = 1
           /\ n # 0 => n \in 1 .. Len(Rows)
<1>1. Len(Rows) \in Nat
  BY PathsAre DEF Sound
<1>2. n \in 0 .. Len(Rows) /\ n \in Nat /\ (n # 0 => n \in 1 .. Len(Rows))
  BY <1>1
<1>3. n = 0 => Len(PathOf(n)) = 1
  <2>1. Len(<<0>>) = 1
    BY OneText
  <2> QED BY <2>1 DEF PathOf, RootPath
<1>4. PathOf(n) \in Seq(Nat) /\ Len(PathOf(n)) \in Nat /\ Len(PathOf(n)) >= 1
  BY <1>2, PathsAre DEF Sound
<1> QED BY <1>1, <1>2, <1>3, <1>4

\* An even level is that of a row.
LEMMA EvenLevel ==
    ASSUME Sound, NEW n \in 0 .. Len(Rows), NEW k, IsLevel(n, k), Even(k)
    PROVE  n \in 1 .. Len(Rows) /\ k \in Nat \ {0} /\ k <= Len(PathOf(n))
           /\ Anc(n, k) \in 1 .. n /\ Anc(n, k) \in 1 .. Len(Rows)
<1>1. k \in Nat \ {0} /\ k <= Len(PathOf(n))
  BY DEF IsLevel
<1>2. n # 0
  <2>1. ASSUME n = 0 PROVE FALSE
    <3>0. Len(PathOf(n)) = 1
      BY <2>1, NIs
    <3>1. k = 1
      BY <1>1, <3>0
    <3> QED BY <3>1, OneIsOdd
  <2> QED BY <2>1
<1>3. n \in 1 .. Len(Rows)
  BY <1>2, NIs
<1> QED BY <1>1, <1>3, AncIs

LEMMA ElementsLast ==
    ASSUME Sound, NEW n \in 0 .. Len(Rows), NEW k, IsLevel(n, k), k < Len(PathOf(n))
    PROVE  /\ LastOf(n, k) \in Elements(n, k)
           /\ \A x \in Elements(n, k) : x <= LastOf(n, k)
<1>1. k \in Nat \ {0} /\ n \in 1 .. Len(Rows)
  <2>1. k \in Nat \ {0}
    BY DEF IsLevel
  <2>2. n # 0
    <3>1. n = 0 => Len(PathOf(n)) = 1
      BY NIs
    <3> DEFINE l == Len(PathOf(n))
    <3>2. k < l /\ (n = 0 => l = 1)
      BY <3>1
    <3> HIDE DEF l
    <3> QED BY <2>1, <3>2
  <2> QED BY <2>1, <2>2, NIs
<1>2. CASE Even(k)
  <2>1. LastOf(n, k) = PathOf(n)[k + 1] /\ Elements(n, k) = Filled(n, Anc(n, k))
    BY <1>2 DEF LastOf, Elements
  <2> QED BY <1>1, <1>2, <2>1, FilledLast
<1>3. CASE ~Even(k)
  <2>1. LastOf(n, k) = Anc(n, k + 1) /\ Elements(n, k) = Kids(n, n, k)
    BY <1>3 DEF LastOf, Elements
  <2> QED BY <1>1, <1>3, <2>1, KidsLast
<1> QED BY <1>2, <1>3

LEMMA LevelParts ==
    ASSUME Sound, NEW n \in 0 .. Len(Rows), NEW k, IsLevel(n, k)
    PROVE  /\ Numbers(Elements(n, k)) /\ Texts(Parts(n, k), Elements(n, k))
           /\ IsSeq(Start(n, k)) /\ IsSeq(First(n, k)) /\ IsSeq(Up(n, k)) /\ IsSeq(Open(n, k))
<1>0. Texts(T(n), 1 .. n) /\ n \in Nat
  BY TextsAre, NIs
<1>1. CASE Even(k)
  <2> DEFINE a == Anc(n, k)
  <2>1. a \in 1 .. Len(Rows) /\ a \in 1 .. n
    BY <1>1, EvenLevel
  <2>2. /\ Elements(n, k) = Filled(n, a) /\ Parts(n, k) = MemberTexts(n, a, T(n))
        /\ Start(n, k) = Body(a) /\ First(n, k) = Comma(HasProperties(a))
        /\ Up(n, k) = StepUp(RowLevel(n, a))
        /\ Open(n, k) = <<PathOf(n)[k + 1]>> \o (IF IsMany(n, k + 1) THEN <<"[">> ELSE <<>>)
    BY <1>1 DEF Elements, Parts, Start, First, Up, Open
  <2>3. Texts(T(n), a + 1 .. n)
    <3>1. a + 1 .. n \subseteq 1 .. n
      <4> HIDE DEF a
      <4> QED BY <1>0, <2>1
    <3> QED BY <1>0, <3>1 DEF Texts
  <2> HIDE DEF a
  <2>4. Texts(MemberTexts(n, a, T(n)), DOMAIN Rows[a].expands)
    BY <2>1, <2>3, MembersAre
  <2>5. Numbers(Filled(n, a)) /\ Filled(n, a) \subseteq DOMAIN Rows[a].expands
    BY <2>1, NamesAre
  <2>6. Texts(MemberTexts(n, a, T(n)), Filled(n, a))
    BY <2>4, <2>5 DEF Texts
  <2>7. IsSeq(Body(a)) /\ IsSeq(Comma(HasProperties(a)))
    BY <2>1, BodyIs, CommaIs DEF Sound
  <2>8. IsSeq(StepUp(RowLevel(n, a)))
    BY <2>1, RowLevelIs
  <2>9. IsSeq(Open(n, k))
    <3>1. IsSeq(<<PathOf(n)[k + 1]>>) /\ IsSeq(<<"[">>) /\ IsSeq(<<>>)
      BY OneIsSeq
    <3>2. IsSeq(IF IsMany(n, k + 1) THEN <<"[">> ELSE <<>>)
      BY <3>1
    <3> QED BY <2>2, <3>1, <3>2, IsSeqConcat
  <2> QED BY <2>2, <2>5, <2>6, <2>7, <2>8, <2>9
<1>2. CASE ~Even(k)
  <2>1. /\ Elements(n, k) = Kids(n, n, k) /\ Parts(n, k) = T(n)
        /\ Start(n, k) = <<>> /\ First(n, k) = <<>> /\ Open(n, k) = <<>>
        /\ Up(n, k) = IF IsMany(n, k) THEN <<"]">> ELSE <<>>
    BY <1>2 DEF Elements, Parts, Start, First, Up, Open
  <2>2. IsSeq(<<>>) /\ IsSeq(<<"]">>)
    BY OneIsSeq
  <2>3. Kids(n, n, k) \subseteq 1 .. n
    BY DEF Kids
  <2>4. Numbers(Kids(n, n, k))
    <3>1. IsFiniteSet(1 .. n)
      BY <1>0, FS_Interval
    <3>2. IsFiniteSet(Kids(n, n, k))
      BY <2>3, <3>1, FS_Subset
    <3>3. Kids(n, n, k) \in SUBSET Nat
      BY <1>0, <2>3
    <3> QED BY <3>2, <3>3 DEF Numbers
  <2>5. Texts(T(n), Kids(n, n, k))
    BY <1>0, <2>3 DEF Texts
  <2>6. IsSeq(Up(n, k))
    BY <2>1, <2>2
  <2> QED BY <2>1, <2>2, <2>4, <2>5, <2>6
<1> QED BY <1>1, <1>2

LEMMA InnerIsSeq ==
    ASSUME Sound, NEW n \in 0 .. Len(Rows), NEW k, IsLevel(n, k)
    PROVE  /\ IsSeq(Inner(n, k)) /\ IsSeq(Q(n, k)) /\ IsSeq(Up(n, k))
           /\ \A S \in SUBSET Elements(n, k) :
                 /\ Numbers(S) /\ Texts(Parts(n, k), S)
                 /\ IsSeq(Start(n, k) \o Joined(First(n, k), Parts(n, k), S))
                 /\ IsSeq(Sep(S, First(n, k)) \o Open(n, k))
                 /\ IsSeq(Joined(First(n, k), Parts(n, k), S)) /\ IsSeq(Sep(S, First(n, k)))
<1>0. /\ Numbers(Elements(n, k)) /\ Texts(Parts(n, k), Elements(n, k))
      /\ IsSeq(Start(n, k)) /\ IsSeq(First(n, k)) /\ IsSeq(Up(n, k)) /\ IsSeq(Open(n, k))
  BY LevelParts
<1>1. ASSUME NEW S \in SUBSET Elements(n, k)
      PROVE  /\ Numbers(S) /\ Texts(Parts(n, k), S)
             /\ IsSeq(Start(n, k) \o Joined(First(n, k), Parts(n, k), S))
             /\ IsSeq(Sep(S, First(n, k)) \o Open(n, k))
             /\ IsSeq(Joined(First(n, k), Parts(n, k), S)) /\ IsSeq(Sep(S, First(n, k)))
  <2>1. Numbers(S)
    BY <1>0, FS_Subset DEF Numbers
  <2>2. Texts(Parts(n, k), S)
    BY <1>0 DEF Texts
  <2>3. IsSeq(Joined(First(n, k), Parts(n, k), S))
    BY <1>0, <2>1, <2>2, JoinedIsSeq
  <2>4. IsSeq(Sep(S, First(n, k)))
    BY <1>0, BeforeIs
  <2>5. IsSeq(Start(n, k) \o Joined(First(n, k), Parts(n, k), S))
    BY <1>0, <2>3, IsSeqConcat
  <2>6. IsSeq(Sep(S, First(n, k)) \o Open(n, k))
    BY <1>0, <2>4, IsSeqConcat
  <2> QED BY <2>1, <2>2, <2>3, <2>4, <2>5, <2>6
<1>2. IsSeq(Inner(n, k))
  <2>1. Elements(n, k) \in SUBSET Elements(n, k)
    OBVIOUS
  <2> QED BY <1>1, <2>1 DEF Inner
<1>3. IsSeq(Q(n, k))
  BY <1>0, <1>2, IsSeqConcat DEF Q
<1> QED BY <1>0, <1>1, <1>2, <1>3

\* The text of a level is that of its list, or of its row.
LEMMA QIs ==
    ASSUME Sound, NEW n \in 0 .. Len(Rows), NEW k, IsLevel(n, k)
    PROVE  /\ ~Even(k) => /\ Q(n, k) = List(T(n), Kids(n, n, k)) \o Up(n, k)
                          /\ IsSeq(List(T(n), Kids(n, n, k)))
                          /\ Up(n, k) = IF IsMany(n, k) THEN <<"]">> ELSE <<>>
           /\ Even(k) => Q(n, k) = T(n)[Anc(n, k)]
<1>1. CASE ~Even(k)
  <2>1. /\ Elements(n, k) = Kids(n, n, k) /\ Parts(n, k) = T(n)
        /\ Start(n, k) = <<>> /\ First(n, k) = <<>>
        /\ Up(n, k) = IF IsMany(n, k) THEN <<"]">> ELSE <<>>
    BY <1>1 DEF Elements, Parts, Start, First, Up
  <2>2. Numbers(Kids(n, n, k)) /\ Texts(T(n), Kids(n, n, k)) /\ IsSeq(<<>>)
    BY <2>1, LevelParts
  <2>3. List(T(n), Kids(n, n, k)) = Joined(<<>>, T(n), Kids(n, n, k))
    BY <2>2, ListIs
  <2>4. IsSeq(List(T(n), Kids(n, n, k)))
    BY <2>2, <2>3, JoinedIsSeq
  <2>5. <<>> \o List(T(n), Kids(n, n, k)) = List(T(n), Kids(n, n, k))
    BY <2>4, ConcatNone
  <2>6. Inner(n, k) = List(T(n), Kids(n, n, k))
    BY Zenon, <2>1, <2>3, <2>5 DEF Inner
  <2> QED BY Zenon, <1>1, <2>1, <2>4, <2>6 DEF Q
<1>2. CASE Even(k)
  <2> DEFINE a == Anc(n, k)
  <2>1. a \in 1 .. Len(Rows) /\ a \in 1 .. n /\ n \in Nat
    BY <1>2, EvenLevel, NIs
  <2>2. /\ Elements(n, k) = Filled(n, a) /\ Parts(n, k) = MemberTexts(n, a, T(n))
        /\ Start(n, k) = Body(a) /\ First(n, k) = Comma(HasProperties(a))
        /\ Up(n, k) = StepUp(RowLevel(n, a))
    BY <1>2 DEF Elements, Parts, Start, First, Up
  <2>3. T(n)[a] = RowText(n, a, T(n)) /\ Texts(T(n), 1 .. n)
    BY <2>1, TextsAre
  <2> HIDE DEF a
  <2>4. Texts(T(n), a + 1 .. n)
    <3>1. a + 1 .. n \subseteq 1 .. n
      BY <2>1
    <3> QED BY <2>3, <3>1 DEF Texts
  <2>5. RowText(n, a, T(n)) =
            (Body(a) \o Joined(Comma(HasProperties(a)), MemberTexts(n, a, T(n)), Filled(n, a)))
            \o StepUp(RowLevel(n, a))
    BY <2>1, <2>4, RowTextIs
  <2>6. Q(n, k) = T(n)[a]
    BY Zenon, <2>2, <2>3, <2>5 DEF Q, Inner
  <2> QED BY <1>2, <2>6 DEF a
<1> QED BY <1>1, <1>2

\* The text of the element that the row is below.
LEMMA LastPart ==
    ASSUME Sound, NEW n \in 0 .. Len(Rows), NEW k, IsLevel(n, k), k < Len(PathOf(n))
    PROVE  /\ Parts(n, k)[LastOf(n, k)] = Open(n, k) \o Q(n, k + 1)
           /\ IsLevel(n, k + 1)
<1>1. k \in Nat \ {0} /\ IsLevel(n, k + 1)
  <2>1. k \in Nat \ {0}
    BY DEF IsLevel
  <2>2. Len(PathOf(n)) \in Nat
    BY NIs
  <2> DEFINE l == Len(PathOf(n))
  <2>3. k < l /\ l \in Nat
    BY <2>2
  <2> HIDE DEF l
  <2>4. k + 1 \in Nat \ {0} /\ k + 1 <= l
    BY <2>1, <2>3
  <2> QED BY <2>1, <2>4 DEF IsLevel, l
<1>2. CASE ~Even(k)
  <2>1. Even(k + 1)
    BY <1>1, <1>2, Parity
  <2>2. Q(n, k + 1) = T(n)[Anc(n, k + 1)]
    BY <1>1, <2>1, QIs
  <2>3. Parts(n, k) = T(n) /\ LastOf(n, k) = Anc(n, k + 1) /\ Open(n, k) = <<>>
    BY <1>2 DEF Parts, LastOf, Open
  <2>4. <<>> \o Q(n, k + 1) = Q(n, k + 1)
    BY <1>1, InnerIsSeq, ConcatNone
  <2> QED BY Zenon, <1>1, <2>2, <2>3, <2>4
<1>3. CASE Even(k)
  <2> DEFINE a == Anc(n, k)
             p == PathOf(n)[k + 1]
             K == Kids(n, n, k + 1)
             ls == List(T(n), K)
  <2>1. ~Even(k + 1) /\ k + 1 # 1 /\ k + 1 - 1 = k
    BY <1>1, <1>3, Parity
  <2>2. n \in 1 .. Len(Rows) /\ k \in Nat \ {0} /\ a \in 1 .. Len(Rows)
    BY <1>3, EvenLevel
  <2>3. Of(n, a, p) = K /\ K # {} /\ p \in Filled(n, a)
    BY <1>3, <2>2, FilledLast
  <2>4. /\ Q(n, k + 1) = ls \o Up(n, k + 1) /\ IsSeq(ls)
        /\ Up(n, k + 1) = IF IsMany(n, k + 1) THEN <<"]">> ELSE <<>>
    BY <1>1, <2>1, QIs
  <2>5. IsMany(n, k + 1) <=> Rows[a].expands[p] = "many"
    <3> DEFINE kk == k + 1
    <3>0. k \in Nat \ {0}
      BY <1>1
    <3>1. kk # 1 /\ kk - 1 = k
      BY <3>0
    <3> HIDE DEF kk
    <3>2. IsMany(n, kk) <=> Rows[Anc(n, k)].expands[PathOf(n)[kk]] = "many"
      BY <3>1 DEF IsMany
    <3> QED BY <3>2 DEF kk
  <2>6. /\ Parts(n, k) = MemberTexts(n, a, T(n)) /\ LastOf(n, k) = p
        /\ Open(n, k) = <<p>> \o (IF IsMany(n, k + 1) THEN <<"[">> ELSE <<>>)
    BY <1>3 DEF Parts, LastOf, Open
  <2>7. p \in DOMAIN Rows[a].expands
    BY <2>3 DEF Filled
  <2>8. Parts(n, k)[p] = Member(T(n), Of(n, a, p), Rows[a].expands[p] = "many", p)
    BY <2>6, <2>7 DEF MemberTexts
  <2> HIDE DEF a, p, K, ls
  <2>9. IsSeq(<<p>>) /\ IsSeq(<<"[">>) /\ IsSeq(<<"]">>) /\ IsSeq(<<>>)
    BY OneIsSeq
  <2>10. CASE IsMany(n, k + 1)
    <3>1. Parts(n, k)[p] = <<p>> \o ((<<"[">> \o ls) \o <<"]">>)
      BY <2>3, <2>5, <2>8, <2>10 DEF Member, ls
    <3>2. (<<"[">> \o ls) \o <<"]">> = <<"[">> \o (ls \o <<"]">>) /\ IsSeq(ls \o <<"]">>)
      BY <2>4, <2>9, ConcatAssoc, IsSeqConcat
    <3>3. (<<p>> \o <<"[">>) \o (ls \o <<"]">>) = <<p>> \o (<<"[">> \o (ls \o <<"]">>))
      BY SMTT(60), <2>9, <3>2, ConcatAssoc
    <3>4. Q(n, k + 1) = ls \o <<"]">> /\ Open(n, k) = <<p>> \o <<"[">>
      BY <2>4, <2>6, <2>10
    <3> QED BY Zenon, <1>1, <2>6, <3>1, <3>2, <3>3, <3>4
  <2>11. CASE ~IsMany(n, k + 1)
    <3>1. Parts(n, k)[p] = <<p>> \o ls
      BY <2>3, <2>5, <2>8, <2>11 DEF Member, ls
    <3>2. ls \o <<>> = ls /\ <<p>> \o <<>> = <<p>>
      BY <2>4, <2>9, ConcatNone
    <3>3. Q(n, k + 1) = ls \o <<>> /\ Open(n, k) = <<p>> \o <<>>
      BY <2>4, <2>6, <2>11
    <3> QED BY Zenon, <1>1, <2>6, <3>1, <3>2, <3>3
  <2> QED BY <2>10, <2>11
<1> QED BY <1>2, <1>3

\* The text of a level, but for what closes it, ends with that of the element
\* that the row is below.
LEMMA InnerIs ==
    ASSUME Sound, NEW n \in 0 .. Len(Rows), NEW k, IsLevel(n, k), k < Len(PathOf(n))
    PROVE  Inner(n, k) = Pre(n, k) \o Q(n, k + 1) /\ IsSeq(Pre(n, k))
<1> DEFINE S == Others(n, k)
           p == LastOf(n, k)
           c == First(n, k)
           t == Parts(n, k)
           R == Elements(n, k)
           st == Start(n, k)
           op == Open(n, k)
           q == Q(n, k + 1)
<1>1. p \in R /\ \A x \in R : x <= p
  BY ElementsLast
<1>2. Numbers(R) /\ Texts(t, R) /\ IsSeq(st) /\ IsSeq(c) /\ IsSeq(op)
  BY LevelParts
<1>3. S \in SUBSET R
  BY DEF Others
<1>4. Numbers(S) /\ Texts(t, S) /\ IsSeq(Joined(c, t, S)) /\ IsSeq(Sep(S, c))
      /\ IsSeq(st \o Joined(c, t, S)) /\ IsSeq(Sep(S, c) \o op)
  BY <1>3, InnerIsSeq
<1>5. t[p] = op \o q /\ IsLevel(n, k + 1)
  BY LastPart
<1>6. IsSeq(q)
  BY <1>5, InnerIsSeq
<1>7. R = S \cup {p} /\ p \notin S
  BY <1>1 DEF Others
<1>8. Inner(n, k) = st \o Joined(c, t, R) /\ Pre(n, k) = (st \o Joined(c, t, S)) \o (Sep(S, c) \o op)
  BY Zenon DEF Inner, Pre
<1> HIDE DEF S, p, c, t, R, st, op, q
<1>9. p \in Nat /\ \A x \in S : x < p
  <2>1. R \in SUBSET Nat
    BY <1>2 DEF Numbers
  <2>2. p \in Nat
    BY <1>1, <2>1
  <2>3. ASSUME NEW x \in S PROVE x < p
    <3>1. x \in Nat /\ x # p /\ x <= p
      BY <1>1, <1>7, <2>1
    <3> QED BY <2>2, <3>1
  <2> QED BY <2>2, <2>3
<1>10. Joined(c, t, R) = With(c, t, S, p)
  BY <1>2, <1>4, <1>7, <1>9, JoinedAdd
<1>11. Joined(c, t, R) = Joined(c, t, S) \o (Sep(S, c) \o (op \o q))
  BY <1>5, <1>10 DEF With
<1> DEFINE j == Joined(c, t, S)
           e == Sep(S, c)
           sj == st \o j
           eo == e \o op
           eoq == eo \o q
<1>12. /\ IsSeq(j) /\ IsSeq(e) /\ IsSeq(sj) /\ IsSeq(eo) /\ IsSeq(q) /\ IsSeq(op) /\ IsSeq(st)
       /\ IsSeq(eoq)
  <2>1. IsSeq(eo) /\ IsSeq(q)
    BY <1>4, <1>6
  <2> HIDE DEF eo
  <2>2. IsSeq(eoq)
    BY <2>1, IsSeqConcat
  <2> QED BY <1>2, <1>4, <1>6, <2>2 DEF eo
<1> HIDE DEF j, e, eoq
<1>13. e \o (op \o q) = (e \o op) \o q
  <2>1. IsSeq(e) /\ IsSeq(op) /\ IsSeq(q)
    BY <1>12
  <2> QED BY SMTT(60), <2>1, ConcatAssoc
<1>14. st \o (j \o eoq) = (st \o j) \o eoq
  <2>1. IsSeq(st) /\ IsSeq(j) /\ IsSeq(eoq)
    BY <1>12
  <2> HIDE DEF eoq
  <2> QED BY SMTT(60), <2>1, ConcatAssoc
<1> HIDE DEF sj, eo
<1>15. sj \o (eo \o q) = (sj \o eo) \o q
  <2>1. IsSeq(sj) /\ IsSeq(eo) /\ IsSeq(q)
    BY <1>12
  <2> QED BY SMTT(60), <2>1, ConcatAssoc
<1>16. IsSeq(sj \o eo)
  BY <1>12, IsSeqConcat
<1>17. IsSeq(Pre(n, k)) /\ Pre(n, k) = sj \o eo
  BY Zenon, <1>8, <1>16 DEF sj, eo, j, e
<1>18. Inner(n, k) = Pre(n, k) \o q
  BY Zenon, <1>8, <1>11, <1>13, <1>14, <1>15, <1>17 DEF sj, eo, j, e, eoq
<1> QED BY <1>17, <1>18 DEF q

----------------------------------------------------------------------------
(* From one row to the next                                                *)
\* Row n + 1 is put below the t-th level of row n, and the k-th stays open.
Stays(n, t, k) == IsTop(n, t) /\ k \in Nat \ {0} /\ k <= t

LEMMA StaysIs ==
    ASSUME Sound, NEW n \in 0 .. Len(Rows), n < Len(Rows), NEW t, NEW k, Stays(n, t, k)
    PROVE  /\ n \in Nat /\ n + 1 \in 0 .. Len(Rows) /\ n + 1 \in 1 .. Len(Rows)
           /\ k \in Nat \ {0} /\ IsLevel(n, k) /\ IsLevel(n + 1, k) /\ k < Len(PathOf(n + 1))
           /\ Agree(PathOf(n), PathOf(n + 1), k) /\ t \in Nat
           /\ PathOf(n) \in Seq(Nat) /\ PathOf(n + 1) \in Seq(Nat)
           /\ Len(PathOf(n)) \in Nat /\ Len(PathOf(n + 1)) \in Nat
<1>1. n \in Nat /\ n + 1 \in 0 .. Len(Rows) /\ n + 1 \in 1 .. Len(Rows)
  <2>1. Len(Rows) \in Nat
    BY NIs
  <2> QED BY <2>1
<1>2. /\ PathOf(n) \in Seq(Nat) /\ PathOf(n + 1) \in Seq(Nat)
      /\ Len(PathOf(n)) \in Nat /\ Len(PathOf(n + 1)) \in Nat
  BY <1>1, NIs
<1>3. IsTop(n, t) /\ k \in Nat \ {0} /\ k <= t
  BY DEF Stays
<1> DEFINE l == Len(PathOf(n))
           m == Len(PathOf(n + 1))
<1>4. t \in 1 .. l /\ t < m /\ Agree(PathOf(n), PathOf(n + 1), t) /\ l \in Nat /\ m \in Nat
  BY <1>2, <1>3 DEF IsTop
<1> HIDE DEF l, m
<1>5. t \in Nat /\ k <= l /\ k <= m /\ k < m /\ k \in Nat
  BY <1>3, <1>4
<1>6. Agree(PathOf(n), PathOf(n + 1), k)
  BY <1>2, <1>3, <1>4, <1>5, AgreeIs
<1>7. IsLevel(n, k) /\ IsLevel(n + 1, k) /\ k < Len(PathOf(n + 1))
  BY <1>3, <1>5 DEF IsLevel, l, m
<1> QED BY <1>1, <1>2, <1>3, <1>5, <1>6, <1>7

LEMMA AncStays ==
    ASSUME Sound, NEW n \in 0 .. Len(Rows), n < Len(Rows), NEW t, NEW k, Stays(n, t, k), Even(k)
    PROVE  /\ Anc(n + 1, k) = Anc(n, k) /\ Anc(n, k) \in 1 .. Len(Rows) /\ Anc(n, k) \in 1 .. n
           /\ IsAnc(Anc(n, k), n, k) /\ IsAnc(Anc(n, k), n + 1, k)
           /\ n \in 1 .. Len(Rows) /\ PathOf(Anc(n, k)) \in Seq(Nat)
<1>1. /\ n + 1 \in 1 .. Len(Rows) /\ k \in Nat \ {0} /\ IsLevel(n, k) /\ IsLevel(n + 1, k)
      /\ Agree(PathOf(n), PathOf(n + 1), k) /\ n + 1 \in 0 .. Len(Rows)
  BY StaysIs
<1>2. n \in 1 .. Len(Rows) /\ k <= Len(PathOf(n)) /\ Anc(n, k) \in 1 .. n
  BY <1>1, EvenLevel
<1>3. k <= Len(PathOf(n + 1))
  BY <1>1 DEF IsLevel
<1>4. Anc(n + 1, k) = Anc(n, k)
  BY <1>1, <1>2, AncShared
<1>5. IsAnc(Anc(n, k), n, k) /\ Anc(n, k) \in 1 .. Len(Rows)
  BY <1>1, <1>2, AncIs
<1>6. IsAnc(Anc(n + 1, k), n + 1, k)
  BY <1>1, <1>3, AncIs
<1>7. PathOf(Anc(n, k)) \in Seq(Nat)
  <2>1. Anc(n, k) \in 0 .. Len(Rows)
    BY <1>5
  <2> QED BY <2>1, NIs
<1> QED BY <1>2, <1>4, <1>5, <1>6, <1>7

LEMMA EvenElements ==
    ASSUME Sound, NEW n \in 0 .. Len(Rows), n < Len(Rows), NEW t, NEW k, Stays(n, t, k), Even(k)
    PROVE  \A p : /\ Of(n, Anc(n, k), p) # {} => Of(n + 1, Anc(n, k), p) # {}
                  /\ p # PathOf(n + 1)[k + 1] => Of(n + 1, Anc(n, k), p) = Of(n, Anc(n, k), p)
                  /\ \A j \in Of(n, Anc(n, k), p) : /\ j \in 1 .. n /\ Len(PathOf(j)) = k + 2
                                                    /\ Agree(PathOf(j), PathOf(n + 1), k)
                                                    /\ PathOf(j)[k + 1] = p
<1> TAKE p
<1> DEFINE a == Anc(n, k)
<1>1. a \in 1 .. Len(Rows) /\ IsAnc(a, n + 1, k) /\ PathOf(a) \in Seq(Nat)
  BY AncStays
<1>2. /\ n \in Nat /\ k \in Nat /\ PathOf(n + 1) \in Seq(Nat)
  BY StaysIs
<1> HIDE DEF a
<1>3. Len(PathOf(a)) = k /\ Agree(PathOf(a), PathOf(n + 1), k)
  BY <1>1 DEF IsAnc
<1>4. /\ IsOf(n, a, p) => Of(n + 1, a, p) = Of(n, a, p) \cup {n + 1}
      /\ ~IsOf(n, a, p) => Of(n + 1, a, p) = Of(n, a, p)
  BY <1>1, OfStep
<1>5. IsOf(n, a, p) => p = PathOf(n + 1)[k + 1]
  BY <1>3 DEF IsOf
<1>6. ASSUME NEW j \in Of(n, a, p)
      PROVE  /\ j \in 1 .. n /\ Len(PathOf(j)) = k + 2
             /\ Agree(PathOf(j), PathOf(n + 1), k)
             /\ PathOf(j)[k + 1] = p
  <2>1. /\ j \in 1 .. n /\ Len(PathOf(j)) = k + 2
        /\ Agree(PathOf(a), PathOf(j), k) /\ PathOf(j)[k + 1] = p
    BY <1>1, <1>3, <1>6, OfIs
  <2>2. j \in 0 .. Len(Rows)
    <3>1. Len(Rows) \in Nat
      BY NIs
    <3> QED BY <1>2, <2>1, <3>1
  <2>3. PathOf(j) \in Seq(Nat)
    BY <2>2, NIs
  <2>4. Agree(PathOf(j), PathOf(a), k)
    BY <1>1, <1>2, <2>1, <2>3, AgreeIs
  <2>5. Agree(PathOf(j), PathOf(n + 1), k)
    BY <1>1, <1>2, <1>3, <2>1, <2>3, AgreeIs
  <2> QED BY <2>1, <2>5
<1> QED BY <1>4, <1>5, <1>6 DEF a

LEMMA OddElements ==
    ASSUME Sound, NEW n \in 0 .. Len(Rows), n < Len(Rows), NEW t, NEW k, Stays(n, t, k), ~Even(k)
    PROVE  /\ Kids(n, n, k) = {j \in 1 .. n : Len(PathOf(j)) = k + 1 /\ Agree(PathOf(j), PathOf(n + 1), k)}
           /\ Kids(n + 1, n + 1, k) \subseteq Kids(n, n, k) \cup {Anc(n + 1, k + 1)}
           /\ Kids(n, n, k) \subseteq Kids(n + 1, n + 1, k)
<1>1. /\ n \in Nat /\ k \in Nat \ {0} /\ PathOf(n + 1) \in Seq(Nat) /\ PathOf(n) \in Seq(Nat)
      /\ Agree(PathOf(n), PathOf(n + 1), k) /\ n + 1 \in 1 .. Len(Rows) /\ Len(Rows) \in Nat
      /\ Agree(PathOf(n + 1), PathOf(n), k)
  <2>1. /\ n \in Nat /\ k \in Nat \ {0} /\ PathOf(n + 1) \in Seq(Nat) /\ PathOf(n) \in Seq(Nat)
        /\ Agree(PathOf(n), PathOf(n + 1), k) /\ n + 1 \in 1 .. Len(Rows) /\ Len(Rows) \in Nat
    BY StaysIs, NIs
  <2> QED BY <2>1, AgreeIs
<1>2. ASSUME NEW j \in 1 .. n
      PROVE  Agree(PathOf(j), PathOf(n), k) <=> Agree(PathOf(j), PathOf(n + 1), k)
  <2>1. j \in 0 .. Len(Rows)
    BY <1>1
  <2>2. PathOf(j) \in Seq(Nat)
    BY <2>1, NIs
  <2>3. ASSUME Agree(PathOf(j), PathOf(n), k) PROVE Agree(PathOf(j), PathOf(n + 1), k)
    BY <1>1, <2>2, <2>3 DEF Agree
  <2>4. ASSUME Agree(PathOf(j), PathOf(n + 1), k) PROVE Agree(PathOf(j), PathOf(n), k)
    BY <1>1, <2>2, <2>4 DEF Agree
  <2> QED BY <2>3, <2>4
<1>3. Kids(n, n, k) = {j \in 1 .. n : Len(PathOf(j)) = k + 1 /\ Agree(PathOf(j), PathOf(n + 1), k)}
  BY Zenon, <1>2 DEF Kids
<1>4. Kids(n, n, k) \subseteq Kids(n + 1, n + 1, k)
  <2>1. 1 .. n \subseteq 1 .. n + 1
    BY <1>1
  <2> QED BY Zenon, <1>3, <2>1 DEF Kids
<1>5. ASSUME NEW j \in Kids(n + 1, n + 1, k) PROVE j \in Kids(n, n, k) \cup {Anc(n + 1, k + 1)}
  <2>1. j \in 1 .. n + 1 /\ Len(PathOf(j)) = k + 1 /\ Agree(PathOf(j), PathOf(n + 1), k)
    BY <1>5 DEF Kids
  <2>2. CASE j \in 1 .. n
    BY <1>3, <2>1, <2>2
  <2>3. CASE j = n + 1
    <3> DEFINE m == k + 1
    <3>1. m \in Nat \ {0} /\ Even(m) /\ Len(PathOf(n + 1)) = m
      BY <1>1, <2>1, <2>3, Parity
    <3>2. m <= Len(PathOf(n + 1))
      BY <3>1
    <3> HIDE DEF m
    <3>3. Anc(n + 1, m) = n + 1
      BY <1>1, <3>1, <3>2, AncIs
    <3> QED BY <2>3, <3>3 DEF m
  <2> QED BY <1>1, <2>1, <2>2, <2>3
<1> QED BY <1>3, <1>4, <1>5

\* The level has the element that row n + 1 is below, and those it had.
LEMMA ElementsStep ==
    ASSUME Sound, NEW n \in 0 .. Len(Rows), n < Len(Rows), NEW t, NEW k, Stays(n, t, k)
    PROVE  /\ Elements(n + 1, k) = Elements(n, k) \cup {LastOf(n + 1, k)}
           /\ Others(n + 1, k) = Elements(n, k) \ {LastOf(n + 1, k)}
<1>0. IsLevel(n + 1, k) /\ k < Len(PathOf(n + 1)) /\ n + 1 \in 0 .. Len(Rows)
  BY StaysIs
<1>1. LastOf(n + 1, k) \in Elements(n + 1, k)
  BY <1>0, ElementsLast
<1>2. Elements(n + 1, k) \subseteq Elements(n, k) \cup {LastOf(n + 1, k)}
      /\ Elements(n, k) \subseteq Elements(n + 1, k)
  <2>1. CASE Even(k)
    <3> DEFINE a == Anc(n, k)
    <3>1. /\ Elements(n + 1, k) = Filled(n + 1, a) /\ Elements(n, k) = Filled(n, a)
          /\ LastOf(n + 1, k) = PathOf(n + 1)[k + 1]
      BY <2>1, AncStays DEF Elements, LastOf
    <3>2. \A p : /\ Of(n, a, p) # {} => Of(n + 1, a, p) # {}
                 /\ p # PathOf(n + 1)[k + 1] => Of(n + 1, a, p) = Of(n, a, p)
      BY <2>1, EvenElements
    <3> HIDE DEF a
    <3> QED BY Zenon, <3>1, <3>2 DEF Filled
  <2>2. CASE ~Even(k)
    BY <2>2, OddElements DEF Elements, LastOf
  <2> QED BY <2>1, <2>2
<1> QED BY <1>1, <1>2 DEF Others

\* It is another one at the level the row is put below only.
LEMMA LastStep ==
    ASSUME Sound, NEW n \in 0 .. Len(Rows), n < Len(Rows), NEW t, NEW k, Stays(n, t, k)
    PROVE  /\ k < t => /\ LastOf(n + 1, k) = LastOf(n, k) /\ Elements(n + 1, k) = Elements(n, k)
                       /\ Others(n + 1, k) = Others(n, k)
           /\ k = t => LastOf(n + 1, k) \notin Elements(n, k) /\ Others(n + 1, k) = Elements(n, k)
<1>0. /\ IsLevel(n, k) /\ IsLevel(n + 1, k) /\ k < Len(PathOf(n + 1)) /\ n + 1 \in 0 .. Len(Rows)
      /\ t \in Nat /\ k \in Nat \ {0} /\ n \in Nat /\ IsTop(n, t) /\ n + 1 \in 1 .. Len(Rows)
      /\ Len(PathOf(n)) \in Nat
  BY StaysIs DEF Stays
<1>1. /\ Elements(n + 1, k) = Elements(n, k) \cup {LastOf(n + 1, k)}
      /\ Others(n + 1, k) = Elements(n, k) \ {LastOf(n + 1, k)}
  BY ElementsStep
<1>2. ASSUME k < t PROVE LastOf(n + 1, k) = LastOf(n, k) /\ LastOf(n, k) \in Elements(n, k)
  <2>1. k + 1 <= t /\ k + 1 \in Nat \ {0}
    BY <1>0, <1>2
  <2>2. Stays(n, t, k + 1)
    BY <1>0, <2>1 DEF Stays
  <2>3. IsLevel(n, k + 1) /\ Agree(PathOf(n), PathOf(n + 1), k + 1)
    BY <2>2, StaysIs
  <2>4. k < Len(PathOf(n))
    <3> DEFINE l == Len(PathOf(n))
    <3>1. k + 1 <= l /\ l \in Nat
      BY <1>0, <2>3 DEF IsLevel
    <3> HIDE DEF l
    <3>2. k < l
      BY <1>0, <3>1
    <3> QED BY <3>2 DEF l
  <2>5. LastOf(n, k) \in Elements(n, k)
    BY <1>0, <2>4, ElementsLast
  <2>6. CASE Even(k)
    <3>1. PathOf(n + 1)[k + 1] = PathOf(n)[k + 1]
      BY <1>0, <2>3 DEF Agree
    <3> QED BY <2>5, <2>6, <3>1 DEF LastOf
  <2>7. CASE ~Even(k)
    <3>1. Even(k + 1)
      BY <1>0, <2>7, Parity
    <3>2. Anc(n + 1, k + 1) = Anc(n, k + 1)
      BY <2>2, <3>1, AncStays
    <3> QED BY <2>5, <2>7, <3>2 DEF LastOf
  <2> QED BY <2>6, <2>7
<1>3. ASSUME k < t PROVE /\ Elements(n + 1, k) = Elements(n, k) /\ Others(n + 1, k) = Others(n, k)
  BY <1>1, <1>2, <1>3 DEF Others
<1>4. ASSUME k = t PROVE LastOf(n + 1, k) \notin Elements(n, k)
  <2>1. CASE Even(k)
    <3> DEFINE p == PathOf(n + 1)[k + 1]
    <3>1. \A j \in 1 .. n : Agree(PathOf(j), PathOf(n + 1), k) /\ k < Len(PathOf(j))
                            => PathOf(j)[k + 1] < PathOf(n + 1)[k + 1]
      BY <1>0, <1>4, <2>1, Attach
    <3>2. \A j \in Of(n, Anc(n, k), p) : /\ j \in 1 .. n /\ Len(PathOf(j)) = k + 2
                                         /\ Agree(PathOf(j), PathOf(n + 1), k)
                                         /\ PathOf(j)[k + 1] = p
      BY <2>1, EvenElements
    <3>3. p \in Nat
      <4>1. PathOf(n + 1) \in Seq(Nat)
        BY StaysIs
      <4> DEFINE m == Len(PathOf(n + 1))
      <4>2. k < m /\ m \in Nat
        BY <1>0, NIs
      <4> HIDE DEF m
      <4>3. k + 1 \in 1 .. m
        BY <1>0, <4>2
      <4> QED BY <4>1, <4>3 DEF m
    <3> HIDE DEF p
    <3>4. Of(n, Anc(n, k), p) = {}
      <4>1. ASSUME NEW j \in Of(n, Anc(n, k), p) PROVE FALSE
        <5>1. j \in 1 .. n /\ Len(PathOf(j)) = k + 2 /\ Agree(PathOf(j), PathOf(n + 1), k)
              /\ PathOf(j)[k + 1] = p
          BY <3>2
        <5>2. k < Len(PathOf(j))
          BY <1>0, <5>1
        <5>3. PathOf(j)[k + 1] < p
          BY <3>1, <5>1, <5>2 DEF p
        <5> QED BY <3>3, <5>1, <5>3
      <4> QED BY <4>1
    <3>5. LastOf(n + 1, k) = p /\ Elements(n, k) = Filled(n, Anc(n, k))
      BY <2>1 DEF LastOf, Elements, p
    <3> QED BY <3>4, <3>5 DEF Filled
  <2>2. CASE ~Even(k)
    <3>1. Len(PathOf(n + 1)) = k + 1
      BY <1>0, <1>4, <2>2, Attach
    <3> DEFINE m == k + 1
    <3>0. Even(m) /\ m \in Nat \ {0} /\ m <= m
      BY <1>0, <2>2, Parity
    <3> HIDE DEF m
    <3>2. m <= Len(PathOf(n + 1)) /\ m = Len(PathOf(n + 1)) /\ Even(m) /\ m \in Nat \ {0}
      BY Zenon, <3>0, <3>1 DEF m
    <3>3. Anc(n + 1, m) = n + 1
      BY <1>0, <3>2, AncIs
    <3>4. LastOf(n + 1, k) = n + 1 /\ Elements(n, k) = Kids(n, n, k)
      BY <2>2, <3>3 DEF LastOf, Elements, m
    <3>5. Kids(n, n, k) \subseteq 1 .. n
      BY DEF Kids
    <3> QED BY <1>0, <3>4, <3>5
  <2> QED BY <2>1, <2>2
<1>5. ASSUME k = t PROVE Others(n + 1, k) = Elements(n, k)
  BY <1>1, <1>4, <1>5
<1> QED BY <1>2, <1>3, <1>4, <1>5

\* The other elements have the texts they had.
LEMMA PartsStep ==
    ASSUME Sound, NEW n \in 0 .. Len(Rows), n < Len(Rows), NEW t, NEW k, Stays(n, t, k)
    PROVE  /\ \A x \in Others(n + 1, k) : Parts(n + 1, k)[x] = Parts(n, k)[x]
           /\ Start(n + 1, k) = Start(n, k) /\ First(n + 1, k) = First(n, k)
<1>0. /\ n + 1 \in 0 .. Len(Rows) /\ n + 1 \in 1 .. Len(Rows) /\ Len(Rows) \in Nat
      /\ k \in Nat \ {0} /\ n \in Nat /\ k < Len(PathOf(n + 1))
      /\ PathOf(n + 1) \in Seq(Nat)
  BY StaysIs, NIs
<1>1. Others(n + 1, k) = Elements(n, k) \ {LastOf(n + 1, k)}
  BY ElementsStep
<1>2. CASE Even(k)
  <2> DEFINE a == Anc(n, k)
             p == PathOf(n + 1)[k + 1]
  <2>1. /\ Anc(n + 1, k) = a /\ a \in 1 .. Len(Rows) /\ a \in 1 .. n
    BY <1>2, AncStays
  <2>2. /\ Elements(n, k) = Filled(n, a) /\ LastOf(n + 1, k) = p
        /\ Parts(n + 1, k) = MemberTexts(n + 1, a, T(n + 1)) /\ Parts(n, k) = MemberTexts(n, a, T(n))
        /\ Start(n + 1, k) = Start(n, k) /\ First(n + 1, k) = First(n, k)
    BY <1>2, <2>1 DEF Elements, LastOf, Parts, Start, First
  <2>3. ASSUME NEW x \in Filled(n, a), x # p
        PROVE  MemberTexts(n + 1, a, T(n + 1))[x] = MemberTexts(n, a, T(n))[x]
    <3> DEFINE S == Of(n, a, x)
    <3>1. Of(n + 1, a, x) = S
      BY <1>2, <2>3, EvenElements
    <3>2. Numbers(S)
      BY <2>1, NamesAre
    <3>3. \A j \in S : /\ j \in 1 .. n /\ Len(PathOf(j)) = k + 2
                       /\ Agree(PathOf(j), PathOf(n + 1), k) /\ PathOf(j)[k + 1] = x
      BY <1>2, EvenElements
    <3> HIDE DEF S
    <3>4. ASSUME NEW j \in S PROVE T(n + 1)[j] = T(n)[j]
      <4>1. j \in 1 .. n /\ Len(PathOf(j)) = k + 2 /\ PathOf(j)[k + 1] = x
        BY <3>3
      <4>2. k + 1 \in 1 .. k + 2
        BY <1>0
      <4>3. Aside(n, j)
        BY <2>3, <4>1, <4>2 DEF Aside, Agree
      <4> QED BY <4>1, <4>3, AsideStays
    <3>5. List(T(n + 1), S) = List(T(n), S)
      BY <3>2, <3>4, ListSame
    <3>6. x \in DOMAIN Rows[a].expands
      BY <2>3 DEF Filled
    <3>7. MemberTexts(n + 1, a, T(n + 1))[x] = Member(T(n + 1), S, Rows[a].expands[x] = "many", x)
      BY <3>1, <3>6 DEF MemberTexts
    <3>8. MemberTexts(n, a, T(n))[x] = Member(T(n), S, Rows[a].expands[x] = "many", x)
      BY <3>6 DEF MemberTexts, S
    <3>9. Member(T(n + 1), S, Rows[a].expands[x] = "many", x) = Member(T(n), S, Rows[a].expands[x] = "many", x)
      BY <3>5 DEF Member
    <3> QED BY Zenon, <3>7, <3>8, <3>9
  <2> HIDE DEF a, p
  <2> QED BY <1>1, <2>2, <2>3
<1>3. CASE ~Even(k)
  <2> DEFINE c == Anc(n + 1, k + 1)
  <2>1. /\ Elements(n, k) = Kids(n, n, k) /\ LastOf(n + 1, k) = c
        /\ Parts(n + 1, k) = T(n + 1) /\ Parts(n, k) = T(n)
        /\ Start(n + 1, k) = Start(n, k) /\ First(n + 1, k) = First(n, k)
    BY <1>3 DEF Elements, LastOf, Parts, Start, First
  <2>2. ASSUME NEW x \in Kids(n, n, k), x # c PROVE T(n + 1)[x] = T(n)[x]
    <3>1. x \in 1 .. n /\ Len(PathOf(x)) = k + 1 /\ x \in 1 .. Len(Rows)
      BY <1>0, <2>2 DEF Kids
    <3>2. Aside(n, x)
      <4>1. ASSUME Agree(PathOf(x), PathOf(n + 1), Len(PathOf(x))) PROVE FALSE
        <5> DEFINE m == k + 1
        <5>1. m \in Nat \ {0} /\ Even(m)
          BY <1>0, <1>3, Parity
        <5>2. IsAnc(x, n + 1, m)
          BY <3>1, <4>1 DEF IsAnc
        <5>3. m <= Len(PathOf(n + 1))
          BY <3>1, <4>1 DEF Agree
        <5> HIDE DEF m
        <5>4. x = Anc(n + 1, m)
          BY <1>0, <3>1, <5>1, <5>2, <5>3, AncIs
        <5> QED BY <2>2, <5>4 DEF m
      <4> QED BY <4>1 DEF Aside
    <3> QED BY <3>1, <3>2, AsideStays
  <2> QED BY <1>1, <2>1, <2>2
<1> QED BY <1>2, <1>3

----------------------------------------------------------------------------
(* What closes the levels                                                  *)
\* What closes the levels below the k-th.
Down(n, k) == FlattenSeq([i \in 1 .. Len(PathOf(n)) - k |-> Up(n, Len(PathOf(n)) + 1 - i)])

LEMMA DownIs ==
    ASSUME Sound, NEW n \in 0 .. Len(Rows), NEW k \in Nat, k <= Len(PathOf(n))
    PROVE  /\ IsSeq(Down(n, k))
           /\ k = Len(PathOf(n)) => Down(n, k) = <<>>
           /\ \A j \in Nat : j + 1 = k => Down(n, j) = Down(n, k) \o Up(n, k) /\ IsSeq(Up(n, k))
<1> DEFINE l == Len(PathOf(n))
<1>0. l \in Nat /\ k <= l
  BY NIs
<1>1. \A i \in 1 .. l : IsSeq(Up(n, i))
  <2> TAKE i \in 1 .. l
  <2> HIDE DEF l
  <2>1. i \in Nat \ {0} /\ i <= l
    BY <1>0
  <2>2. IsLevel(n, i)
    BY <2>1 DEF IsLevel, l
  <2> QED BY <2>2, LevelParts
<1> HIDE DEF l
<1> DEFINE d == l - k
           g == [i \in 1 .. d |-> Up(n, l + 1 - i)]
<1>2. d \in Nat
  BY <1>0
<1>3. \A i \in 1 .. d : IsSeq(g[i]) /\ g[i] = Up(n, l + 1 - i)
  <2> TAKE i \in 1 .. d
  <2>1. l + 1 - i \in 1 .. l
    BY <1>0
  <2> HIDE DEF d
  <2> QED BY <1>1, <2>1
<1>4. Down(n, k) = FlattenSeq(g)
  BY DEF Down, l
<1>5. g = [i \in 1 .. d |-> g[i]]
  OBVIOUS
<1>6. DOMAIN g = 1 .. d
  OBVIOUS
<1> HIDE DEF g
<1>7. IsSeq(g) /\ Len(g) = d
  <2> HIDE DEF d
  <2> QED BY <1>2, <1>5, FunctionIsSeq
<1>8. IsSeq(FlattenSeq(g))
  BY <1>3, <1>6, <1>7, FlattenIsSeq
<1>9. ASSUME k = l PROVE Down(n, k) = <<>>
  <2>1. d = 0
    BY <1>0, <1>9
  <2>2. g = <<>>
    BY <1>7, <2>1
  <2> QED BY <1>4, <2>2, FlattenEmpty
<1>10. ASSUME NEW j \in Nat, j + 1 = k PROVE Down(n, j) = Down(n, k) \o Up(n, k) /\ IsSeq(Up(n, k))
  <2> DEFINE f == [i \in 1 .. d + 1 |-> Up(n, l + 1 - i)]
  <2>1. l - j = d + 1 /\ l + 1 - (d + 1) = k /\ k \in 1 .. l /\ d + 1 \in 1 .. d + 1
        /\ \A i \in 1 .. d : i \in 1 .. d + 1
    BY <1>0, <1>10
  <2>2. Down(n, j) = FlattenSeq(f)
    <3>1. Down(n, j) = FlattenSeq([i \in 1 .. l - j |-> Up(n, l + 1 - i)])
      BY DEF Down, l
    <3> QED BY <2>1, <3>1
  <2>3. f[d + 1] = Up(n, k)
    <3>1. f[d + 1] = Up(n, l + 1 - (d + 1))
      BY <2>1
    <3> QED BY <2>1, <3>1
  <2>4. \A i \in 1 .. d + 1 : IsSeq(f[i])
    <3> TAKE i \in 1 .. d + 1
    <3>1. l + 1 - i \in 1 .. l
      BY <1>0, <1>10
    <3> HIDE DEF d
    <3> QED BY <1>1, <3>1
  <2>5. \A i \in 1 .. d : g[i] = f[i]
    BY <1>3, <2>1
  <2>6. f = [i \in 1 .. d + 1 |-> f[i]]
    OBVIOUS
  <2> HIDE DEF f, d
  <2>7. FlattenSeq(f) = FlattenSeq(g) \o f[d + 1]
    BY <1>2, <1>5, <2>4, <2>5, <2>6, FlattenLast
  <2> QED BY <1>1, <1>4, <2>1, <2>2, <2>3, <2>7
<1> QED BY <1>4, <1>8, <1>9, <1>10 DEF l

\* A level, but for what closes it, ends with what closes the levels below.
Ends(n, k, W) == IsSeq(W) /\ Inner(n, k) = W \o Down(n, k)

LEMMA EndsLast ==
    ASSUME Sound, NEW n \in 0 .. Len(Rows)
    PROVE  /\ Ends(n, Len(PathOf(n)), Inner(n, Len(PathOf(n))))
           /\ n # 0 => Inner(n, Len(PathOf(n))) = Body(n)
           /\ n = 0 => Inner(n, 1) = <<>>
<1> DEFINE l == Len(PathOf(n))
<1>1. l \in Nat \ {0} /\ l <= l /\ n \in Nat
  <2>1. l \in Nat /\ l >= 1 /\ n \in Nat
    BY NIs
  <2> HIDE DEF l
  <2> QED BY <2>1
<1>2. IsLevel(n, l)
  BY <1>1 DEF IsLevel
<1>3. Down(n, l) = <<>>
  BY <1>1, DownIs
<1>4. IsSeq(Inner(n, l))
  BY <1>2, InnerIsSeq
<1>5. Inner(n, l) \o <<>> = Inner(n, l)
  BY <1>4, ConcatNone
<1>6. IsSeq(First(n, l)) /\ IsSeq(Start(n, l))
  BY <1>2, LevelParts
<1>7. ASSUME Elements(n, l) = {} PROVE Inner(n, l) = Start(n, l)
  <2>1. Joined(First(n, l), Parts(n, l), {}) = <<>>
    BY <1>6, JoinedNone
  <2>2. Start(n, l) \o <<>> = Start(n, l)
    BY <1>6, ConcatNone
  <2> QED BY Zenon, <1>7, <2>1, <2>2 DEF Inner
<1>8. ASSUME n # 0 PROVE Inner(n, l) = Body(n)
  <2>1. n \in 1 .. Len(Rows)
    BY <1>8, NIs
  <2>2. Even(l)
    BY <2>1, PathsAre DEF Sound
  <2>3. Anc(n, l) = n
    BY <1>1, <2>1, <2>2, AncIs
  <2>4. Elements(n, l) = Filled(n, n) /\ Start(n, l) = Body(n)
    BY Zenon, <2>2, <2>3 DEF Elements, Start
  <2>5. \A p : Of(n, n, p) = {}
    <3>1. n + 1 .. n = {}
      BY <1>1
    <3> QED BY <2>1, <3>1, OfAfter
  <2>6. Filled(n, n) = {}
    BY <2>5 DEF Filled
  <2> QED BY Zenon, <1>7, <2>4, <2>6
<1>9. ASSUME n = 0 PROVE Inner(n, 1) = <<>>
  <2>1. l = 1
    BY <1>9, NIs
  <2>2. ~Even(l)
    BY <2>1, OneIsOdd
  <2>3. Elements(n, l) = Kids(n, n, l) /\ Start(n, l) = <<>>
    BY Zenon, <2>2 DEF Elements, Start
  <2>4. Kids(n, n, l) = {}
    <3>1. 1 .. n = {}
      BY <1>9
    <3> QED BY <3>1 DEF Kids
  <2> QED BY Zenon, <1>7, <2>1, <2>3, <2>4
<1> QED BY <1>3, <1>4, <1>5, <1>8, <1>9 DEF Ends

LEMMA EndsQ ==
    ASSUME Sound, NEW n \in 0 .. Len(Rows), NEW k \in Nat, NEW m, m = k + 1, m <= Len(PathOf(n)),
           NEW W, Ends(n, m, W)
    PROVE  Q(n, m) = W \o Down(n, k)
<1>0. m \in Nat /\ IsLevel(n, m)
  BY DEF IsLevel
<1> DEFINE d == Down(n, m)
           u == Up(n, m)
<1>1. IsSeq(d) /\ IsSeq(u) /\ Down(n, k) = d \o u
  BY <1>0, DownIs
<1>2. IsSeq(W) /\ Inner(n, m) = W \o d
  BY DEF Ends
<1> HIDE DEF d
<1>3. Q(n, m) = (W \o d) \o u
  BY Zenon, <1>2 DEF Q
<1> HIDE DEF u
<1>4. (W \o d) \o u = W \o (d \o u)
  <2>1. IsSeq(W) /\ IsSeq(d) /\ IsSeq(u)
    BY <1>1, <1>2
  <2> QED BY SMTT(60), <2>1, ConcatAssoc
<1> QED BY Zenon, <1>1, <1>3, <1>4

LEMMA EndsUp ==
    ASSUME Sound, NEW n \in 0 .. Len(Rows), NEW k \in Nat \ {0}, k < Len(PathOf(n)),
           NEW W, Ends(n, k + 1, W)
    PROVE  Ends(n, k, Pre(n, k) \o W) /\ IsSeq(W) /\ IsSeq(Pre(n, k))
<1> DEFINE l == Len(PathOf(n))
           m == k + 1
<1>0. l \in Nat
  BY NIs
<1>1. m = k + 1 /\ m <= l /\ k <= l
  <2>1. k < l
    OBVIOUS
  <2> HIDE DEF l
  <2> QED BY <1>0, <2>1
<1> HIDE DEF l
<1>2. IsLevel(n, k)
  BY <1>1 DEF IsLevel, l
<1>3. Ends(n, m, W)
  OBVIOUS
<1> HIDE DEF m
<1>4. Q(n, m) = W \o Down(n, k)
  BY <1>1, <1>3, EndsQ DEF l
<1> DEFINE p == Pre(n, k)
           d == Down(n, k)
<1>5. Inner(n, k) = p \o Q(n, m) /\ IsSeq(p)
  BY <1>2, InnerIs DEF m
<1>6. IsSeq(d) /\ IsSeq(W)
  BY <1>1, <1>3, DownIs DEF l, Ends
<1> HIDE DEF p, d
<1>7. p \o (W \o d) = (p \o W) \o d
  <2>1. IsSeq(p) /\ IsSeq(W) /\ IsSeq(d)
    BY <1>5, <1>6
  <2> QED BY SMTT(60), <2>1, ConcatAssoc
<1>8. IsSeq(p \o W)
  BY <1>5, <1>6, IsSeqConcat
<1>9. Inner(n, k) = (p \o W) \o d
  BY Zenon, <1>4, <1>5, <1>7 DEF d
<1> QED BY <1>5, <1>6, <1>8, <1>9 DEF Ends, p, d

HasEnd(n, k) == \E W : Ends(n, k, W)

LEMMA EndsExist ==
    ASSUME Sound, NEW n \in 0 .. Len(Rows), NEW k \in Nat \ {0}, k <= Len(PathOf(n))
    PROVE  HasEnd(n, k)
<1> DEFINE l == Len(PathOf(n))
<1>0. l \in Nat /\ l >= 1 /\ k <= l
  BY NIs
<1> DEFINE P == {m \in Nat : m < l => HasEnd(n, l - m)}
<1>1. 0 \in P
  <2>1. HasEnd(n, l)
    BY EndsLast DEF HasEnd
  <2> HIDE DEF l
  <2>2. l - 0 = l
    BY <1>0
  <2> QED BY <2>1, <2>2
<1>2. \A m \in P : m + 1 \in P
  <2> TAKE m \in P
  <2>1. m \in Nat /\ (m < l => HasEnd(n, l - m))
    OBVIOUS
  <2> HIDE DEF P
  <2>2. ASSUME m + 1 < l PROVE HasEnd(n, l - (m + 1))
    <3> DEFINE x == l - (m + 1)
    <3> HIDE DEF l
    <3>1. x \in Nat \ {0} /\ x < l /\ x + 1 = l - m /\ m < l
      BY <1>0, <2>1, <2>2
    <3>2. PICK W : Ends(n, l - m, W)
      BY <2>1, <3>1 DEF HasEnd
    <3>3. Ends(n, x + 1, W)
      BY <3>1, <3>2
    <3>4. x < Len(PathOf(n))
      BY <3>1 DEF l
    <3> HIDE DEF x
    <3>5. Ends(n, x, Pre(n, x) \o W)
      BY <3>1, <3>3, <3>4, EndsUp
    <3> QED BY <3>5 DEF HasEnd, x
  <2>3. m + 1 \in Nat
    BY <2>1
  <2> QED BY <2>2, <2>3 DEF P
<1> HIDE DEF P
<1>3. P = Nat
  <2>1. P \in SUBSET Nat
    BY DEF P
  <2> QED BY <1>1, <1>2, <2>1, SetInduction
<1> HIDE DEF l
<1>4. l - k \in Nat /\ l - k < l /\ l - (l - k) = k
  BY <1>0
<1>5. HasEnd(n, l - (l - k))
  BY <1>3, <1>4 DEF P
<1> QED BY <1>4, <1>5

\* Levels above the one the row is put below begin and end as before.
LEMMA PreStep ==
    ASSUME Sound, NEW n \in 0 .. Len(Rows), n < Len(Rows), NEW t, NEW k, Stays(n, t, k), k < t
    PROVE  Pre(n + 1, k) = Pre(n, k)
<1>1. Others(n + 1, k) = Others(n, k)
  BY LastStep
<1>2. /\ \A x \in Others(n + 1, k) : Parts(n + 1, k)[x] = Parts(n, k)[x]
      /\ Start(n + 1, k) = Start(n, k) /\ First(n + 1, k) = First(n, k)
  BY PartsStep
<1>3. /\ IsLevel(n, k) /\ IsLevel(n + 1, k) /\ n + 1 \in 0 .. Len(Rows) /\ k \in Nat \ {0} /\ t \in Nat
  BY StaysIs
<1> DEFINE S == Others(n, k)
           c == First(n, k)
           f == Parts(n + 1, k)
           g == Parts(n, k)
<1>4. S \in SUBSET Elements(n, k)
  BY DEF Others
<1>5. Numbers(S) /\ IsSeq(c)
  BY <1>3, <1>4, InnerIsSeq, LevelParts
<1> HIDE DEF S, c, f, g
<1>6. \A x \in S : f[x] = g[x]
  BY <1>1, <1>2 DEF S, f, g
<1>7. Joined(c, f, S) = Joined(c, g, S)
  BY <1>5, <1>6, JoinedSame
<1>8. Open(n + 1, k) = Open(n, k)
  <2>1. CASE Even(k)
    <3>1. Anc(n + 1, k) = Anc(n, k)
      BY <2>1, AncStays
    <3>2. Stays(n, t, k + 1)
      <4>1. k + 1 \in Nat \ {0} /\ k + 1 <= t
        BY <1>3
      <4> QED BY <4>1 DEF Stays
    <3>3. Agree(PathOf(n), PathOf(n + 1), k + 1)
      BY <3>2, StaysIs
    <3> DEFINE m == k + 1
    <3>4. m # 1 /\ m - 1 = k /\ m \in 1 .. m
      BY <1>3
    <3>5. Agree(PathOf(n), PathOf(n + 1), m)
      BY <3>3
    <3> HIDE DEF m
    <3>6. PathOf(n + 1)[m] = PathOf(n)[m]
      BY <3>4, <3>5 DEF Agree
    <3>7. IsMany(n + 1, m) <=> IsMany(n, m)
      BY <3>1, <3>4, <3>6 DEF IsMany
    <3>8. /\ Open(n + 1, k) = <<PathOf(n + 1)[m]>> \o (IF IsMany(n + 1, m) THEN <<"[">> ELSE <<>>)
          /\ Open(n, k) = <<PathOf(n)[m]>> \o (IF IsMany(n, m) THEN <<"[">> ELSE <<>>)
      BY <2>1 DEF Open, m
    <3> QED BY <3>6, <3>7, <3>8
  <2>2. CASE ~Even(k)
    BY <2>2 DEF Open
  <2> QED BY <2>1, <2>2
<1> QED BY Zenon, <1>1, <1>2, <1>7, <1>8 DEF Pre, S, c, f, g

\* What the level ends with that the row is put below.
LEMMA EndsTop ==
    ASSUME Sound, NEW n \in 0 .. Len(Rows), n < Len(Rows), NEW t, IsTop(n, t)
    PROVE  /\ Ends(n + 1, t + 1, Body(n + 1))
           /\ Pre(n + 1, t) = Inner(n, t) \o (Sep(Elements(n, t), First(n, t)) \o Open(n + 1, t))
<1>0. /\ n \in Nat /\ n + 1 \in 1 .. Len(Rows) /\ n + 1 \in 0 .. Len(Rows) /\ t \in Nat \ {0}
      /\ n + 1 # 0 /\ t <= t
  <2>1. n \in Nat /\ n + 1 \in 1 .. Len(Rows) /\ t \in Nat /\ t >= 1
    BY Attach
  <2> QED BY <2>1
<1> DEFINE r == n + 1
           l == Len(PathOf(r))
<1>1. Ends(r, l, Body(r)) /\ IsSeq(Body(r))
  <2>1. Ends(r, l, Inner(r, l)) /\ Inner(r, l) = Body(r)
    BY <1>0, EndsLast
  <2> QED BY <2>1 DEF Ends
<1>2. Ends(r, t + 1, Body(r))
  <2>1. CASE ~Even(t)
    <3>1. l = t + 1
      BY <2>1, Attach
    <3> QED BY <1>1, <3>1
  <2>2. CASE Even(t)
    <3> DEFINE m == t + 1
    <3>1. l = t + 2 /\ l = m + 1 /\ m \in Nat \ {0} /\ m < l /\ ~Even(m)
      <4>1. l = t + 2
        BY <2>2, Attach
      <4> HIDE DEF l
      <4>2. l = m + 1 /\ m \in Nat \ {0} /\ m < l
        BY <1>0, <4>1
      <4>3. ~Even(m)
        BY <1>0, <2>2, Parity
      <4> QED BY <4>1, <4>2, <4>3
    <3>2. Ends(r, m + 1, Body(r))
      BY <1>1, <3>1
    <3> HIDE DEF m
    <3>3. Ends(r, m, Pre(r, m) \o Body(r))
      BY <1>0, <3>1, <3>2, EndsUp
    <3>4. Anc(r, m + 1) = r
      <4> DEFINE x == m + 1
      <4>1. x \in Nat \ {0} /\ Even(x) /\ x <= x
        <5>1. Even(t + 2)
          BY <1>0, <2>2, Twice
        <5>2. x = t + 2
          BY <1>0 DEF m
        <5> QED BY <3>1, <5>1, <5>2
      <4> HIDE DEF x
      <4>2. x = l
        BY <3>1 DEF x
      <4>3. x <= Len(PathOf(r))
        BY <4>1, <4>2
      <4>4. Anc(r, x) = r
        BY <1>0, <4>1, <4>2, <4>3, AncIs
      <4> QED BY <4>4 DEF x
    <3>5. Others(r, m) = {}
      <4>1. Others(r, m) = Kids(r, r, m) \ {r}
        BY <3>1, <3>4 DEF Others, Elements, LastOf
      <4>2. ASSUME NEW j \in Kids(r, r, m), j # r PROVE FALSE
        <5>1. j \in 1 .. n + 1 /\ Len(PathOf(j)) = m + 1 /\ Agree(PathOf(j), PathOf(n + 1), m)
          BY <4>2 DEF Kids
        <5>2. j \in 1 .. n /\ j \in 0 .. Len(Rows)
          BY <1>0, <4>2, <5>1, NIs
        <5>3. PathOf(j) \in Seq(Nat) /\ PathOf(n + 1) \in Seq(Nat) /\ Len(PathOf(j)) \in Nat
          BY <1>0, <5>2, NIs
        <5>4. t <= m /\ t < m + 1 /\ m \in 1 .. m /\ t + 1 = m
          BY <1>0 DEF m
        <5>5. Agree(PathOf(j), PathOf(n + 1), t)
          BY <1>0, <3>1, <5>1, <5>3, <5>4, AgreeIs
        <5>6. t < Len(PathOf(j))
          BY <5>1, <5>4
        <5>7. PathOf(j)[t + 1] < PathOf(n + 1)[t + 1]
          BY <2>2, <5>2, <5>5, <5>6, Attach
        <5>8. PathOf(j)[m] = PathOf(n + 1)[m]
          BY <5>1, <5>4 DEF Agree
        <5>9. PathOf(j)[m] \in Nat
          <6>1. m \in 1 .. Len(PathOf(j))
            BY <3>1, <5>1
          <6> QED BY <5>3, <6>1
        <5> QED BY <5>4, <5>7, <5>8, <5>9
      <4> QED BY <4>1, <4>2
    <3>6. Start(r, m) = <<>> /\ First(r, m) = <<>> /\ Open(r, m) = <<>>
      BY <3>1 DEF Start, First, Open
    <3>7. Joined(<<>>, Parts(r, m), {}) = <<>> /\ Sep({}, <<>>) = <<>> /\ IsSeq(<<>>)
      <4>1. IsSeq(<<>>)
        BY OneIsSeq
      <4> QED BY <4>1, JoinedNone DEF Sep
    <3>8. <<>> \o <<>> = <<>> /\ <<>> \o Body(r) = Body(r)
      BY <1>1, <3>7, ConcatNone
    <3>9. Pre(r, m) \o Body(r) = Body(r)
      BY Zenon, <3>5, <3>6, <3>7, <3>8 DEF Pre
    <3>10. Ends(r, m, Body(r))
      BY Zenon, <3>3, <3>9
    <3> QED BY <3>10 DEF m
  <2> QED BY <2>1, <2>2
<1>3. Stays(n, t, t)
  BY <1>0 DEF Stays
<1>4. Others(n + 1, t) = Elements(n, t)
  BY <1>3, LastStep
<1>5. /\ \A x \in Others(n + 1, t) : Parts(n + 1, t)[x] = Parts(n, t)[x]
      /\ Start(n + 1, t) = Start(n, t) /\ First(n + 1, t) = First(n, t)
  BY <1>3, PartsStep
<1>6. IsLevel(n, t)
  BY <1>3, StaysIs
<1>7. Numbers(Elements(n, t)) /\ IsSeq(First(n, t))
  BY <1>6, LevelParts
<1> DEFINE S == Elements(n, t)
           c == First(n, t)
           f == Parts(n + 1, t)
           g == Parts(n, t)
<1> HIDE DEF S, c, f, g
<1>8. Numbers(S) /\ IsSeq(c) /\ \A x \in S : f[x] = g[x]
  BY <1>4, <1>5, <1>7 DEF S, c, f, g
<1>9. Joined(c, f, S) = Joined(c, g, S)
  BY <1>8, JoinedSame
<1>10. Pre(n + 1, t) = Inner(n, t) \o (Sep(Elements(n, t), First(n, t)) \o Open(n + 1, t))
  BY Zenon, <1>4, <1>5, <1>9 DEF Pre, Inner, S, c, f, g
<1> QED BY <1>2, <1>10

\* The text between row n and row n + 1, which is put below level t.
Gap(n, t) == Down(n, t) \o (Sep(Elements(n, t), First(n, t)) \o Open(n + 1, t))
Delta(n, t) == Gap(n, t) \o Body(n + 1)
\* Both results begin with the same up to level k.
Common(n, t, k) == \E W : Ends(n, k, W) /\ Ends(n + 1, k, W \o Delta(n, t))

LEMMA GapIs ==
    ASSUME Sound, NEW n \in 0 .. Len(Rows), n < Len(Rows), NEW t, IsTop(n, t)
    PROVE  /\ IsSeq(Gap(n, t)) /\ IsSeq(Body(n + 1)) /\ IsSeq(Delta(n, t)) /\ IsSeq(Down(n, t))
           /\ IsSeq(Sep(Elements(n, t), First(n, t)) \o Open(n + 1, t))
           /\ t \in Nat \ {0} /\ Stays(n, t, t) /\ t <= Len(PathOf(n)) /\ t < Len(PathOf(n + 1))
           /\ n + 1 \in 0 .. Len(Rows) /\ IsSeq(Open(n + 1, t)) /\ IsSeq(Sep(Elements(n, t), First(n, t)))
<1>1. t \in Nat \ {0} /\ Stays(n, t, t)
  <2>1. t \in Nat /\ t >= 1
    BY Attach
  <2>2. t \in Nat \ {0} /\ t <= t
    BY <2>1
  <2> QED BY <2>2 DEF Stays
<1>2. IsLevel(n, t) /\ IsLevel(n + 1, t) /\ n + 1 \in 0 .. Len(Rows) /\ n + 1 \in 1 .. Len(Rows)
  BY <1>1, StaysIs
<1>3. t <= Len(PathOf(n))
  BY <1>2 DEF IsLevel
<1>4. IsSeq(Down(n, t))
  BY <1>1, <1>3, DownIs
<1>5. IsSeq(Open(n + 1, t)) /\ IsSeq(First(n, t))
  BY <1>2, LevelParts
<1>6. IsSeq(Sep(Elements(n, t), First(n, t)))
  BY <1>5, BeforeIs
<1>7. IsSeq(Sep(Elements(n, t), First(n, t)) \o Open(n + 1, t))
  BY <1>5, <1>6, IsSeqConcat
<1>8. IsSeq(Gap(n, t))
  BY <1>4, <1>7, IsSeqConcat DEF Gap
<1>9. IsSeq(Body(n + 1))
  BY <1>2, BodyIs DEF Sound
<1>10. IsSeq(Delta(n, t))
  BY <1>8, <1>9, IsSeqConcat DEF Delta
<1>11. t < Len(PathOf(n + 1))
  BY DEF IsTop
<1> QED BY <1>1, <1>2, <1>3, <1>4, <1>5, <1>6, <1>7, <1>8, <1>9, <1>10, <1>11

LEMMA CommonTop ==
    ASSUME Sound, NEW n \in 0 .. Len(Rows), n < Len(Rows), NEW t, IsTop(n, t)
    PROVE  Common(n, t, t)
<1> DEFINE e == Sep(Elements(n, t), First(n, t)) \o Open(n + 1, t)
           b == Body(n + 1)
           d == Down(n, t)
           p == Pre(n + 1, t)
<1>0. /\ IsSeq(Gap(n, t)) /\ IsSeq(b) /\ IsSeq(d) /\ IsSeq(e) /\ Gap(n, t) = d \o e
      /\ t \in Nat \ {0} /\ t <= Len(PathOf(n)) /\ t < Len(PathOf(n + 1)) /\ n + 1 \in 0 .. Len(Rows)
  BY GapIs DEF Gap
<1>1. PICK W : Ends(n, t, W)
  BY <1>0, EndsExist DEF HasEnd
<1>2. Ends(n + 1, t + 1, b) /\ p = Inner(n, t) \o e
  BY EndsTop
<1>3. Ends(n + 1, t, p \o b)
  BY <1>0, <1>2, EndsUp
<1>4. Inner(n, t) = W \o d /\ IsSeq(W)
  BY <1>1 DEF Ends
<1> HIDE DEF e, b, d, p
<1>5. (W \o d) \o e = W \o (d \o e) /\ IsSeq(d \o e)
  <2>1. IsSeq(W) /\ IsSeq(d) /\ IsSeq(e)
    BY <1>0, <1>4
  <2>2. (W \o d) \o e = W \o (d \o e)
    BY SMTT(60), <2>1, ConcatAssoc
  <2>3. IsSeq(d \o e)
    BY <2>1, IsSeqConcat
  <2> QED BY <2>2, <2>3
<1> DEFINE g == d \o e
<1>6. IsSeq(g)
  BY <1>5
<1> HIDE DEF g
<1>7. (W \o g) \o b = W \o (g \o b)
  <2>1. IsSeq(W) /\ IsSeq(g) /\ IsSeq(b)
    BY <1>0, <1>4, <1>6
  <2> QED BY SMTT(60), <2>1, ConcatAssoc
<1>8. p \o b = W \o Delta(n, t)
  BY Zenon, <1>0, <1>2, <1>4, <1>5, <1>7 DEF Delta, g, b
<1>9. Ends(n + 1, t, W \o Delta(n, t))
  BY Zenon, <1>3, <1>8
<1> QED BY <1>1, <1>9 DEF Common

LEMMA CommonUp ==
    ASSUME Sound, NEW n \in 0 .. Len(Rows), n < Len(Rows), NEW t, IsTop(n, t),
           NEW k \in Nat \ {0}, k < t, Common(n, t, k + 1)
    PROVE  Common(n, t, k)
<1>1. t \in Nat \ {0} /\ t <= Len(PathOf(n)) /\ t < Len(PathOf(n + 1)) /\ n + 1 \in 0 .. Len(Rows)
      /\ IsSeq(Delta(n, t))
  BY GapIs
<1> DEFINE d == Delta(n, t)
           p == Pre(n, k)
<1>2. PICK W : Ends(n, k + 1, W) /\ Ends(n + 1, k + 1, W \o d)
  BY DEF Common
<1>3. Stays(n, t, k)
  <2>1. k <= t
    BY <1>1
  <2> QED BY <2>1 DEF Stays
<1>4. k < Len(PathOf(n)) /\ k < Len(PathOf(n + 1))
  BY <1>1, StaysIs, <1>3
<1>5. Ends(n, k, p \o W) /\ IsSeq(W) /\ IsSeq(p)
  BY <1>2, <1>4, EndsUp
<1> DEFINE X == W \o d
<1>6. Ends(n + 1, k + 1, X)
  BY <1>2
<1> HIDE DEF X
<1>7. Ends(n + 1, k, Pre(n + 1, k) \o X)
  BY <1>1, <1>4, <1>6, EndsUp
<1>8. Pre(n + 1, k) = p
  BY <1>3, PreStep
<1> HIDE DEF p, d
<1>9. p \o (W \o d) = (p \o W) \o d
  <2>1. IsSeq(p) /\ IsSeq(W) /\ IsSeq(d)
    BY <1>1, <1>5 DEF d
  <2> QED BY SMTT(60), <2>1, ConcatAssoc
<1>10. Ends(n + 1, k, (p \o W) \o d)
  BY Zenon, <1>7, <1>8, <1>9 DEF X
<1> QED BY Zenon, <1>5, <1>10 DEF Common, d

LEMMA CommonExists ==
    ASSUME Sound, NEW n \in 0 .. Len(Rows), n < Len(Rows), NEW t, IsTop(n, t)
    PROVE  Common(n, t, 1)
<1>0. t \in Nat \ {0}
  BY GapIs
<1> DEFINE P == {m \in Nat : m < t => Common(n, t, t - m)}
<1>1. 0 \in P
  <2>1. t - 0 = t
    BY <1>0
  <2> QED BY <2>1, CommonTop
<1>2. \A m \in P : m + 1 \in P
  <2> TAKE m \in P
  <2>1. m \in Nat /\ (m < t => Common(n, t, t - m))
    OBVIOUS
  <2> HIDE DEF P
  <2>2. ASSUME m + 1 < t PROVE Common(n, t, t - (m + 1))
    <3> DEFINE x == t - (m + 1)
    <3>1. x \in Nat \ {0} /\ x < t /\ x + 1 = t - m /\ m < t
      BY <1>0, <2>1, <2>2
    <3>2. Common(n, t, t - m)
      BY <2>1, <3>1
    <3>3. Common(n, t, x + 1)
      BY <3>1, <3>2
    <3> HIDE DEF x
    <3>4. Common(n, t, x)
      BY <3>1, <3>3, CommonUp
    <3> QED BY <3>4 DEF x
  <2>3. m + 1 \in Nat
    BY <2>1
  <2> QED BY <2>2, <2>3 DEF P
<1> HIDE DEF P
<1>3. P = Nat
  <2>1. P \in SUBSET Nat
    BY DEF P
  <2> QED BY <1>1, <1>2, <2>1, SetInduction
<1>4. t - 1 \in Nat /\ t - 1 < t /\ t - (t - 1) = 1
  BY <1>0
<1>5. Common(n, t, t - (t - 1))
  BY <1>3, <1>4 DEF P
<1> QED BY <1>4, <1>5

\* The whole result is that of the level of the root.
Opening == IF mode = "one" THEN <<>> ELSE <<"[">>

LEMMA ExpectedEnds ==
    ASSUME Sound, NEW n \in 0 .. Len(Rows), NEW W, Ends(n, 1, W)
    PROVE  Expected(n) = (Opening \o W) \o Down(n, 0) /\ IsSeq(Opening) /\ IsSeq(W) /\ IsSeq(Down(n, 0))
<1>0. /\ n \in Nat /\ Len(Rows) \in Nat /\ IsLevel(n, 1) /\ 1 <= Len(PathOf(n))
      /\ PathOf(n) \in Seq(Nat)
  <2>1. n \in Nat /\ Len(Rows) \in Nat /\ 1 <= Len(PathOf(n)) /\ PathOf(n) \in Seq(Nat)
    BY NIs
  <2> QED BY <2>1 DEF IsLevel
<1> DEFINE K == Kids(n, n, 1)
           all == List(T(n), K)
           d == Down(n, 0)
<1>1. {i \in 1 .. n : IsRoot(Rows[i].path)} = K
  <2>1. ASSUME NEW i \in 1 .. n PROVE IsRoot(Rows[i].path) <=> Len(PathOf(i)) = 2
    <3>1. i # 0
      BY <1>0
    <3> QED BY <3>1 DEF IsRoot, PathOf
  <2>2. ASSUME NEW i \in 1 .. n, Len(PathOf(i)) = 2 PROVE Agree(PathOf(i), PathOf(n), 1)
    <3>1. i \in 0 .. Len(Rows)
      BY <1>0
    <3>2. PathOf(i)[1] = 0 /\ PathOf(n)[1] = 0
      BY <3>1, PathsAre DEF Sound
    <3>3. 1 <= Len(PathOf(i))
      BY <2>2
    <3>4. \A x \in 1 .. 1 : x = 1
      OBVIOUS
    <3> QED BY <1>0, <3>2, <3>3, <3>4 DEF Agree
  <2>3. K = {i \in 1 .. n : Len(PathOf(i)) = 2 /\ Agree(PathOf(i), PathOf(n), 1)}
    <3>1. 1 + 1 = 2
      OBVIOUS
    <3> QED BY Zenon, <3>1 DEF Kids
  <2> HIDE DEF K
  <2> QED BY <2>1, <2>2, <2>3
<1>2. Expected(n) = IF mode = "one" THEN all ELSE <<"[">> \o all \o <<"]">>
  BY Zenon, <1>1, ExpectedIs
<1>3. Q(n, 1) = all \o Up(n, 1) /\ IsSeq(all) /\ Up(n, 1) = IF IsMany(n, 1) THEN <<"]">> ELSE <<>>
  BY <1>0, OneIsOdd, QIs
<1>4. IsMany(n, 1) <=> mode # "one"
  BY DEF IsMany
<1>5. IsSeq(<<"[">>) /\ IsSeq(<<"]">>) /\ IsSeq(<<>>)
  BY OneIsSeq
<1>6. Q(n, 1) = W \o d /\ IsSeq(W) /\ IsSeq(d)
  <2>1. 0 \in Nat /\ 1 = 0 + 1 /\ 0 <= Len(PathOf(n))
    BY <1>0, NIs
  <2>2. Q(n, 1) = W \o d
    BY <1>0, <2>1, EndsQ
  <2>3. IsSeq(d)
    BY <2>1, DownIs
  <2> QED BY <2>2, <2>3 DEF Ends
<1> HIDE DEF all, d, K
<1>7. CASE mode = "one"
  <2>1. Expected(n) = W \o d
    <3>1. Expected(n) = all /\ Q(n, 1) = all \o <<>>
      BY <1>2, <1>3, <1>4, <1>7
    <3>2. all \o <<>> = all
      BY <1>3, ConcatNone
    <3> QED BY Zenon, <1>6, <3>1, <3>2
  <2>2. Opening = <<>> /\ <<>> \o W = W
    BY <1>6, <1>7, ConcatNone DEF Opening
  <2> QED BY <1>5, <1>6, <2>1, <2>2 DEF d
<1>8. CASE mode # "one"
  <2>1. Expected(n) = (<<"[">> \o all) \o <<"]">> /\ Q(n, 1) = all \o <<"]">>
    BY <1>2, <1>3, <1>4, <1>8
  <2>2. (<<"[">> \o all) \o <<"]">> = <<"[">> \o (all \o <<"]">>)
    BY <1>3, <1>5, ConcatAssoc
  <2>3. Opening = <<"[">>
    BY <1>8 DEF Opening
  <2>4. <<"[">> \o (W \o d) = (<<"[">> \o W) \o d
    BY SMTT(60), <1>5, <1>6, ConcatAssoc
  <2>5. Expected(n) = (Opening \o W) \o d
    BY Zenon, <1>6, <2>1, <2>2, <2>3, <2>4
  <2>6. IsSeq(Opening)
    BY <1>5, <2>3
  <2> QED BY <1>6, <2>5, <2>6 DEF d
<1> QED BY <1>7, <1>8

\* What was given for n rows, and not closed, is continued by row n + 1.
LEMMA ExpectedStep ==
    ASSUME Sound, NEW n \in 0 .. Len(Rows), n < Len(Rows), NEW t, IsTop(n, t),
           NEW G, IsSeq(G), Expected(n) = G \o Down(n, 0)
    PROVE  /\ Expected(n + 1) = (G \o Delta(n, t)) \o Down(n + 1, 0)
           /\ IsSeq(Delta(n, t)) /\ IsSeq(Down(n + 1, 0)) /\ IsSeq(Gap(n, t)) /\ IsSeq(Body(n + 1))
<1>1. /\ IsSeq(Delta(n, t)) /\ IsSeq(Gap(n, t)) /\ IsSeq(Body(n + 1)) /\ n + 1 \in 0 .. Len(Rows)
  BY GapIs
<1> DEFINE d == Delta(n, t)
<1>2. PICK W : Ends(n, 1, W) /\ Ends(n + 1, 1, W \o d)
  BY CommonExists DEF Common
<1>3. Expected(n) = (Opening \o W) \o Down(n, 0) /\ IsSeq(Opening) /\ IsSeq(W) /\ IsSeq(Down(n, 0))
  BY <1>2, ExpectedEnds
<1> DEFINE X == W \o d
           O == Opening \o W
<1>4. Ends(n + 1, 1, X)
  BY <1>2
<1> HIDE DEF X
<1>5. Expected(n + 1) = (Opening \o X) \o Down(n + 1, 0) /\ IsSeq(Down(n + 1, 0))
  BY <1>1, <1>4, ExpectedEnds
<1>6. IsSeq(O)
  BY <1>3, IsSeqConcat
<1> HIDE DEF O, d
<1>7. G = O
  <2> DEFINE u == Down(n, 0)
  <2>1. G \o u = O \o u /\ IsSeq(u)
    BY <1>3 DEF O
  <2> HIDE DEF u
  <2> QED BY <1>6, <2>1, CancelRight
<1>8. Opening \o (W \o d) = (Opening \o W) \o d
  <2> DEFINE o == Opening
  <2>1. IsSeq(o) /\ IsSeq(W) /\ IsSeq(d)
    BY <1>1, <1>3 DEF d
  <2> HIDE DEF o
  <2>2. o \o (W \o d) = (o \o W) \o d
    BY SMTT(60), <2>1, ConcatAssoc
  <2> QED BY <2>2 DEF o
<1>9. Expected(n + 1) = (G \o d) \o Down(n + 1, 0)
  BY Zenon, <1>5, <1>7, <1>8 DEF X, O
<1> QED BY <1>1, <1>5, <1>9 DEF d

----------------------------------------------------------------------------
(* The levels of a stream                                                  *)
\* The levels of a stream tell what closes the rows it has given.
ListLevel(l, n, k) ==
    /\ l = Level(l.index, l.suffix, l.path, l.expands, l.hasProperties)
    /\ l.suffix = Up(n, k) /\ l.path = SubSeq(PathOf(n), 1, k)
    /\ l.index \in Nat
    /\ l.index > 0 <=> Elements(n, k) # {}
Fits(l, n, k) == IF Even(k) THEN l = RowLevel(n, Anc(n, k)) ELSE ListLevel(l, n, k)
Describes(L, n) ==
    /\ IsSeq(L) /\ Len(L) = Len(PathOf(n))
    /\ \A k \in 1 .. Len(PathOf(n)) : Fits(L[k], n, k)

LEMMA PrefixOf ==
    ASSUME NEW p \in Seq(Nat), NEW k \in Nat, k <= Len(p)
    PROVE  /\ SubSeq(p, 1, k) \in Seq(Nat) /\ Len(SubSeq(p, 1, k)) = k
           /\ \A x \in 1 .. k : SubSeq(p, 1, k)[x] = p[x]
           /\ Agree(SubSeq(p, 1, k), p, k)
           /\ \A q \in Seq(Nat) : Len(q) = k /\ Agree(q, p, k) => q = SubSeq(p, 1, k)
<1> DEFINE s == SubSeq(p, 1, k)
<1>1. s = [x \in 1 .. k |-> p[x]] /\ s \in Seq(Nat) /\ Len(s) = k
  OBVIOUS
<1> HIDE DEF s
<1>2. \A x \in 1 .. k : s[x] = p[x]
  BY <1>1
<1>3. Agree(s, p, k)
  BY <1>1, <1>2 DEF Agree
<1>4. ASSUME NEW q \in Seq(Nat), Len(q) = k, Agree(q, p, k) PROVE q = s
  <2>1. \A x \in 1 .. k : q[x] = s[x]
    BY <1>2, <1>4 DEF Agree
  <2>2. q = [x \in 1 .. k |-> q[x]] /\ s = [x \in 1 .. k |-> s[x]]
    BY <1>1, <1>4
  <2> QED BY <2>1, <2>2
<1> QED BY <1>1, <1>2, <1>3, <1>4 DEF s

LEMMA RowLevelPath ==
    ASSUME NEW n, NEW i
    PROVE  /\ RowLevel(n, i).path = PathOf(i) /\ RowLevel(n, i).suffix = <<"}">>
           /\ RowLevel(n, i).expands = [p \in Unfilled(n, i) |-> Rows[i].expands[p]]
           /\ RowLevel(n, i).hasProperties = (HasProperties(i) \/ Filled(n, i) # {})
           /\ RowLevel(n, i) = Level(0, <<"}">>, PathOf(i), RowLevel(n, i).expands, RowLevel(n, i).hasProperties)
BY DEF RowLevel, Level

LEMMA FitsIs ==
    ASSUME Sound, NEW n \in 0 .. Len(Rows), NEW k, IsLevel(n, k), NEW l, Fits(l, n, k)
    PROVE  l.path = SubSeq(PathOf(n), 1, k) /\ StepUp(l) = Up(n, k)
<1>0. k \in Nat /\ k <= Len(PathOf(n)) /\ PathOf(n) \in Seq(Nat)
  BY NIs DEF IsLevel
<1>1. CASE Even(k)
  <2> DEFINE a == Anc(n, k)
  <2>1. l = RowLevel(n, a)
    BY <1>1 DEF Fits
  <2>2. StepUp(l) = Up(n, k)
    BY <1>1, <2>1 DEF Up
  <2>3. /\ n \in 1 .. Len(Rows) /\ k \in Nat \ {0} /\ k <= Len(PathOf(n)) /\ a \in 1 .. Len(Rows)
    BY <1>1, EvenLevel
  <2>4. IsAnc(a, n, k)
    BY <1>1, <2>3, AncIs
  <2>5. PathOf(a) \in Seq(Nat)
    <3>1. a \in 0 .. Len(Rows)
      BY <2>3
    <3> QED BY <3>1, NIs
  <2> HIDE DEF a
  <2>6. PathOf(a) = SubSeq(PathOf(n), 1, k)
    BY <1>0, <2>4, <2>5, PrefixOf DEF IsAnc
  <2> QED BY <2>1, <2>2, <2>6, RowLevelPath
<1>2. CASE ~Even(k)
  <2>1. l.path = SubSeq(PathOf(n), 1, k) /\ l.suffix = Up(n, k)
    BY <1>2 DEF Fits, ListLevel
  <2>2. Up(n, k) = IF IsMany(n, k) THEN <<"]">> ELSE <<>>
    BY <1>2 DEF Up
  <2>3. <<"]">> # <<"}">> /\ <<>> # <<"}">>
    OBVIOUS
  <2>4. l.suffix # <<"}">>
    BY <2>1, <2>2, <2>3
  <2>5. LeftOver(l) = <<>>
    BY <2>4 DEF LeftOver
  <2>6. <<>> \o Up(n, k) = Up(n, k)
    BY LevelParts, ConcatNone
  <2> QED BY <2>1, <2>5, <2>6 DEF StepUp
<1> QED BY <1>1, <1>2

LEMMA BelowNext ==
    ASSUME Sound, NEW n \in 0 .. Len(Rows), n < Len(Rows), NEW k, IsLevel(n, k), NEW l, Fits(l, n, k)
    PROVE  IsBelow(PathOf(n + 1), l) <=> k < Len(PathOf(n + 1)) /\ Agree(PathOf(n), PathOf(n + 1), k)
<1>0. /\ k \in Nat /\ k <= Len(PathOf(n)) /\ PathOf(n) \in Seq(Nat) /\ PathOf(n + 1) \in Seq(Nat)
      /\ Len(PathOf(n)) \in Nat
  <2>1. n + 1 \in 0 .. Len(Rows)
    BY NIs
  <2> QED BY <2>1, NIs DEF IsLevel
<1> DEFINE p == PathOf(n)
           q == PathOf(n + 1)
           s == SubSeq(p, 1, k)
<1>1. l.path = s
  BY FitsIs
<1>2. s \in Seq(Nat) /\ Len(s) = k /\ \A x \in 1 .. k : s[x] = p[x]
  BY <1>0, PrefixOf
<1> HIDE DEF s
<1>3. IsStrictPrefix(s, q) <=> Agree(s, q, k) /\ k < Len(q)
  BY <1>0, <1>2, PrefixIs
<1>4. Agree(s, q, k) <=> Agree(p, q, k)
  <2>1. k <= k /\ k <= Len(p) /\ Len(s) = k /\ \A x \in 1 .. k : s[x] = p[x]
    BY <1>0, <1>2
  <2> HIDE DEF p, q
  <2>2. k <= Len(s)
    BY Zenon, <2>1
  <2>3. (\A x \in 1 .. k : s[x] = q[x]) <=> (\A x \in 1 .. k : p[x] = q[x])
    BY Zenon, <2>1
  <2> QED BY Zenon, <2>1, <2>2, <2>3 DEF Agree
<1> QED BY <1>1, <1>3, <1>4 DEF IsBelow

Highest(B) == IF B = {} THEN 0 ELSE CHOOSE i \in B : \A j \in B : j <= i

\* The level that the next row is put below.
LEMMA TopIs ==
    ASSUME Sound, NEW n \in 0 .. Len(Rows), n < Len(Rows), NEW t, IsTop(n, t),
           NEW L, Describes(L, n), NEW B, B = {i \in DOMAIN L : IsBelow(PathOf(n + 1), L[i])}
    PROVE  Highest(B) = t
<1>1. DOMAIN L = 1 .. Len(PathOf(n)) /\ Len(PathOf(n)) \in Nat
  BY IsSeqLen DEF Describes
<1>2. ASSUME NEW i \in 1 .. Len(PathOf(n))
      PROVE  IsBelow(PathOf(n + 1), L[i]) <=> i < Len(PathOf(n + 1)) /\ Agree(PathOf(n), PathOf(n + 1), i)
  <2>1. IsLevel(n, i)
    <3>1. i \in Nat \ {0} /\ i <= Len(PathOf(n))
      BY <1>1
    <3> QED BY <3>1 DEF IsLevel
  <2>2. Fits(L[i], n, i)
    BY DEF Describes
  <2> QED BY <2>1, <2>2, BelowNext
<1>3. t \in B
  BY <1>1, <1>2 DEF IsTop
<1>4. \A j \in B : j \in 1 .. Len(PathOf(n)) /\ j <= t
  BY <1>1, <1>2 DEF IsTop
<1>5. t \in Nat /\ \A j \in B : j \in Nat
  <2>1. B \subseteq Nat
    BY <1>1
  <2> QED BY <1>3, <2>1
<1> DEFINE c == CHOOSE i \in B : \A j \in B : j <= i
<1>6. c \in B /\ \A j \in B : j <= c
  BY <1>3, <1>4
<1>7. c = t
  <2> HIDE DEF c
  <2> QED BY <1>3, <1>4, <1>5, <1>6
<1> QED BY Zenon, <1>3, <1>7 DEF Highest

\* What HandleLevel makes of the levels it leaves.
LEMMA LeftIs ==
    ASSUME Sound, NEW n \in 0 .. Len(Rows), NEW L, Describes(L, n), NEW t \in Nat, t <= Len(PathOf(n))
    PROVE  FlattenSeq([i \in 1 .. Len(L) - t |-> StepUp(L[Len(L) + 1 - i])]) = Down(n, t)
<1> DEFINE l == Len(PathOf(n))
<1>0. l \in Nat /\ Len(L) = l /\ t <= l
  BY NIs DEF Describes
<1>1. ASSUME NEW i \in 1 .. l - t PROVE StepUp(L[l + 1 - i]) = Up(n, l + 1 - i)
  <2> DEFINE k == l + 1 - i
  <2> HIDE DEF l
  <2>1. k \in 1 .. l /\ k \in Nat \ {0} /\ k <= l
    BY <1>0
  <2> HIDE DEF k
  <2>2. IsLevel(n, k) /\ Fits(L[k], n, k)
    BY <2>1 DEF IsLevel, Describes, l
  <2>3. StepUp(L[k]) = Up(n, k)
    BY <2>2, FitsIs
  <2> QED BY <2>3 DEF k
<1>2. [i \in 1 .. l - t |-> StepUp(L[l + 1 - i])] = [i \in 1 .. l - t |-> Up(n, l + 1 - i)]
  BY <1>1
<1> QED BY <1>0, <1>2 DEF Down

HasSet(l, x) == [l EXCEPT !.hasProperties = x]
Removed(l, y, x) == [[l EXCEPT !.expands = Without(@, y)] EXCEPT !.hasProperties = x]

LEMMA LevelHasSet ==
    ASSUME NEW index, NEW suffix, NEW path, NEW expands, NEW has, NEW x
    PROVE  HasSet(Level(index, suffix, path, expands, has), x) = Level(index, suffix, path, expands, x)
BY DEF Level, HasSet

LEMMA LevelRemoved ==
    ASSUME NEW index, NEW suffix, NEW path, NEW expands, NEW has, NEW x, NEW y
    PROVE  Removed(Level(index, suffix, path, expands, has), y, x)
           = Level(index, suffix, path, Without(expands, y), x)
<1> DEFINE f == Without(expands, y)
<1> HIDE DEF f
<1>1. [Level(index, suffix, path, f, has) EXCEPT !.hasProperties = x] = Level(index, suffix, path, f, x)
  BY DEF Level
<1>3. Level(index, suffix, path, expands, has).expands = expands
  BY DEF Level
<1>4. [Level(index, suffix, path, expands, has) EXCEPT !.expands = f] = Level(index, suffix, path, f, has)
  BY DEF Level
<1>5. [[Level(index, suffix, path, expands, has) EXCEPT !.expands = f] EXCEPT !.hasProperties = x]
      = Level(index, suffix, path, f, x)
  BY <1>1, <1>4
<1> QED BY <1>3, <1>5 DEF f, Removed

LEMMA FitsStays ==
    ASSUME Sound, NEW n \in 0 .. Len(Rows), n < Len(Rows), NEW t, NEW k, Stays(n, t, k), k < t,
           NEW l, Fits(l, n, k)
    PROVE  Fits(l, n + 1, k)
<1>1. Elements(n + 1, k) = Elements(n, k)
  BY LastStep
<1>2. CASE Even(k)
  <2> DEFINE a == Anc(n, k)
  <2>1. Anc(n + 1, k) = a
    BY <1>2, AncStays
  <2>2. l = RowLevel(n, a)
    BY <1>2 DEF Fits
  <2>3. Filled(n + 1, a) = Filled(n, a)
    BY Zenon, <1>1, <1>2, <2>1 DEF Elements
  <2>4. RowLevel(n + 1, a) = RowLevel(n, a)
    BY Zenon, <2>3 DEF RowLevel, Unfilled
  <2> QED BY Zenon, <1>2, <2>1, <2>2, <2>4 DEF Fits
<1>3. CASE ~Even(k)
  <2>0. /\ k \in Nat \ {0} /\ Agree(PathOf(n), PathOf(n + 1), k) /\ n + 1 \in 0 .. Len(Rows) /\ t \in Nat
        /\ PathOf(n) \in Seq(Nat) /\ PathOf(n + 1) \in Seq(Nat) /\ IsLevel(n, k) /\ IsLevel(n + 1, k)
    BY StaysIs
  <2>1. ListLevel(l, n, k)
    BY <1>3 DEF Fits
  <2>2. SubSeq(PathOf(n + 1), 1, k) = SubSeq(PathOf(n), 1, k)
    <3>1. \A x \in 1 .. k : PathOf(n + 1)[x] = PathOf(n)[x]
      BY <2>0 DEF Agree
    <3>2. [x \in 1 .. k |-> PathOf(n + 1)[x]] = [x \in 1 .. k |-> PathOf(n)[x]]
      BY <3>1
    <3>3. /\ SubSeq(PathOf(n + 1), 1, k) = [x \in 1 .. k |-> PathOf(n + 1)[x]]
          /\ SubSeq(PathOf(n), 1, k) = [x \in 1 .. k |-> PathOf(n)[x]]
      BY <2>0
    <3> QED BY <3>2, <3>3
  <2>3. IsMany(n + 1, k) <=> IsMany(n, k)
    <3>1. CASE k = 1
      BY <3>1 DEF IsMany
    <3>2. CASE k # 1
      <4> DEFINE m == k - 1
      <4>1. m \in Nat \ {0} /\ m <= t /\ k = m + 1
        BY <2>0, <3>2
      <4>2. Even(m)
        BY <1>3, <4>1, Parity
      <4> HIDE DEF m
      <4>3. Stays(n, t, m)
        BY <4>1 DEF Stays
      <4>4. Anc(n + 1, m) = Anc(n, m)
        BY <4>2, <4>3, AncStays
      <4>5. PathOf(n + 1)[k] = PathOf(n)[k]
        <5>1. k \in 1 .. k
          BY <2>0
        <5> QED BY <2>0, <5>1 DEF Agree
      <4>6. Anc(n + 1, k - 1) = Anc(n, k - 1)
        BY <4>4 DEF m
      <4> QED BY <3>2, <4>5, <4>6 DEF IsMany
    <3> QED BY <3>1, <3>2
  <2>4. Up(n + 1, k) = Up(n, k)
    BY Zenon, <1>3, <2>3 DEF Up
  <2>5. ListLevel(l, n + 1, k)
    BY <1>1, <2>1, <2>2, <2>4 DEF ListLevel
  <2> QED BY <1>3, <2>5 DEF Fits
<1> QED BY <1>2, <1>3

\* An expand gets its first row.
LEMMA TopEven ==
    ASSUME Sound, NEW n \in 0 .. Len(Rows), n < Len(Rows), NEW t, IsTop(n, t), Even(t)
    PROVE  LET a == Anc(n, t)
               p == PathOf(n + 1)[t + 1]
           IN  /\ p \in Unfilled(n, a) /\ p # 0 /\ p \in Nat
               /\ Filled(n + 1, a) = Filled(n, a) \cup {p}
               /\ Elements(n, t) = Filled(n, a) /\ First(n, t) = Comma(HasProperties(a))
               /\ Len(PathOf(n + 1)) = t + 2 /\ Anc(n + 1, t) = a
               /\ IsMany(n + 1, t + 1) <=> Rows[a].expands[p] = "many"
               /\ a \in 1 .. Len(Rows)
<1> DEFINE a == Anc(n, t)
           p == PathOf(n + 1)[t + 1]
<1>0. Stays(n, t, t) /\ n + 1 \in 0 .. Len(Rows) /\ t \in Nat \ {0}
  BY GapIs
<1>1. Anc(n + 1, t) = a /\ a \in 1 .. Len(Rows)
  BY <1>0, AncStays
<1>2. Len(PathOf(n + 1)) = t + 2 /\ p \in DOMAIN Rows[Anc(n + 1, t)].expands
  BY Attach
<1>3. /\ Elements(n + 1, t) = Elements(n, t) \cup {LastOf(n + 1, t)}
      /\ LastOf(n + 1, t) \notin Elements(n, t)
  BY <1>0, ElementsStep, LastStep
<1>4. /\ Elements(n, t) = Filled(n, a) /\ Elements(n + 1, t) = Filled(n + 1, a)
      /\ LastOf(n + 1, t) = p /\ First(n, t) = Comma(HasProperties(a))
  BY <1>1 DEF Elements, LastOf, First
<1>5. p # 0 /\ p \in Nat
  <2>1. 0 \notin DOMAIN Rows[a].expands /\ Numbers(DOMAIN Rows[a].expands)
    BY <1>0, <1>1, NamesAre
  <2> HIDE DEF a, p
  <2> QED BY <1>1, <1>2, <2>1 DEF Numbers
<1>6. p \in Unfilled(n, a)
  <2> HIDE DEF a, p
  <2> QED BY <1>1, <1>2, <1>3, <1>4 DEF Unfilled
<1>7. IsMany(n + 1, t + 1) <=> Rows[a].expands[p] = "many"
  <2> DEFINE m == t + 1
  <2>1. m # 1 /\ m - 1 = t
    BY <1>0
  <2> HIDE DEF m
  <2>2. IsMany(n + 1, m) <=> Rows[Anc(n + 1, t)].expands[PathOf(n + 1)[m]] = "many"
    BY <2>1 DEF IsMany
  <2> QED BY <1>1, <2>2 DEF m
<1> QED BY <1>1, <1>2, <1>3, <1>4, <1>5, <1>6, <1>7

LEMMA FitsTopEven ==
    ASSUME Sound, NEW n \in 0 .. Len(Rows), n < Len(Rows), NEW t, IsTop(n, t), Even(t),
           NEW l, Fits(l, n, t)
    PROVE  Fits([[l EXCEPT !.expands = Without(@, PathOf(n + 1)[t + 1])] EXCEPT !.hasProperties = TRUE],
                n + 1, t)
<1> DEFINE a == Anc(n, t)
           p == PathOf(n + 1)[t + 1]
           h == HasProperties(a)
           e == [q \in Unfilled(n, a) |-> Rows[a].expands[q]]
           f == [q \in Unfilled(n + 1, a) |-> Rows[a].expands[q]]
           new == [[l EXCEPT !.expands = Without(@, p)] EXCEPT !.hasProperties = TRUE]
<1>1. /\ p \in Unfilled(n, a) /\ Filled(n + 1, a) = Filled(n, a) \cup {p}
      /\ Anc(n + 1, t) = a
  BY TopEven
<1>2. l = RowLevel(n, a)
  BY DEF Fits
<1>3. l = Level(0, <<"}">>, PathOf(a), e, h \/ Filled(n, a) # {})
  BY <1>2 DEF RowLevel
<1> HIDE DEF a, p, h
<1>4. Unfilled(n + 1, a) = Unfilled(n, a) \ {p}
  BY <1>1 DEF Unfilled
<1>5. Without(e, p) = f
  BY <1>4 DEF Without
<1>6. (h \/ Filled(n + 1, a) # {}) = TRUE
  BY <1>1
<1>7. RowLevel(n + 1, a) = Level(0, <<"}">>, PathOf(a), f, h \/ Filled(n + 1, a) # {})
  BY DEF RowLevel, h
<1> HIDE DEF e, f
<1>8. RowLevel(n + 1, a) = Level(0, <<"}">>, PathOf(a), f, TRUE)
  BY <1>6, <1>7
<1>9. new = Level(0, <<"}">>, PathOf(a), Without(e, p), TRUE)
  <2> DEFINE b == h \/ Filled(n, a) # {}
             end == <<"}">>
             yes == TRUE
  <2>1. l = Level(0, end, PathOf(a), e, b)
    BY <1>3
  <2> HIDE DEF b, end, yes
  <2>2. Removed(l, p, yes) = Level(0, end, PathOf(a), Without(e, p), yes)
    BY <2>1, LevelRemoved
  <2> QED BY <2>2 DEF Removed, new, yes, end
<1> HIDE DEF new
<1>10. new = RowLevel(n + 1, Anc(n + 1, t))
  BY <1>1, <1>5, <1>8, <1>9
<1> QED BY <1>10 DEF Fits, new, p

\* A list gets its next element.
LEMMA FitsTopOdd ==
    ASSUME Sound, NEW n \in 0 .. Len(Rows), n < Len(Rows), NEW t, IsTop(n, t), ~Even(t),
           NEW l, Fits(l, n, t)
    PROVE  Fits([l EXCEPT !.index = @ + 1], n + 1, t)
<1>0. Stays(n, t, t) /\ n + 1 \in 0 .. Len(Rows) /\ t \in Nat \ {0}
  BY GapIs
<1>1. /\ Agree(PathOf(n), PathOf(n + 1), t) /\ IsLevel(n, t) /\ IsLevel(n + 1, t)
      /\ PathOf(n) \in Seq(Nat) /\ PathOf(n + 1) \in Seq(Nat)
  BY <1>0, StaysIs
<1>2. Elements(n + 1, t) # {}
  BY <1>0, ElementsStep
<1> DEFINE new == [l EXCEPT !.index = @ + 1]
<1>3. ListLevel(l, n, t)
  BY DEF Fits
<1>4. /\ new = Level(new.index, new.suffix, new.path, new.expands, new.hasProperties)
      /\ new.index = l.index + 1 /\ new.suffix = l.suffix /\ new.path = l.path
  BY <1>3 DEF ListLevel, Level
<1> HIDE DEF new
<1>5. new.index \in Nat /\ new.index > 0
  <2>1. l.index \in Nat
    BY <1>3 DEF ListLevel
  <2> QED BY <1>4, <2>1
<1>6. SubSeq(PathOf(n + 1), 1, t) = SubSeq(PathOf(n), 1, t)
  <2>1. \A x \in 1 .. t : PathOf(n + 1)[x] = PathOf(n)[x]
    BY <1>1 DEF Agree
  <2>2. [x \in 1 .. t |-> PathOf(n + 1)[x]] = [x \in 1 .. t |-> PathOf(n)[x]]
    BY <2>1
  <2>3. /\ SubSeq(PathOf(n + 1), 1, t) = [x \in 1 .. t |-> PathOf(n + 1)[x]]
        /\ SubSeq(PathOf(n), 1, t) = [x \in 1 .. t |-> PathOf(n)[x]]
    BY <1>0, <1>1
  <2> QED BY <2>2, <2>3
<1>7. IsMany(n + 1, t) <=> IsMany(n, t)
  <2>1. CASE t = 1
    BY <2>1 DEF IsMany
  <2>2. CASE t # 1
    <3> DEFINE m == t - 1
    <3>1. m \in Nat \ {0} /\ m <= t /\ t = m + 1
      BY <1>0, <2>2
    <3>2. Even(m)
      BY <3>1, Parity
    <3> HIDE DEF m
    <3>3. Stays(n, t, m)
      BY <3>1 DEF Stays
    <3>4. Anc(n + 1, m) = Anc(n, m)
      BY <3>2, <3>3, AncStays
    <3>5. PathOf(n + 1)[t] = PathOf(n)[t]
      <4>1. t \in 1 .. t
        BY <1>0
      <4> QED BY <1>1, <4>1 DEF Agree
    <3>6. Anc(n + 1, t - 1) = Anc(n, t - 1)
      BY <3>4 DEF m
    <3> QED BY <2>2, <3>5, <3>6 DEF IsMany
  <2> QED BY <2>1, <2>2
<1>8. Up(n + 1, t) = Up(n, t)
  BY Zenon, <1>7 DEF Up
<1>9. ListLevel(new, n + 1, t)
  BY <1>2, <1>3, <1>4, <1>5, <1>6, <1>8 DEF ListLevel
<1> QED BY <1>9 DEF Fits, new

\* The level of the row itself.
LEMMA FitsOwn ==
    ASSUME Sound, NEW r \in 1 .. Len(Rows)
    PROVE  Fits([Level(0, <<"}">>, PathOf(r), Rows[r].expands, FALSE) EXCEPT !.hasProperties = HasProperties(r)],
                r, Len(PathOf(r)))
<1> DEFINE m == Len(PathOf(r))
           e == Rows[r].expands
           h == HasProperties(r)
<1>0. r \in Nat /\ r \in 0 .. Len(Rows) /\ m \in Nat \ {0} /\ m <= m /\ Even(m)
  <2>1. r \in 0 .. Len(Rows) /\ r \in Nat
    BY PathsAre DEF Sound
  <2>2. m \in Nat /\ m >= 1 /\ Even(m)
    BY <2>1, PathsAre DEF Sound
  <2> HIDE DEF m
  <2> QED BY <2>1, <2>2
<1>1. Anc(r, m) = r
  BY <1>0, AncIs
<1>2. Filled(r, r) = {}
  <2>1. r + 1 .. r = {}
    BY <1>0
  <2>2. \A p : Of(r, r, p) = {}
    BY <1>0, <2>1, OfAfter
  <2> QED BY <2>2 DEF Filled
<1>3. [p \in Unfilled(r, r) |-> Rows[r].expands[p]] = e
  <2>1. Unfilled(r, r) = DOMAIN e
    BY <1>2 DEF Unfilled
  <2>2. e = [p \in DOMAIN e |-> e[p]]
    BY RowsAre DEF Sound, IsRow
  <2> QED BY <2>1, <2>2
<1>4. (h \/ Filled(r, r) # {}) = h
  <2>1. h \in BOOLEAN
    BY DEF HasProperties
  <2>2. Filled(r, r) # {} <=> FALSE
    BY <1>2
  <2> HIDE DEF h
  <2>3. (h \/ FALSE) = h
    BY <2>1
  <2> QED BY <1>2, <2>3
<1>5. RowLevel(r, r) = Level(0, <<"}">>, PathOf(r), e, h)
  BY Zenon, <1>3, <1>4 DEF RowLevel
<1> HIDE DEF h, e
<1>6. [Level(0, <<"}">>, PathOf(r), e, FALSE) EXCEPT !.hasProperties = h] = Level(0, <<"}">>, PathOf(r), e, h)
  <2> DEFINE no == FALSE
             end == <<"}">>
             l == Level(0, end, PathOf(r), e, no)
  <2> HIDE DEF no, end
  <2>1. HasSet(l, h) = Level(0, end, PathOf(r), e, h)
    BY LevelHasSet
  <2> HIDE DEF l
  <2>2. [l EXCEPT !.hasProperties = h] = Level(0, end, PathOf(r), e, h)
    BY <2>1 DEF HasSet
  <2> QED BY <2>2 DEF l, no, end
<1> QED BY <1>0, <1>1, <1>5, <1>6 DEF Fits, h, e

LastHas(M, h) == [M EXCEPT ![Len(M)].hasProperties = h]

LEMMA LastHasIs ==
    ASSUME NEW M, IsSeq(M), Len(M) # 0, NEW h
    PROVE  /\ IsSeq(LastHas(M, h)) /\ Len(LastHas(M, h)) = Len(M)
           /\ LastHas(M, h)[Len(M)] = [M[Len(M)] EXCEPT !.hasProperties = h]
           /\ \A k \in 1 .. Len(M) : k # Len(M) => LastHas(M, h)[k] = M[k]
<1> DEFINE m == Len(M)
           d == LastHas(M, h)
           x == [M[m] EXCEPT !.hasProperties = h]
<1>1. m \in Nat /\ DOMAIN M = 1 .. m /\ m # 0
  BY IsSeqLen
<1>2. d = [M EXCEPT ![m] = x]
  BY DEF LastHas
<1> HIDE DEF m, d, x
<1>3. d = [k \in 1 .. m |-> IF k = m THEN x ELSE M[k]]
  BY <1>1, <1>2
<1>4. d = [k \in 1 .. m |-> d[k]]
  BY <1>3
<1>5. IsSeq(d) /\ Len(d) = m
  BY <1>1, <1>4, FunctionIsSeq
<1>6. d[m] = x /\ \A k \in 1 .. m : k # m => d[k] = M[k]
  BY <1>1, <1>3
<1> QED BY <1>5, <1>6 DEF m, d, x

LEMMA FitsNew ==
    ASSUME Sound, NEW n \in 0 .. Len(Rows), n < Len(Rows), NEW t, IsTop(n, t), Even(t), NEW e
    PROVE  Fits(Level(1, IF IsMany(n + 1, t + 1) THEN <<"]">> ELSE <<>>,
                      SubSeq(PathOf(n + 1), 1, Len(PathOf(n + 1)) - 1), e, FALSE), n + 1, t + 1)
<1> DEFINE m == t + 1
           r == n + 1
           l == Level(1, Up(r, m), SubSeq(PathOf(r), 1, m), e, FALSE)
<1>0. t \in Nat \ {0} /\ r \in 0 .. Len(Rows) /\ Len(PathOf(r)) = t + 2
  BY GapIs, TopEven
<1>1. ~Even(m)
  BY <1>0, Parity
<1>2. m \in Nat \ {0} /\ m <= t + 2 /\ m < t + 2 /\ t + 2 - 1 = m
  BY <1>0
<1>3. IsLevel(r, m) /\ m < Len(PathOf(r))
  BY <1>0, <1>2 DEF IsLevel
<1> HIDE DEF m, r
<1>4. Elements(r, m) # {}
  BY <1>0, <1>3, ElementsLast
<1>5. Up(r, m) = IF IsMany(r, m) THEN <<"]">> ELSE <<>>
  BY <1>1 DEF Up
<1>6. l.index = 1 /\ l.suffix = Up(r, m) /\ l.path = SubSeq(PathOf(r), 1, m)
      /\ l = Level(l.index, l.suffix, l.path, l.expands, l.hasProperties)
  BY DEF Level
<1> HIDE DEF l
<1>7. ListLevel(l, r, m)
  BY <1>4, <1>6 DEF ListLevel
<1>8. Fits(l, r, m)
  BY <1>1, <1>7 DEF Fits
<1>9. l = Level(1, IF IsMany(r, m) THEN <<"]">> ELSE <<>>,
                SubSeq(PathOf(r), 1, Len(PathOf(r)) - 1), e, FALSE)
  <2>1. Len(PathOf(r)) - 1 = m
    BY <1>0, <1>2
  <2> QED BY Zenon, <1>5, <2>1 DEF l
<1> QED BY Zenon, <1>8, <1>9 DEF m, r

LEMMA LevelsStart == ASSUME Sound PROVE Describes(RootLevels(mode = "one"), 0)
<1> DEFINE l == Level(0, IF mode = "one" THEN <<>> ELSE <<"]">>, RootPath, <<>>, FALSE)
<1>0. 0 \in 0 .. Len(Rows) /\ PathOf(0) = RootPath /\ Len(RootPath) = 1 /\ IsLevel(0, 1)
      /\ RootPath \in Seq(Nat)
  <2>1. Len(Rows) \in Nat
    BY PathsAre DEF Sound
  <2>2. PathOf(0) = RootPath /\ Len(RootPath) = 1 /\ RootPath \in Seq(Nat)
    BY DEF PathOf, RootPath
  <2> QED BY SMTT(60), <2>1, <2>2 DEF IsLevel
<1>1. RootLevels(mode = "one") = <<l>>
  BY DEF RootLevels
<1>2. Up(0, 1) = IF mode = "one" THEN <<>> ELSE <<"]">>
  <2>1. IsMany(0, 1) <=> mode # "one"
    BY DEF IsMany
  <2>2. Up(0, 1) = IF IsMany(0, 1) THEN <<"]">> ELSE <<>>
    BY OneIsOdd DEF Up
  <2> QED BY <2>1, <2>2
<1>3. Elements(0, 1) = {}
  <2>1. Elements(0, 1) = Kids(0, 0, 1)
    BY OneIsOdd DEF Elements
  <2> QED BY <2>1 DEF Kids
<1>4. SubSeq(PathOf(0), 1, 1) = RootPath
  <2>1. Agree(RootPath, PathOf(0), 1)
    BY <1>0 DEF Agree
  <2> DEFINE s == SubSeq(PathOf(0), 1, 1)
  <2>2. 1 \in Nat /\ 1 <= Len(PathOf(0)) /\ PathOf(0) \in Seq(Nat)
    <3>1. 1 <= 1 /\ Len(PathOf(0)) = 1 /\ PathOf(0) \in Seq(Nat)
      BY <1>0
    <3> DEFINE m == Len(PathOf(0))
    <3>2. 1 <= m
      BY <3>1
    <3> QED BY <3>1, <3>2
  <2>3. \A q \in Seq(Nat) : Len(q) = 1 /\ Agree(q, PathOf(0), 1) => q = s
    BY <2>2, PrefixOf
  <2> QED BY <1>0, <2>1, <2>3
<1>5. l.index = 0 /\ l.suffix = Up(0, 1) /\ l.path = RootPath
      /\ l = Level(l.index, l.suffix, l.path, l.expands, l.hasProperties)
  BY <1>2 DEF Level
<1> HIDE DEF l
<1>6. ListLevel(l, 0, 1)
  BY <1>3, <1>4, <1>5 DEF ListLevel
<1>7. Fits(l, 0, 1)
  BY <1>6, OneIsOdd DEF Fits
<1>8. IsSeq(<<l>>) /\ Len(<<l>>) = 1 /\ <<l>>[1] = l
  BY OneIsSeq
<1> QED BY <1>0, <1>1, <1>7, <1>8 DEF Describes

LEMMA LevelsEnd ==
    ASSUME Sound, NEW n \in 0 .. Len(Rows), NEW L, Describes(L, n)
    PROVE  HandleLevel(L, <<>>, <<>>).text = Down(n, 0)
<1> DEFINE B == {i \in DOMAIN L : IsBelow(<<>>, L[i])}
           top == IF B = {} THEN 0 ELSE CHOOSE i \in B : \A j \in B : j <= i
           left == FlattenSeq([i \in 1 .. Len(L) - top |-> StepUp(L[Len(L) + 1 - i])])
<1>1. B = {}
  <2>1. ASSUME NEW i \in DOMAIN L, IsBelow(<<>>, L[i]) PROVE FALSE
    <3>1. i \in 1 .. Len(PathOf(n)) /\ Len(PathOf(n)) \in Nat
      BY <2>1, IsSeqLen, NIs DEF Describes
    <3>2. IsLevel(n, i) /\ Fits(L[i], n, i) /\ i \in Nat \ {0} /\ i <= Len(PathOf(n))
      <4>1. i \in Nat \ {0} /\ i <= Len(PathOf(n))
        BY <3>1
      <4> QED BY <3>1, <4>1 DEF IsLevel, Describes
    <3>3. L[i].path = SubSeq(PathOf(n), 1, i)
      BY <3>2, FitsIs
    <3> DEFINE s == SubSeq(PathOf(n), 1, i)
    <3>4. s \in Seq(Nat) /\ Len(s) = i
      BY <3>2, NIs, PrefixOf
    <3> HIDE DEF s
    <3>5. <<>> \in Seq(Nat) /\ Len(<<>>) = 0
      OBVIOUS
    <3> DEFINE none == <<>>
    <3>6. IsStrictPrefix(s, none)
      BY <2>1, <3>3 DEF IsBelow, s
    <3>7. none \in Seq(Nat) /\ Len(none) = 0
      BY <3>5
    <3> HIDE DEF none
    <3>8. Len(s) < Len(none)
      BY <3>4, <3>6, <3>7, PrefixIs
    <3> QED BY <3>2, <3>4, <3>7, <3>8
  <2> QED BY <2>1
<1>2. top = 0
  BY <1>1
<1>3. HandleLevel(L, <<>>, <<>>).text = left
  <2> DEFINE level == L[top]
             property == Property(<<>>, level)
             X == IF property # 0 /\ property \in DOMAIN level.expands
                  THEN [text |-> left \o Comma(level.hasProperties) \o <<property>>
                            \o (IF level.expands[property] = "many" THEN <<"[">> ELSE <<>>),
                        levels |-> [SubSeq(L, 1, top) EXCEPT ![top].expands = Without(@, property),
                                                             ![top].hasProperties = TRUE]
                                   \o <<Level(1, IF level.expands[property] = "many" THEN <<"]">> ELSE <<>>,
                                              SubSeq(<<>>, 1, Len(<<>>) - 1), <<>>, FALSE),
                                        Level(0, <<"}">>, <<>>, <<>>, FALSE)>>]
                  ELSE [text |-> left \o Comma(level.index > 0),
                        levels |-> Append([SubSeq(L, 1, top) EXCEPT ![top].index = @ + 1],
                                          Level(0, <<"}">>, <<>>, <<>>, FALSE))]
  <2>1. HandleLevel(L, <<>>, <<>>) = IF top = 0 THEN [text |-> left, levels |-> <<>>] ELSE X
    BY Zenon DEF HandleLevel
  <2> HIDE DEF X, left, top
  <2> QED BY <1>2, <2>1
<1>4. left = Down(n, 0)
  <2> DEFINE t == 0
  <2>1. t \in Nat /\ t <= Len(PathOf(n)) /\ top = t
    BY <1>2, NIs
  <2> HIDE DEF t
  <2>2. FlattenSeq([i \in 1 .. Len(L) - t |-> StepUp(L[Len(L) + 1 - i])]) = Down(n, t)
    BY <2>1, LeftIs
  <2> HIDE DEF top
  <2> QED BY Zenon, <2>1, <2>2 DEF t
<1> QED BY <1>3, <1>4

\* handleLevel: the text between two rows, and the levels of the next one.
LEMMA NextLevels ==
    ASSUME Sound, NEW n \in 0 .. Len(Rows), n < Len(Rows), NEW L, Describes(L, n),
           NEW H, H = HandleLevel(L, PathOf(n + 1), Rows[n + 1].expands)
    PROVE  /\ \E t : IsTop(n, t) /\ H.text = Gap(n, t)
           /\ Describes(LastHas(H.levels, HasProperties(n + 1)), n + 1)
<1>0. PICK t : IsTop(n, t)
  BY TopExists
<1> DEFINE path == PathOf(n + 1)
           expands == Rows[n + 1].expands
           B == {i \in DOMAIN L : IsBelow(path, L[i])}
           top == IF B = {} THEN 0 ELSE CHOOSE i \in B : \A j \in B : j <= i
<1>1. top = t
  <2>1. B = {i \in DOMAIN L : IsBelow(PathOf(n + 1), L[i])}
    OBVIOUS
  <2> HIDE DEF B, path
  <2>2. Highest(B) = t
    BY <1>0, <2>1, TopIs
  <2> QED BY <2>2 DEF top, Highest
<1>2. /\ t \in Nat \ {0} /\ Stays(n, t, t) /\ t <= Len(PathOf(n)) /\ t < Len(PathOf(n + 1))
      /\ n + 1 \in 0 .. Len(Rows) /\ n + 1 \in 1 .. Len(Rows)
      /\ IsSeq(Down(n, t)) /\ IsSeq(Open(n + 1, t)) /\ IsSeq(Sep(Elements(n, t), First(n, t)))
  BY <1>0, GapIs, Attach
<1> DEFINE kept == SubSeq(L, 1, t)
           left == FlattenSeq([i \in 1 .. Len(L) - t |-> StepUp(L[Len(L) + 1 - i])])
           level == L[t]
           property == Property(path, level)
           own == Level(0, <<"}">>, path, expands, FALSE)
           many == level.expands[property] = "many"
           new == Level(1, IF many THEN <<"]">> ELSE <<>>, SubSeq(path, 1, Len(path) - 1), expands, FALSE)
           opened == <<new, own>>
           nested == [kept EXCEPT ![t].expands = Without(@, property), ![t].hasProperties = TRUE]
           counted == [kept EXCEPT ![t].index = @ + 1]
           t1 == ((left \o Comma(level.hasProperties)) \o <<property>>)
                 \o (IF many THEN <<"[">> ELSE <<>>)
           t2 == left \o Comma(level.index > 0)
<1>3. H = IF t = 0 THEN [text |-> left, levels |-> <<>>]
          ELSE IF property # 0 /\ property \in DOMAIN level.expands
          THEN [text |-> t1, levels |-> nested \o opened]
          ELSE [text |-> t2, levels |-> Append(counted, own)]
  <2> DEFINE keptT == SubSeq(L, 1, top)
             leftT == FlattenSeq([i \in 1 .. Len(L) - top |-> StepUp(L[Len(L) + 1 - i])])
             levelT == L[top]
             propertyT == Property(path, levelT)
             manyT == levelT.expands[propertyT] = "many"
             newT == Level(1, IF manyT THEN <<"]">> ELSE <<>>, SubSeq(path, 1, Len(path) - 1), expands, FALSE)
  <2>1. H = IF top = 0 THEN [text |-> leftT, levels |-> <<>>]
            ELSE IF propertyT # 0 /\ propertyT \in DOMAIN levelT.expands
            THEN [text |-> ((leftT \o Comma(levelT.hasProperties)) \o <<propertyT>>)
                           \o (IF manyT THEN <<"[">> ELSE <<>>),
                  levels |-> [keptT EXCEPT ![top].expands = Without(@, propertyT), ![top].hasProperties = TRUE]
                             \o <<newT, own>>]
            ELSE [text |-> leftT \o Comma(levelT.index > 0),
                  levels |-> Append([keptT EXCEPT ![top].index = @ + 1], own)]
    BY Zenon DEF HandleLevel
  <2> HIDE DEF top, own, path, expands
  <2> QED BY Zenon, <1>1, <2>1
<1> HIDE DEF B, top
<1>4. left = Down(n, t)
  BY <1>2, LeftIs
<1>5. Fits(level, n, t) /\ IsLevel(n, t) /\ t \in 1 .. Len(PathOf(n)) /\ Len(PathOf(n)) \in Nat
  <2>1. t \in 1 .. Len(PathOf(n)) /\ Len(PathOf(n)) \in Nat
    BY <1>2, NIs
  <2> QED BY <1>2, <2>1 DEF Describes, IsLevel
<1>6. level.path = SubSeq(PathOf(n), 1, t)
  BY <1>5, FitsIs
<1>7. Len(level.path) = t
  <2>1. PathOf(n) \in Seq(Nat) /\ t \in Nat
    BY <1>2, NIs
  <2> DEFINE s == SubSeq(PathOf(n), 1, t)
  <2>2. Len(s) = t
    BY <1>2, <2>1, PrefixOf
  <2> HIDE DEF s
  <2> QED BY <1>6, <2>2 DEF s
<1>8. /\ IsSeq(kept) /\ Len(kept) = t /\ DOMAIN kept = 1 .. t
      /\ \A k \in 1 .. t : kept[k] = L[k] /\ Fits(L[k], n, k)
  <2>1. /\ IsSeq(SubSeq(L, 1, t)) /\ Len(SubSeq(L, 1, t)) = t
        /\ \A i \in 1 .. t - 1 + 1 : SubSeq(L, 1, t)[i] = L[1 + i - 1]
    BY <1>2, SubSeqIs
  <2> HIDE DEF kept
  <2>2. \A k \in 1 .. t : k \in 1 .. Len(PathOf(n)) /\ 1 + k - 1 = k /\ k \in 1 .. t - 1 + 1
    BY <1>2, <1>5
  <2>3. IsSeq(kept) /\ Len(kept) = t /\ \A i \in 1 .. t - 1 + 1 : kept[i] = L[1 + i - 1]
    BY <2>1 DEF kept
  <2>4. \A k \in 1 .. t : kept[k] = L[k]
    BY <2>2, <2>3
  <2>5. \A k \in 1 .. t : Fits(L[k], n, k)
    BY <2>2 DEF Describes
  <2>6. DOMAIN kept = 1 .. t
    BY <2>3, IsSeqLen
  <2> QED BY <2>3, <2>4, <2>5, <2>6
<1>9. \A k \in 1 .. t : k # t => Fits(L[k], n + 1, k)
  <2> SUFFICES ASSUME NEW k \in 1 .. t, k # t PROVE Fits(L[k], n + 1, k)
    OBVIOUS
  <2>1. k \in Nat \ {0} /\ k <= t /\ k < t
    BY <1>2
  <2>2. Stays(n, t, k) /\ Fits(L[k], n, k)
    BY <1>0, <1>8, <2>1 DEF Stays
  <2> QED BY <2>1, <2>2, FitsStays
<1>10. Fits([own EXCEPT !.hasProperties = HasProperties(n + 1)], n + 1, Len(path))
  BY <1>2, FitsOwn
<1>11. \A D : IsSeq(D) /\ Len(D) = Len(path) /\ (\A k \in 1 .. Len(path) : Fits(D[k], n + 1, k))
              => Describes(D, n + 1)
  BY SMTT(60) DEF Describes
<1>12. CASE Even(t)
  <2> DEFINE a == Anc(n, t)
             p == path[t + 1]
             x == [[level EXCEPT !.expands = Without(@, p)] EXCEPT !.hasProperties = TRUE]
  <2>1. /\ p \in Unfilled(n, a) /\ p # 0
        /\ Elements(n, t) = Filled(n, a) /\ First(n, t) = Comma(HasProperties(a))
        /\ Len(path) = t + 2
        /\ IsMany(n + 1, t + 1) <=> Rows[a].expands[p] = "many"
    BY <1>0, <1>12, TopEven
  <2>2. level = RowLevel(n, a)
    BY <1>5, <1>12 DEF Fits
  <2>3. property = p
    <3>1. t + 2 - 1 = t + 1
      BY <1>2
    <3> QED BY SMTT(60), <1>7, <2>1, <3>1 DEF Property
  <2>4. level.expands = [q \in Unfilled(n, a) |-> Rows[a].expands[q]]
        /\ level.hasProperties = (HasProperties(a) \/ Filled(n, a) # {})
    <3> HIDE DEF level, a
    <3>1. /\ RowLevel(n, a).expands = [q \in Unfilled(n, a) |-> Rows[a].expands[q]]
          /\ RowLevel(n, a).hasProperties = (HasProperties(a) \/ Filled(n, a) # {})
      BY ZenonT(60), RowLevelPath
    <3> QED BY Zenon, <2>2, <3>1
  <2>5. Fits(x, n + 1, t)
    BY <1>0, <1>5, <1>12, FitsTopEven
  <2>6. property # 0 /\ property \in DOMAIN level.expands /\ (many <=> IsMany(n + 1, t + 1))
    <3> HIDE DEF level, property, p, a
    <3> QED BY <2>1, <2>3, <2>4
  <2>7. H.text = t1 /\ H.levels = nested \o opened
    <3> HIDE DEF t1, t2, nested, opened, counted, own, left, property, level
    <3> QED BY SMTT(60), <1>2, <1>3, <2>6
  <2>8. t1 = Gap(n, t)
    <3> DEFINE c == Comma(level.hasProperties)
               o == IF many THEN <<"[">> ELSE <<>>
    <3>1. c = Sep(Elements(n, t), First(n, t))
      <4> DEFINE h == HasProperties(a)
                 F == Filled(n, a)
      <4>1. c = Comma(h \/ F # {})
        BY <2>4
      <4> HIDE DEF h, F
      <4>2. Comma(h \/ F # {}) = Sep(F, Comma(h))
        BY Zenon DEF Comma, Sep
      <4> QED BY Zenon, <2>1, <4>1, <4>2 DEF h, F
    <3>2. Open(n + 1, t) = <<p>> \o o
      <4>1. Open(n + 1, t) = <<p>> \o (IF IsMany(n + 1, t + 1) THEN <<"[">> ELSE <<>>)
        BY <1>12 DEF Open
      <4> HIDE DEF p, level, property
      <4> QED BY <2>6, <4>1
    <3>3. IsSeq(<<p>>) /\ IsSeq(o) /\ IsSeq(c)
      <4>1. IsSeq(<<p>>) /\ IsSeq(<<"[">>) /\ IsSeq(<<>>)
        BY OneIsSeq
      <4>2. IsSeq(o)
        <5> HIDE DEF level, property
        <5> QED BY <4>1
      <4> QED BY <4>1, <4>2, CommaIs
    <3> DEFINE pp == <<p>>
               d == Down(n, t)
    <3> HIDE DEF c, o, p, d
    <3>4. IsSeq(pp) /\ IsSeq(d)
      BY <1>2, <3>3 DEF d
    <3> HIDE DEF pp
    <3>5. ((d \o c) \o pp) \o o = d \o (c \o (pp \o o))
      <4>1. IsSeq(d) /\ IsSeq(c) /\ IsSeq(pp) /\ IsSeq(o)
        BY <3>3, <3>4
      <4> DEFINE cp == c \o pp
      <4>2. (d \o c) \o pp = d \o cp
        BY SMTT(60), <4>1, ConcatAssoc
      <4>3. IsSeq(cp)
        BY <4>1, IsSeqConcat
      <4> HIDE DEF cp
      <4>4. (d \o cp) \o o = d \o (cp \o o)
        BY SMTT(60), <4>1, <4>3, ConcatAssoc
      <4>5. (c \o pp) \o o = c \o (pp \o o)
        BY SMTT(60), <4>1, ConcatAssoc
      <4>6. cp \o o = c \o (pp \o o)
        BY Zenon, <4>5 DEF cp
      <4> QED BY Zenon, <4>2, <4>4, <4>6
    <3> QED BY Zenon, <1>4, <2>3, <3>1, <3>2, <3>5 DEF Gap, c, o, d, pp
  <2>9. Fits(new, n + 1, t + 1)
    <3>1. Fits(Level(1, IF IsMany(n + 1, t + 1) THEN <<"]">> ELSE <<>>,
                     SubSeq(PathOf(n + 1), 1, Len(PathOf(n + 1)) - 1), expands, FALSE), n + 1, t + 1)
      BY <1>0, <1>12, FitsNew
    <3> HIDE DEF level, property
    <3>2. (IF many THEN <<"]">> ELSE <<>>) = (IF IsMany(n + 1, t + 1) THEN <<"]">> ELSE <<>>)
      BY <2>6
    <3> HIDE DEF many
    <3> QED BY Zenon, <3>1, <3>2
  <2> DEFINE M == nested \o opened
  <2>10. /\ IsSeq(M) /\ Len(M) = t + 2 /\ \A k \in 1 .. t : k # t => M[k] = L[k]
         /\ M[t] = x /\ M[t + 1] = new /\ M[t + 2] = own
    <3>1. nested = [kept EXCEPT ![t] = x]
      <4>1. t \in DOMAIN kept /\ kept[t] = level
        BY <1>2, <1>8
      <4> HIDE DEF kept, level
      <4> QED BY <2>3, <4>1
    <3> HIDE DEF nested, kept, x, new, own
    <3>2. nested = [k \in 1 .. t |-> IF k = t THEN x ELSE kept[k]]
      BY <1>8, <3>1
    <3>3. IsSeq(nested) /\ Len(nested) = t
      <4>1. nested = [k \in 1 .. t |-> nested[k]] /\ t \in Nat
        BY <1>2, <3>2
      <4> QED BY <4>1, FunctionIsSeq
    <3>4. opened \in Seq({new, own}) /\ Len(opened) = 2 /\ opened[1] = new /\ opened[2] = own
      OBVIOUS
    <3>5. IsSeq(opened)
      BY <3>4, SeqIs
    <3> HIDE DEF opened
    <3>6. /\ IsSeq(M) /\ Len(M) = Len(nested) + Len(opened)
          /\ \A i \in 1 .. Len(nested) : M[i] = nested[i]
          /\ \A i \in 1 .. Len(opened) : M[Len(nested) + i] = opened[i]
      BY SMTT(60), <3>3, <3>5, IsSeqConcat
    <3> HIDE DEF M
    <3>7. nested[t] = x /\ \A k \in 1 .. t : k # t => nested[k] = L[k]
      BY <1>2, <1>8, <3>2
    <3>8. M[t] = x /\ \A k \in 1 .. t : k # t => M[k] = L[k]
      BY SMTT(60), <1>2, <3>3, <3>6, <3>7
    <3>9. M[t + 1] = new /\ M[t + 2] = own
      BY <3>3, <3>4, <3>6
    <3> QED BY <3>3, <3>4, <3>6, <3>8, <3>9
  <2> DEFINE h == HasProperties(n + 1)
             D == LastHas(M, h)
  <2> HIDE DEF M, h, x, new, own
  <2>11. Len(M) # 0 /\ t + 2 \in Nat /\ Len(M) = t + 2
    BY <1>2, <2>10
  <2>12. /\ IsSeq(D) /\ Len(D) = t + 2 /\ D[t + 2] = [own EXCEPT !.hasProperties = h]
         /\ \A k \in 1 .. t + 2 : k # t + 2 => D[k] = M[k]
    <3>1. /\ IsSeq(D) /\ Len(D) = Len(M) /\ D[Len(M)] = [M[Len(M)] EXCEPT !.hasProperties = h]
          /\ \A k \in 1 .. Len(M) : k # Len(M) => D[k] = M[k]
      BY SMTT(60), <2>10, <2>11, LastHasIs
    <3> HIDE DEF D
    <3> QED BY Zenon, <2>10, <2>11, <3>1
  <2> HIDE DEF D
  <2>13. ASSUME NEW k \in 1 .. t + 2 PROVE Fits(D[k], n + 1, k)
    <3>1. CASE k = t + 2
      <4>1. Fits([own EXCEPT !.hasProperties = h], n + 1, t + 2)
        BY <1>10, <2>1 DEF h
      <4> QED BY Zenon, <2>12, <3>1, <4>1
    <3>2. CASE k = t + 1
      <4>1. D[k] = new
        BY <1>2, <2>10, <2>12, <3>2
      <4> QED BY Zenon, <2>9, <3>2, <4>1
    <3>3. CASE k = t
      <4>1. D[k] = x
        BY <1>2, <2>10, <2>12, <3>3
      <4> QED BY Zenon, <2>5, <3>3, <4>1
    <3>4. CASE k # t /\ k # t + 1 /\ k # t + 2
      <4>1. k \in 1 .. t
        BY <1>2, <3>4
      <4>2. D[k] = L[k]
        BY <2>10, <2>12, <3>4, <4>1
      <4> QED BY <1>9, <3>4, <4>1, <4>2
    <3> QED BY <3>1, <3>2, <3>3, <3>4
  <2>14. Describes(D, n + 1)
    <3> HIDE DEF path
    <3>1. IsSeq(D) /\ Len(D) = Len(path) /\ \A k \in 1 .. Len(path) : Fits(D[k], n + 1, k)
      BY SMTT(60), <2>1, <2>12, <2>13
    <3> QED BY <1>11, <3>1
  <2>15. D = LastHas(H.levels, HasProperties(n + 1))
    BY <2>7 DEF D, M, h
  <2> QED BY <1>0, <2>7, <2>8, <2>14, <2>15
<1>13. CASE ~Even(t)
  <2> DEFINE x == [level EXCEPT !.index = @ + 1]
             h == HasProperties(n + 1)
             M == Append(counted, own)
             D == LastHas(M, h)
  <2>1. Len(path) = t + 1
    BY <1>0, <1>13, Attach
  <2>2. property = 0
    <3>1. t + 1 # t + 2
      BY <1>2
    <3> QED BY <1>7, <2>1, <3>1 DEF Property
  <2>3. H.text = t2 /\ H.levels = M
    <3> HIDE DEF t1, t2, nested, opened, counted, own, left, property, level
    <3> QED BY <1>2, <1>3, <2>2
  <2>4. ListLevel(level, n, t)
    BY <1>5, <1>13 DEF Fits
  <2>5. t2 = Gap(n, t)
    <3> DEFINE c == Comma(level.index > 0)
               E == Elements(n, t)
    <3>1. level.index > 0 <=> E # {}
      BY <2>4 DEF ListLevel
    <3>2. First(n, t) = <<>> /\ Open(n + 1, t) = <<>>
      BY <1>13 DEF First, Open
    <3> HIDE DEF E, level
    <3>3. c = Sep(E, <<>>)
      BY Zenon, <3>1 DEF Comma, Sep
    <3>4. IsSeq(c)
      BY CommaIs
    <3> HIDE DEF c
    <3>5. c \o <<>> = c
      BY <3>4, ConcatNone
    <3> QED BY Zenon, <1>4, <3>2, <3>3, <3>5 DEF Gap, E, c
  <2>6. Fits(x, n + 1, t)
    BY <1>0, <1>5, <1>13, FitsTopOdd
  <2>7. /\ IsSeq(M) /\ Len(M) = t + 1 /\ \A k \in 1 .. t : k # t => M[k] = L[k]
        /\ M[t] = x /\ M[t + 1] = own
    <3>1. counted = [kept EXCEPT ![t] = x]
      <4>1. t \in DOMAIN kept /\ kept[t] = level
        BY <1>2, <1>8
      <4> HIDE DEF kept, level
      <4> QED BY <4>1
    <3> HIDE DEF counted, kept, x, own
    <3>2. counted = [k \in 1 .. t |-> IF k = t THEN x ELSE kept[k]]
      BY <1>8, <3>1
    <3>3. IsSeq(counted) /\ Len(counted) = t
      <4>1. counted = [k \in 1 .. t |-> counted[k]] /\ t \in Nat
        BY <1>2, <3>2
      <4> QED BY <4>1, FunctionIsSeq
    <3>4. M = counted \o <<own>> /\ IsSeq(<<own>>) /\ Len(<<own>>) = 1 /\ <<own>>[1] = own
      <4>1. IsSeq(<<own>>) /\ Len(<<own>>) = 1 /\ <<own>>[1] = own
        BY OneIsSeq
      <4>2. Append(counted, own) = counted \o <<own>>
        BY <3>3, AppendIsConcat DEF IsSeq
      <4> QED BY <4>1, <4>2
    <3> DEFINE o == <<own>>
    <3>5. M = counted \o o /\ IsSeq(o) /\ Len(o) = 1 /\ o[1] = own
      BY <3>4
    <3> HIDE DEF M, o
    <3>6. /\ IsSeq(M) /\ Len(M) = Len(counted) + Len(o)
          /\ \A i \in 1 .. Len(counted) : M[i] = counted[i]
          /\ \A i \in 1 .. Len(o) : M[Len(counted) + i] = o[i]
      <4> DEFINE y == counted \o o
      <4>1. IsSeq(counted) /\ IsSeq(o)
        BY <3>3, <3>5
      <4>2. /\ IsSeq(y) /\ Len(y) = Len(counted) + Len(o)
            /\ \A i \in 1 .. Len(counted) : y[i] = counted[i]
            /\ \A i \in 1 .. Len(o) : y[Len(counted) + i] = o[i]
        BY ONLY <4>1, IsSeqConcat
      <4> QED BY <3>5, <4>2
    <3>7. counted[t] = x /\ \A k \in 1 .. t : k # t => counted[k] = L[k]
      BY <1>2, <1>8, <3>2
    <3>8. M[t] = x /\ \A k \in 1 .. t : k # t => M[k] = L[k]
      BY <1>2, <3>3, <3>6, <3>7
    <3>9. M[t + 1] = own
      BY <3>3, <3>5, <3>6
    <3> QED BY <3>3, <3>5, <3>6, <3>8, <3>9
  <2> HIDE DEF M, h, x, own
  <2>8. Len(M) # 0 /\ t + 1 \in Nat /\ Len(M) = t + 1
    BY <1>2, <2>7
  <2>9. /\ IsSeq(D) /\ Len(D) = t + 1 /\ D[t + 1] = [own EXCEPT !.hasProperties = h]
        /\ \A k \in 1 .. t + 1 : k # t + 1 => D[k] = M[k]
    <3>1. /\ IsSeq(D) /\ Len(D) = Len(M) /\ D[Len(M)] = [M[Len(M)] EXCEPT !.hasProperties = h]
          /\ \A k \in 1 .. Len(M) : k # Len(M) => D[k] = M[k]
      BY <2>7, <2>8, LastHasIs
    <3> HIDE DEF D
    <3> QED BY Zenon, <2>7, <2>8, <3>1
  <2> HIDE DEF D
  <2>10. ASSUME NEW k \in 1 .. t + 1 PROVE Fits(D[k], n + 1, k)
    <3>1. CASE k = t + 1
      <4>1. Fits([own EXCEPT !.hasProperties = h], n + 1, t + 1)
        BY <1>10, <2>1 DEF h
      <4> QED BY Zenon, <2>9, <3>1, <4>1
    <3>2. CASE k = t
      <4>1. D[k] = x
        BY <1>2, <2>7, <2>9, <3>2
      <4> QED BY Zenon, <2>6, <3>2, <4>1
    <3>3. CASE k # t /\ k # t + 1
      <4>1. k \in 1 .. t
        BY <1>2, <3>3
      <4>2. D[k] = L[k]
        BY <2>7, <2>9, <3>3, <4>1
      <4> QED BY <1>9, <3>3, <4>1, <4>2
    <3> QED BY <3>1, <3>2, <3>3
  <2>11. Describes(D, n + 1)
    <3> HIDE DEF path
    <3>1. IsSeq(D) /\ Len(D) = Len(path) /\ \A k \in 1 .. Len(path) : Fits(D[k], n + 1, k)
      BY SMTT(60), <2>1, <2>9, <2>10
    <3> QED BY <1>11, <3>1
  <2>12. D = LastHas(H.levels, HasProperties(n + 1))
    BY <2>3 DEF D, M, h
  <2> QED BY <1>0, <2>3, <2>5, <2>11, <2>12
<1> QED BY <1>12, <1>13

\* handleLevel (base.js) puts the rows of a statement together, whatever their
\* number and nesting: if what a stream has given is, with what handleLevel
\* closes it with, the JSON of the first rows, then so it is after it has given
\* handleLevel's text for the next row and that row without its last brace; and
\* the levels, once told of the row's own properties, are those of that row.
THEOREM HandleLevelContinues ==
    ASSUME Sound, NEW n \in 0 .. Len(Rows), n < Len(Rows), NEW L, Describes(L, n),
           NEW G, IsSeq(G), Expected(n) = G \o HandleLevel(L, <<>>, <<>>).text,
           NEW H, H = HandleLevel(L, Rows[n + 1].path, Rows[n + 1].expands),
           NEW M, M = LastHas(H.levels, HasProperties(n + 1))
    PROVE  /\ Describes(M, n + 1)
           /\ Expected(n + 1) = (G \o (H.text \o Body(n + 1))) \o HandleLevel(M, <<>>, <<>>).text
<1>1. PathOf(n + 1) = Rows[n + 1].path /\ n + 1 \in 0 .. Len(Rows)
  BY DEF PathOf
<1>2. PICK t : IsTop(n, t) /\ H.text = Gap(n, t)
  BY <1>1, NextLevels
<1>3. Describes(M, n + 1)
  BY <1>1, NextLevels
<1>4. Expected(n) = G \o Down(n, 0)
  BY LevelsEnd
<1>5. Expected(n + 1) = (G \o Delta(n, t)) \o Down(n + 1, 0)
  BY <1>2, <1>4, ExpectedStep
<1>6. HandleLevel(M, <<>>, <<>>).text = Down(n + 1, 0)
  BY <1>1, <1>3, LevelsEnd
<1>7. Delta(n, t) = H.text \o Body(n + 1)
  BY <1>2 DEF Delta
<1> QED BY <1>3, <1>5, <1>6, <1>7

----------------------------------------------------------------------------
(* parseRows: a fold                                                      *)

\* A fold, one row after the other.
Folded(f, first, rows, D) ==
    f = [s \in SUBSET D |->
            IF s = {} THEN first ELSE ParseRow(f[s \ {Max(s)}], rows[Max(s)])]

LEMMA MaxIs ==
    ASSUME NEW n \in Nat, NEW s \in SUBSET (1 .. n), n \in s
    PROVE  Max(s) = n
<1>1. \E x \in s : \A y \in s : x >= y
  <2>1. n \in s /\ \A y \in s : n >= y
    OBVIOUS
  <2> QED BY Zenon, <2>1
<1>2. Max(s) \in s /\ \A y \in s : Max(s) >= y
  BY Zenon, <1>1 DEF Max
<1> DEFINE m == Max(s)
<1>3. m \in s /\ m >= n
  BY <1>2
<1> HIDE DEF m
<1>4. m = n
  BY <1>3
<1> QED BY <1>4 DEF m

LEMMA FoldedExists ==
    ASSUME NEW first, NEW rows
    PROVE  \A n \in Nat : \E f : Folded(f, first, rows, 1 .. n)
<1> DEFINE P == {n \in Nat : \E f : Folded(f, first, rows, 1 .. n)}
<1>1. 0 \in P
  <2> DEFINE f == [s \in SUBSET {} |-> first]
             g == [s \in SUBSET (1 .. 0) |->
                      IF s = {} THEN first ELSE ParseRow(f[s \ {Max(s)}], rows[Max(s)])]
  <2>1. 1 .. 0 = {} /\ \A s \in SUBSET {} : s = {}
    OBVIOUS
  <2>2. f = g
    BY Zenon, <2>1
  <2>3. Folded(f, first, rows, 1 .. 0)
    BY Zenon, <2>2 DEF Folded
  <2> QED BY <2>3
<1>2. ASSUME NEW n \in P PROVE n + 1 \in P
  <2> DEFINE q == n + 1
  <2>1. PICK f : Folded(f, first, rows, 1 .. n)
    OBVIOUS
  <2>2. n \in Nat /\ q \in Nat /\ q \notin 1 .. n /\ 1 .. q = (1 .. n) \cup {q}
    OBVIOUS
  <2> DEFINE g == [s \in SUBSET (1 .. q) |->
                      IF q \in s THEN ParseRow(f[s \ {q}], rows[q]) ELSE f[s]]
             h == [s \in SUBSET (1 .. q) |->
                      IF s = {} THEN first ELSE ParseRow(g[s \ {Max(s)}], rows[Max(s)])]
  <2> HIDE DEF q
  <2>3. ASSUME NEW s \in SUBSET (1 .. q) PROVE g[s] = h[s]
    <3>1. CASE q \in s
      <4>1. Max(s) = q /\ s # {} /\ s \ {q} \in SUBSET (1 .. q) /\ q \notin s \ {q}
        BY <2>2, <3>1, MaxIs
      <4>2. s \ {q} \in SUBSET (1 .. n)
        BY <2>2
      <4>3. g[s \ {q}] = f[s \ {q}]
        BY Zenon, <4>1
      <4>4. g[s] = ParseRow(f[s \ {q}], rows[q])
        BY Zenon, <3>1
      <4>5. h[s] = ParseRow(g[s \ {q}], rows[q])
        BY Zenon, <4>1
      <4> QED BY <4>3, <4>4, <4>5
    <3>2. CASE q \notin s
      <4> DEFINE r == s \ {Max(s)}
      <4>1. s \in SUBSET (1 .. n) /\ r \in SUBSET (1 .. q) /\ q \notin r
        BY <2>2, <3>2
      <4>2. f[s] = IF s = {} THEN first ELSE ParseRow(f[r], rows[Max(s)])
        BY Zenon, <2>1, <4>1 DEF Folded
      <4>3. g[r] = f[r] /\ g[s] = f[s]
        <5> HIDE DEF r
        <5> QED BY Zenon, <3>2, <4>1
      <4>4. h[s] = IF s = {} THEN first ELSE ParseRow(g[r], rows[Max(s)])
        <5> HIDE DEF g
        <5> QED OBVIOUS
      <4> HIDE DEF g, h, r
      <4> QED BY <4>2, <4>3, <4>4
    <3> QED BY <3>1, <3>2
  <2>4. g = h
    <3>1. g = [s \in SUBSET (1 .. q) |-> g[s]] /\ h = [s \in SUBSET (1 .. q) |-> h[s]]
      OBVIOUS
    <3> HIDE DEF g, h
    <3> QED BY Zenon, <2>3, <3>1
  <2>5. Folded(g, first, rows, 1 .. q)
    <3> HIDE DEF g
    <3> QED BY Zenon, <2>4 DEF Folded, h
  <2> QED BY <2>2, <2>5 DEF q
<1>3. P = Nat
  <2>1. P \subseteq Nat
    OBVIOUS
  <2> HIDE DEF P
  <2> QED BY <1>1, <1>2, <2>1, SetInduction
<1> QED BY <1>3

\* What FoldLeft makes of the first k rows.
LEMMA ParsedSteps ==
    ASSUME NEW first, NEW rows, IsSeq(rows)
    PROVE  \E g : /\ g[0] = first
                  /\ \A k \in 1 .. Len(rows) : g[k] = ParseRow(g[k - 1], rows[k])
                  /\ FoldLeft(ParseRow, first, rows) = g[Len(rows)]
<1> DEFINE n == Len(rows)
           iter == CHOOSE f : Folded(f, first, rows, 1 .. n)
           g == [k \in 0 .. n |-> iter[1 .. k]]
<1>1. n \in Nat /\ DOMAIN rows = 1 .. n
  BY IsSeqLen
<1> HIDE DEF n
<1>2. Folded(iter, first, rows, 1 .. n)
  BY <1>1, FoldedExists
<1>3. FoldLeft(ParseRow, first, rows) = iter[1 .. n]
  BY <1>1 DEF FoldLeft, MapThenFoldSet, Folded
<1> HIDE DEF iter
<1>4. \A s \in SUBSET (1 .. n) :
          iter[s] = IF s = {} THEN first ELSE ParseRow(iter[s \ {Max(s)}], rows[Max(s)])
  BY Zenon, <1>2 DEF Folded
<1>5. g[0] = first
  <2>1. 1 .. 0 = {} /\ 0 \in 0 .. n /\ {} \in SUBSET (1 .. n)
    BY <1>1
  <2>2. iter[{}] = first
    BY <1>4, <2>1
  <2>3. g[0] = iter[1 .. 0]
    BY <2>1
  <2> QED BY <2>1, <2>2, <2>3
<1>6. ASSUME NEW k \in 1 .. n PROVE g[k] = ParseRow(g[k - 1], rows[k])
  <2> DEFINE s == 1 .. k
             j == k - 1
  <2>1. k \in Nat /\ j \in 0 .. n /\ k \in 0 .. n /\ s \in SUBSET (1 .. n) /\ s # {} /\ k \in s
        /\ s \ {k} = 1 .. j
    BY <1>1
  <2>2. Max(s) = k
    BY <2>1, MaxIs
  <2>3. g[k] = iter[s] /\ g[j] = iter[1 .. j]
    BY <2>1
  <2> HIDE DEF s, j, g
  <2>4. iter[s] = ParseRow(iter[s \ {k}], rows[k])
    BY <1>4, <2>1, <2>2
  <2> QED BY <2>1, <2>3, <2>4 DEF j
<1>7. g[n] = iter[1 .. n]
  BY <1>1
<1> HIDE DEF g
<1>8. FoldLeft(ParseRow, first, rows) = g[n]
  BY <1>3, <1>7
<1> QED BY <1>5, <1>6, <1>8 DEF n

----------------------------------------------------------------------------
(* The rows of a set of numbers, in their order                           *)

LEMMA RowsDiffer ==
    ASSUME Sound, NEW i \in 1 .. Len(Rows), NEW j \in 1 .. Len(Rows)
    PROVE  /\ Rows[i].path = Rows[j].path => i = j
           /\ Precedes(Rows[i].path, Rows[j].path) <=> i < j
<1> DEFINE p == PathOf(i)
           q == PathOf(j)
<1>1. /\ p \in Seq(Nat) /\ q \in Seq(Nat) /\ Len(p) \in Nat /\ Len(q) \in Nat
      /\ p = Rows[i].path /\ q = Rows[j].path
      /\ i \in 0 .. Len(Rows) /\ j \in 0 .. Len(Rows) /\ i \in Nat /\ j \in Nat
  BY SMTT(60), PathsAre DEF Sound, PathOf
<1>2. ASSUME p = q PROVE i = j
  <2>1. Len(p) = Len(q) /\ Agree(p, q, Len(p))
    BY <1>1, <1>2 DEF Agree
  <2> QED BY <1>1, <2>1, SameRow
<1>3. ASSUME i < j PROVE Precedes(p, q)
  BY <1>1, <1>3, InOrder
<1>4. ASSUME Precedes(p, q) PROVE i < j
  <2>1. ~Agree(q, p, Len(q))
    <3> HIDE DEF p, q
    <3> QED BY <1>1, <1>4, PrecedesOnce
  <2>2. i # j
    <3>1. ASSUME i = j PROVE FALSE
      <4>1. p = q
        BY <3>1
      <4> HIDE DEF p, q
      <4> QED BY <1>1, <2>1, <4>1 DEF Agree
    <3> QED BY <3>1
  <2>3. ASSUME j < i PROVE FALSE
    <3>1. Precedes(q, p)
      BY <1>1, <2>3, InOrder
    <3> HIDE DEF p, q
    <3>2. Agree(q, q, Len(q))
      BY <1>1 DEF Agree
    <3>3. Agree(q, p, Len(q))
      BY <1>1, <1>4, <3>1, <3>2, Between
    <3> QED BY <2>1, <3>3
  <2> QED BY <1>1, <2>2, <2>3
<1> QED BY <1>1, <1>2, <1>3, <1>4

\* The rows with these numbers.
RowsOf(K) == {Rows[k] : k \in K}
LEMMA RowsOfCardinality ==
    ASSUME Sound, NEW K \in SUBSET (1 .. Len(Rows))
    PROVE  Cardinality(RowsOf(K)) = Cardinality(K) /\ Cardinality(K) \in Nat /\ Numbers(K)
<1> DEFINE f == [k \in K |-> Rows[k]]
           R == RowsOf(K)
<1>1. IsFiniteSet(K) /\ Cardinality(K) \in Nat /\ Numbers(K)
  <2>1. Len(Rows) \in Nat
    BY PathsAre DEF Sound
  <2>2. IsFiniteSet(1 .. Len(Rows))
    BY <2>1, FS_Interval
  <2>3. IsFiniteSet(K)
    BY Zenon, <2>2, FS_Subset
  <2>4. K \in SUBSET Nat
    BY <2>1
  <2> QED BY <2>3, <2>4, FS_CardinalityType DEF Numbers
<1>2. \A i, j \in K : f[i] = f[j] => i = j
  BY RowsDiffer
<1>3. f \in [K -> R] /\ \A r \in R : \E k \in K : f[k] = r
  BY DEF RowsOf
<1>4. f \in Bijection(K, R)
  <2> HIDE DEF f, R
  <2> QED BY <1>2, <1>3 DEF Bijection, Injection, Surjection, IsInjective
<1>5. ExistsBijection(K, R)
  BY Zenon, <1>4 DEF ExistsBijection
<1>6. Cardinality(R) = Cardinality(K)
  <2> HIDE DEF f, R
  <2> QED BY <1>1, <1>5, FS_Bijection
<1> QED BY <1>1, <1>6

\* Rows of the result are in the order of their numbers.
LEMMA OrderedIs ==
    ASSUME Sound, NEW K \in SUBSET (1 .. Len(Rows))
    PROVE  /\ Ordered(RowsOf(K)) = [k \in 1 .. Cardinality(K) |-> Rows[Ascending(K)[k]]]
           /\ \A k \in 1 .. Cardinality(K) : Ascending(K)[k] \in K
           /\ Cardinality(K) \in Nat
<1>1. /\ Cardinality(RowsOf(K)) = Cardinality(K) /\ Cardinality(K) \in Nat /\ Numbers(K)
      /\ \A k \in 1 .. Cardinality(K) :
            Ascending(K)[k] \in K /\ Cardinality(Below(K, Ascending(K)[k])) = k - 1
  BY RowsOfCardinality, AscendingIs
<1> DEFINE Rank(r) == Cardinality({s \in RowsOf(K) : Precedes(s.path, r.path)})
<1>2. ASSUME NEW x \in K PROVE Rank(Rows[x]) = Cardinality(Below(K, x))
  <2>1. Below(K, x) \in SUBSET (1 .. Len(Rows))
    BY DEF Below
  <2>2. {s \in RowsOf(K) : Precedes(s.path, Rows[x].path)} = RowsOf(Below(K, x))
    <3>1. \A k \in K : Precedes(Rows[k].path, Rows[x].path) <=> k < x
      BY RowsDiffer
    <3> QED BY <3>1 DEF RowsOf, Below
  <2> QED BY <2>1, <2>2, RowsOfCardinality
<1>3. ASSUME NEW k \in 1 .. Cardinality(K)
      PROVE  (CHOOSE r \in RowsOf(K) : Rank(r) = k - 1) = Rows[Ascending(K)[k]]
  <2> DEFINE x == Ascending(K)[k]
             c == k - 1
  <2>1. x \in K /\ Rank(Rows[x]) = c /\ Rows[x] \in RowsOf(K)
    BY <1>1, <1>2 DEF RowsOf
  <2>2. ASSUME NEW r \in RowsOf(K), Rank(r) = c PROVE r = Rows[x]
    <3>1. PICK y \in K : r = Rows[y]
      BY DEF RowsOf
    <3>2. Cardinality(Below(K, y)) = Cardinality(Below(K, x))
      BY <1>2, <2>1, <2>2, <3>1
    <3>3. x = y
      <4> HIDE DEF x
      <4> QED BY <1>1, <2>1, <3>2, BelowOnce
    <3> QED BY <3>1, <3>3
  <2> HIDE DEF x, c, Rank
  <2>3. (CHOOSE r \in RowsOf(K) : Rank(r) = c) = Rows[x]
    BY Zenon, <2>1, <2>2
  <2> QED BY <2>3 DEF x, c
<1> QED BY <1>1, <1>3 DEF Ordered

\* The paths of some rows, in their order.
PathsOf(K) == [k \in 1 .. Cardinality(K) |-> Rows[Ascending(K)[k]].path]

LEMMA PathsOfNone == PathsOf({}) = <<>>
<1>1. Cardinality({}) = 0
  BY FS_EmptySet
<1>2. 1 .. 0 = {}
  OBVIOUS
<1> QED BY <1>1, <1>2 DEF PathsOf

LEMMA PathsOfAdd ==
    ASSUME NEW K, Numbers(K), NEW p \in Nat, \A x \in K : x < p
    PROVE  PathsOf(K \cup {p}) = Append(PathsOf(K), Rows[p].path)
<1> DEFINE c == Cardinality(K)
           S == K \cup {p}
           f == [k \in 1 .. c + 1 |-> IF k = c + 1 THEN Rows[p].path ELSE PathsOf(K)[k]]
<1>1. /\ c \in Nat /\ Cardinality(S) = c + 1 /\ Ascending(S)[c + 1] = p
      /\ \A k \in 1 .. c : Ascending(S)[k] = Ascending(K)[k]
  BY AscendingAdd
<1>2. PathsOf(K) = [k \in 1 .. c |-> Rows[Ascending(K)[k]].path]
  BY DEF PathsOf
<1>3. Append(PathsOf(K), Rows[p].path) = f
  <2> DEFINE s == PathsOf(K)
  <2>1. s \in Seq(Range(s)) /\ Len(s) = c
    <3>1. IsSeq(s) /\ Len(s) = c
      <4> HIDE DEF c
      <4> QED BY <1>1, <1>2, FunctionIsSeq
    <3> QED BY <3>1 DEF IsSeq
  <2> HIDE DEF s, c
  <2> QED BY <2>1, AppendProperties DEF s
<1>4. ASSUME NEW k \in 1 .. c + 1 PROVE Rows[Ascending(S)[k]].path = f[k]
  <2>1. CASE k = c + 1
    BY <1>1, <2>1
  <2>2. CASE k # c + 1
    <3>1. k \in 1 .. c
      BY <1>1, <2>2
    <3>2. f[k] = Rows[Ascending(K)[k]].path
      BY <1>2, <2>2, <3>1
    <3> QED BY <1>1, <3>1, <3>2
  <2> QED BY <2>1, <2>2
<1>5. PathsOf(S) = f
  BY <1>1, <1>4 DEF PathsOf
<1> QED BY <1>3, <1>5

LEMMA ParentOf ==
    ASSUME NEW p \in Seq(Nat), NEW q \in Seq(Nat), Len(p) + 2 = Len(q)
    PROVE  Parent(q) = p <=> Agree(p, q, Len(p))
<1> DEFINE n == Len(p)
<1>1. n \in Nat /\ Len(q) \in Nat /\ Len(q) - 2 = n /\ n <= Len(q)
  BY LenProperties
<1>2. IsSeq(p) /\ IsSeq(q)
  BY SeqIs
<1> DEFINE z == 0
           r == SubSeq(q, z + 1, n)
<1>3. z \in Nat /\ z <= n /\ n - z = n /\ z + 1 = 1 /\ \A k \in 1 .. n : z + k = k
  BY <1>1
<1> HIDE DEF z
<1>4. IsSeq(r) /\ Len(r) = n /\ \A k \in 1 .. n : r[k] = q[k]
  <2>1. IsSeq(r) /\ Len(r) = n - z /\ \A k \in 1 .. n - z : r[k] = q[z + k]
    <3>1. z \in Nat /\ n \in Nat /\ z <= n
      BY <1>1, <1>3
    <3> HIDE DEF n
    <3> QED BY <3>1, PieceIs
  <2> HIDE DEF r
  <2> QED BY <1>3, <2>1
<1>5. Parent(q) = r
  BY <1>1, <1>3 DEF Parent
<1> HIDE DEF r
<1>6. r = p <=> \A k \in 1 .. n : p[k] = q[k]
  <2>1. ASSUME \A k \in 1 .. n : p[k] = q[k] PROVE r = p
    <3>1. \A k \in 1 .. Len(r) : r[k] = p[k]
      BY <1>4, <2>1
    <3> QED BY <1>2, <1>4, <3>1, SameSeq
  <2> QED BY <1>4, <2>1
<1> QED BY <1>1, <1>5, <1>6 DEF Agree

LEMMA RowPaths ==
    ASSUME Sound
    PROVE  /\ Len(Rows) \in Nat /\ DOMAIN Rows = 1 .. Len(Rows)
           /\ \A x \in 1 .. Len(Rows) :
                /\ PathOf(x) = Rows[x].path /\ PathOf(x) \in Seq(Nat)
                /\ Len(PathOf(x)) \in Nat /\ Len(PathOf(x)) >= 2 /\ Even(Len(PathOf(x)))
                /\ PathOf(x)[1] = 0
<1>1. Len(Rows) \in Nat /\ DOMAIN Rows = 1 .. Len(Rows)
  BY RowsAre DEF Sound
<1>2. \A x \in 1 .. Len(Rows) : x \in 0 .. Len(Rows)
  BY <1>1
<1> QED BY <1>1, <1>2, PathsAre DEF Sound

\* The first row of an expand to one is the only one.
LEMMA OneIs ==
    ASSUME Sound, OneEach(Rows), NEW n \in 0 .. Len(Rows), n < Len(Rows), NEW j \in 1 .. n,
           NEW p, Rows[j].expands[p] # "many", IsOf(n, j, p)
    PROVE  Of(n, j, p) = {}
<1> DEFINE r == n + 1
<1>1. /\ j \in 1 .. Len(Rows) /\ r \in 1 .. Len(Rows) /\ n \in Nat /\ Len(Rows) \in Nat
  BY PathsAre DEF Sound
<1>2. ASSUME NEW i \in Of(n, j, p) PROVE FALSE
  <2>1. /\ i \in 1 .. n /\ i \in 1 .. Len(Rows) /\ Len(PathOf(i)) = Len(PathOf(j)) + 2
        /\ Agree(PathOf(j), PathOf(i), Len(PathOf(j))) /\ PathOf(i)[Len(PathOf(j)) + 1] = p
    <3>1. Of(n, j, p) = {k \in 1 .. n : /\ Len(PathOf(k)) = Len(PathOf(j)) + 2
                                       /\ Agree(PathOf(j), PathOf(k), Len(PathOf(j)))
                                       /\ PathOf(k)[Len(PathOf(j)) + 1] = p}
      BY <1>1, OfIs
    <3>2. i \in 1 .. n => i \in 1 .. Len(Rows)
      BY <1>1
    <3> QED BY Zenon, <1>2, <3>1, <3>2
  <2>2. /\ PathOf(i) = Rows[i].path /\ PathOf(j) = Rows[j].path /\ PathOf(r) = Rows[r].path
        /\ PathOf(i) \in Seq(Nat) /\ PathOf(j) \in Seq(Nat) /\ PathOf(r) \in Seq(Nat)
        /\ Len(PathOf(j)) \in Nat /\ Len(PathOf(j)) >= 2
    BY <1>1, <2>1, RowPaths
  <2> DEFINE a == Rows[i].path
             b == Rows[r].path
             q == Rows[j].path
  <2>3. Len(a) = Len(q) + 2 /\ Len(b) = Len(q) + 2 /\ Parent(a) = q /\ Parent(b) = q
    <3>1. Len(a) = Len(q) + 2 /\ Len(b) = Len(q) + 2
          /\ Agree(q, a, Len(q)) /\ Agree(q, b, Len(q))
      BY <2>1, <2>2 DEF IsOf
    <3>2. a \in Seq(Nat) /\ b \in Seq(Nat) /\ q \in Seq(Nat)
      BY <2>2
    <3> HIDE DEF a, b, q
    <3> QED BY <3>1, <3>2, ParentOf
  <2>4. a[Len(a) - 1] = p /\ b[Len(b) - 1] = p
    <3>1. a[Len(q) + 1] = p /\ b[Len(q) + 1] = p /\ Len(q) \in Nat
      BY <2>1, <2>2 DEF IsOf
    <3>2. Len(a) - 1 = Len(q) + 1 /\ Len(b) - 1 = Len(q) + 1
      <4> HIDE DEF a, b, q
      <4> QED BY <2>3, <3>1
    <3> QED BY <3>1, <3>2
  <2>5. i # r /\ Len(a) > 2 /\ Len(b) = Len(a)
    <3>1. Len(q) \in Nat /\ Len(q) >= 2
      BY <2>2
    <3> HIDE DEF a, b, q
    <3> QED BY <1>1, <2>1, <2>3, <3>1
  <2>6. i \in DOMAIN Rows /\ r \in DOMAIN Rows /\ j \in DOMAIN Rows
    <3>1. DOMAIN Rows = 1 .. Len(Rows)
      BY RowsAre DEF Sound
    <3> QED BY <1>1, <2>1, <3>1
  <2>7. Rows[j].expands[a[Len(a) - 1]] = "many"
    BY ZenonT(60), <2>3, <2>4, <2>5, <2>6 DEF OneEach
  <2> QED BY <2>4, <2>7
<1> QED BY <1>2

----------------------------------------------------------------------------
(* The stack of parseRows                                                  *)

\* The stack of parseRows: the root, and the rows that row n is below, or is.
Entry(i) == [path |-> Rows[i].path, expands |-> Rows[i].expands]
StackOf(L, n) ==
    /\ IsSeq(L) /\ Len(L) >= 1
    /\ IF n = 0 THEN Len(L) = 1 ELSE Len(PathOf(n)) = 2 * (Len(L) - 1)
    /\ L[1] = [path |-> RootPath, expands |-> <<>>]
    /\ \A m \in 2 .. Len(L) : \E i \in 1 .. n :
          /\ L[m] = Entry(i) /\ Len(PathOf(i)) = 2 * (m - 1)
          /\ Agree(PathOf(i), PathOf(n), 2 * (m - 1))

LEMMA NextRow ==
    ASSUME Sound, NEW n \in 0 .. Len(Rows), n < Len(Rows)
    PROVE  /\ n \in Nat /\ n + 1 \in 1 .. Len(Rows) /\ Len(Rows) \in Nat
           /\ PathOf(n) \in Seq(Nat) /\ Len(PathOf(n)) \in Nat
           /\ PathOf(n + 1) \in Seq(Nat) /\ Len(PathOf(n + 1)) \in Nat /\ Len(PathOf(n + 1)) >= 2
           /\ PathOf(n + 1) = Rows[n + 1].path /\ PathOf(n + 1)[1] = 0 /\ Even(Len(PathOf(n + 1)))
<1>1. Len(Rows) \in Nat
  BY RowPaths
<1>2. n \in Nat /\ n + 1 \in 1 .. Len(Rows)
  BY <1>1
<1> QED BY <1>1, <1>2, RowPaths, PathsAre DEF Sound

LEMMA BelowStack ==
    ASSUME Sound, NEW n \in 0 .. Len(Rows), n < Len(Rows), NEW L, StackOf(L, n),
           NEW q, q = PathOf(n + 1)
    PROVE  /\ IsBelow(q, L[1])
           /\ \A m \in 2 .. Len(L) :
                 IsBelow(q, L[m]) <=> Agree(PathOf(n), q, 2 * (m - 1)) /\ 2 * (m - 1) < Len(q)
<1>1. /\ q \in Seq(Nat) /\ Len(q) \in Nat /\ Len(q) >= 2 /\ q[1] = 0 /\ PathOf(n) \in Seq(Nat)
      /\ n \in Nat /\ Len(Rows) \in Nat
  BY Zenon, NextRow
<1>2. IsBelow(q, L[1])
  <2>1. RootPath \in Seq(Nat) /\ Len(RootPath) = 1 /\ RootPath[1] = 0
    BY DEF RootPath
  <2>2. Agree(RootPath, q, Len(RootPath))
    BY <1>1, <2>1 DEF Agree
  <2>3. IsStrictPrefix(RootPath, q)
    <3>1. IsStrictPrefix(RootPath, q) <=> Agree(RootPath, q, Len(RootPath)) /\ Len(RootPath) < Len(q)
      BY Zenon, <1>1, <2>1, PrefixIs
    <3>2. Len(RootPath) < Len(q)
      BY <1>1, <2>1
    <3> QED BY Zenon, <2>2, <3>1, <3>2
  <2>4. L[1].path = RootPath
    BY DEF StackOf
  <2> QED BY <2>3, <2>4 DEF IsBelow
<1>3. ASSUME NEW m \in 2 .. Len(L)
      PROVE  IsBelow(q, L[m]) <=> Agree(PathOf(n), q, 2 * (m - 1)) /\ 2 * (m - 1) < Len(q)
  <2>1. PICK i \in 1 .. n : /\ L[m] = Entry(i) /\ Len(PathOf(i)) = 2 * (m - 1)
                            /\ Agree(PathOf(i), PathOf(n), 2 * (m - 1))
    BY DEF StackOf
  <2> DEFINE p == PathOf(i)
             k == 2 * (m - 1)
  <2>2. i \in 1 .. Len(Rows)
    BY <1>1
  <2>3. p \in Seq(Nat) /\ L[m].path = p /\ Len(p) = k /\ k \in Nat
    BY SMTT(60), <2>1, <2>2, RowPaths DEF Entry
  <2>4. Agree(p, PathOf(n), k) /\ Agree(PathOf(n), p, k)
    <3>1. Agree(p, PathOf(n), k)
      BY <2>1
    <3> HIDE DEF p, k
    <3> QED BY <1>1, <2>3, <3>1, AgreeIs
  <2> HIDE DEF p, k
  <2>5. Agree(p, q, k) <=> Agree(PathOf(n), q, k)
    <3>1. Agree(p, q, k) => Agree(PathOf(n), q, k)
      BY <1>1, <2>3, <2>4, AgreeIs
    <3>2. Agree(PathOf(n), q, k) => Agree(p, q, k)
      BY <1>1, <2>3, <2>4, AgreeIs
    <3> QED BY <3>1, <3>2
  <2>6. IsStrictPrefix(p, q) <=> Agree(p, q, k) /\ k < Len(q)
    BY <1>1, <2>3, PrefixIs
  <2> QED BY <2>3, <2>5, <2>6 DEF IsBelow, k
<1> QED BY <1>2, <1>3

\* The level that a row is put to.
PutBelow(L, path) == Highest({m \in DOMAIN L : IsBelow(path, L[m])})

\* Where the next row is put: below the root, or the row whose expand it is of.
\* Row n + 1, the path of which is q, goes to level top of the stack of row n.
Puts(n, L, q, top) ==
    /\ top \in 1 .. Len(L) /\ Len(L) \in Nat /\ Len(q) = 2 * top
    /\ IsRoot(q) <=> top = 1
    /\ top # 1 => \E j \in 1 .. n : /\ L[top] = Entry(j)
                                   /\ IsOf(n, j, q[Len(q) - 1])
                                   /\ q[Len(q) - 1] \in DOMAIN Rows[j].expands
                                   /\ Agree(PathOf(n), q, Len(q) - 2)
LEMMA StackTop ==
    ASSUME Sound, NEW n \in 0 .. Len(Rows), n < Len(Rows), NEW L, StackOf(L, n),
           NEW q, q = PathOf(n + 1),
           NEW top, top = PutBelow(L, q)
    PROVE  Puts(n, L, q, top)
<1> DEFINE B == {m \in DOMAIN L : IsBelow(q, L[m])}
<1>0. top = Highest(B)
  BY Zenon DEF PutBelow
<1>1. /\ q \in Seq(Nat) /\ Len(q) \in Nat /\ Len(q) >= 2 /\ Even(Len(q)) /\ PathOf(n) \in Seq(Nat)
      /\ n \in Nat /\ Len(Rows) \in Nat /\ n + 1 \in 1 .. Len(Rows)
  BY NextRow
<1>2. IsSeq(L) /\ Len(L) >= 1 /\ Len(L) \in Nat /\ DOMAIN L = 1 .. Len(L)
  BY IsSeqLen DEF StackOf
<1>3. 1 \in B
  BY <1>2, BelowStack
<1>4. \A m \in 2 .. Len(L) : m \in B <=> Agree(PathOf(n), q, 2 * (m - 1)) /\ 2 * (m - 1) < Len(q)
  BY <1>2, BelowStack
<1> HIDE DEF B
<1>5. ASSUME NEW t \in B, \A m \in B : m <= t PROVE top = t
  <2>1. t \in Nat /\ \A m \in B : m \in Nat
    BY <1>2 DEF B
  <2>2. top \in B /\ \A j \in B : j <= top
    <3>1. \E i \in B : \A j \in B : j <= i
      <4>1. t \in B /\ \A j \in B : j <= t
        BY <1>5
      <4> QED BY Zenon, <4>1
    <3>2. B # {}
      BY <1>3
    <3>3. top = CHOOSE i \in B : \A j \in B : j <= i
      BY Zenon, <1>0, <3>2 DEF Highest
    <3> QED BY Zenon, <3>1, <3>3
  <2> QED BY <1>5, <2>1, <2>2
<1>6. CASE IsRoot(q)
  <2>1. Len(q) = 2
    BY <1>6 DEF IsRoot
  <2>2. \A m \in B : m <= 1
    <3>1. ASSUME NEW m \in B, m # 1 PROVE FALSE
      <4>1. m \in 2 .. Len(L)
        BY <1>2, <3>1 DEF B
      <4>2. 2 * (m - 1) < 2
        BY <1>4, <2>1, <4>1
      <4> QED BY <4>1, <4>2
    <3>2. \A m \in B : m = 1
      BY Zenon, <3>1
    <3>3. 1 <= 1
      OBVIOUS
    <3> QED BY Zenon, <3>2, <3>3
  <2>3. top = 1
    BY Zenon, <1>3, <1>5, <2>2
  <2>4. top \in 1 .. Len(L) /\ Len(q) = 2 * top
    <3>1. 1 \in 1 .. Len(L) /\ Len(q) = 2 * 1
      BY <1>2, <2>1
    <3> QED BY Zenon, <2>3, <3>1
  <2> QED BY Zenon, <1>2, <1>6, <2>3, <2>4 DEF Puts
<1>7. CASE ~IsRoot(q)
  <2>1. Len(q) # 2
    BY <1>7 DEF IsRoot
  <2> DEFINE r == n + 1
             k == Len(q) - 2
  <2>2. r \in 1 .. Len(Rows) /\ r - 1 = n /\ PathOf(r) = q
    BY <1>1
  <2>3. PICK j \in 1 .. n : /\ IsAnc(j, r, k) /\ j \in 1 .. Len(Rows) /\ k \in Nat \ {0} /\ Even(k)
                            /\ q[k + 1] \in DOMAIN Rows[j].expands
    <3> HIDE DEF r
    <3>1. Len(PathOf(r)) # 2 /\ Len(PathOf(r)) - 2 = k
      BY <2>1, <2>2
    <3>2. \E j \in 1 .. r - 1 : /\ IsAnc(j, r, Len(PathOf(r)) - 2) /\ j \in 1 .. Len(Rows)
                                 /\ Len(PathOf(r)) - 2 \in Nat \ {0} /\ Even(Len(PathOf(r)) - 2)
                                 /\ PathOf(r)[Len(PathOf(r)) - 2 + 1] \in DOMAIN Rows[j].expands
      BY Zenon, <2>2, <3>1, ParentIs
    <3> HIDE DEF k
    <3>3. \E j \in 1 .. n : /\ IsAnc(j, r, k) /\ j \in 1 .. Len(Rows) /\ k \in Nat \ {0} /\ Even(k)
                            /\ q[k + 1] \in DOMAIN Rows[j].expands
      BY <2>2, <3>1, <3>2
    <3> QED BY Zenon, <3>3
  <2>4. Len(PathOf(j)) = k /\ Agree(PathOf(j), q, k)
    BY <2>2, <2>3 DEF IsAnc
  <2>5. Agree(PathOf(j), PathOf(n), k) /\ Agree(PathOf(n), q, k)
    <3>1. j \in 0 .. Len(Rows) /\ n \in 0 .. Len(Rows) /\ r \in 0 .. Len(Rows) /\ j <= n /\ n <= r
          /\ k \in Nat
      BY <1>1, <2>3
    <3>2. Agree(PathOf(j), PathOf(r), k)
      BY <2>2, <2>4
    <3> HIDE DEF k, r
    <3> QED BY <2>2, <3>1, <3>2, Inside
  <2>6. n # 0
    BY <1>1
  <2>7. Len(PathOf(n)) = 2 * (Len(L) - 1) /\ k <= Len(PathOf(n))
    <3>1. k <= Len(PathOf(n))
      BY <2>5 DEF Agree
    <3> QED BY <2>6, <3>1 DEF StackOf
  <2>8. PICK d \in Nat : k = 2 * d
    BY <2>3 DEF Even
  <2> DEFINE t == d + 1
  <2>9. t \in 2 .. Len(L) /\ 2 * (t - 1) = k /\ Len(q) = 2 * t /\ k < Len(q)
    <3>1. d # 0
      <4>1. k # 0 /\ k = 2 * d
        BY <2>3, <2>8
      <4> HIDE DEF k
      <4> QED BY <4>1
    <3>2. 2 * d <= 2 * (Len(L) - 1)
      BY <2>7, <2>8
    <3>3. d <= Len(L) - 1
      BY <1>2, <3>2
    <3>4. Len(q) = 2 * d + 2
      BY <1>1, <2>8
    <3> HIDE DEF k
    <3> QED BY <1>2, <2>8, <3>1, <3>3, <3>4
  <2>10. t \in B
    <3> HIDE DEF t, k
    <3> QED BY <1>4, <2>5, <2>9
  <2>11. \A m \in B : m <= t
    <3>1. ASSUME NEW m \in B, m # 1 PROVE m <= t
      <4>1. m \in 2 .. Len(L)
        BY <1>2, <3>1 DEF B
      <4>2. 2 * (m - 1) < Len(q)
        BY <1>4, <4>1
      <4>3. m \in Nat /\ t \in Nat /\ 2 * (m - 1) < 2 * t
        BY <2>9, <4>1, <4>2
      <4> HIDE DEF t
      <4> QED BY <4>3
    <3> QED BY <1>2, <2>9, <3>1
  <2>12. top = t
    <3> HIDE DEF t
    <3> QED BY <1>5, <2>10, <2>11
  <2>13. L[t] = Entry(j)
    <3>1. PICK i \in 1 .. n : L[t] = Entry(i) /\ Len(PathOf(i)) = k /\ Agree(PathOf(i), PathOf(n), k)
      <4> HIDE DEF t, k
      <4> QED BY <2>9 DEF StackOf
    <3>2. i \in 0 .. Len(Rows) /\ j \in 0 .. Len(Rows) /\ k \in Nat /\ i \in 1 .. Len(Rows)
      BY SMTT(60), <1>1, <2>3
    <3>3. PathOf(i) \in Seq(Nat) /\ PathOf(j) \in Seq(Nat)
      BY <2>3, <3>2, RowPaths
    <3>4. Agree(PathOf(n), PathOf(j), k)
      <4> HIDE DEF k
      <4> QED BY <1>1, <2>5, <3>2, <3>3, AgreeIs
    <3>5. Agree(PathOf(i), PathOf(j), k)
      <4> HIDE DEF k
      <4> QED BY <1>1, <3>1, <3>2, <3>3, <3>4, AgreeIs
    <3>6. i = j
      <4> HIDE DEF k
      <4> QED BY <2>4, <3>1, <3>2, <3>5, SameRow
    <3> QED BY <3>1, <3>6
  <2>14. IsOf(n, j, q[Len(q) - 1]) /\ q[Len(q) - 1] \in DOMAIN Rows[j].expands
    <3>1. Len(q) - 1 = k + 1 /\ Len(q) = k + 2
      BY <1>1
    <3> HIDE DEF k
    <3> QED BY <2>2, <2>3, <2>4, <3>1 DEF IsOf, r
  <2>15. Agree(PathOf(n), q, Len(q) - 2)
    BY <2>5
  <2> HIDE DEF t, k
  <2>16. top \in 1 .. Len(L) /\ Len(q) = 2 * top /\ top # 1
    <3>1. t \in 1 .. Len(L) /\ Len(q) = 2 * t /\ t # 1
      BY <1>2, <2>9
    <3> QED BY Zenon, <2>12, <3>1
  <2>17. L[top] = Entry(j)
    BY <2>12, <2>13
  <2> QED BY Zenon, <1>2, <1>7, <2>14, <2>15, <2>16, <2>17 DEF Puts
<1> QED BY <1>6, <1>7

LEMMA AppendIs ==
    ASSUME NEW s, IsSeq(s), NEW x
    PROVE  /\ IsSeq(Append(s, x)) /\ Len(Append(s, x)) = Len(s) + 1
           /\ Append(s, x)[Len(s) + 1] = x
           /\ \A k \in 1 .. Len(s) : Append(s, x)[k] = s[k]
           /\ Append(s, x) = [k \in 1 .. Len(s) + 1 |-> IF k = Len(s) + 1 THEN x ELSE s[k]]
<1> DEFINE S == Range(s) \cup {x}
           t == Append(s, x)
<1>1. s \in [1 .. Len(s) -> Range(s)] /\ Len(s) \in Nat
  BY LenProperties DEF IsSeq
<1>2. s \in [1 .. Len(s) -> S]
  BY <1>1
<1>3. s \in Seq(S) /\ x \in S
  BY <1>1, <1>2, SeqDef
<1> HIDE DEF S
<1>4. /\ t \in Seq(S) /\ Len(t) = Len(s) + 1 /\ t[Len(s) + 1] = x
      /\ \A k \in 1 .. Len(s) : t[k] = s[k]
  BY <1>3, AppendProperties
<1>5. IsSeq(t)
  <2> HIDE DEF t
  <2> QED BY <1>4, SeqIs
<1>6. t = [k \in 1 .. Len(s) + 1 |-> t[k]]
  <2> HIDE DEF t
  <2> QED BY <1>4, LenProperties
<1>7. t = [k \in 1 .. Len(s) + 1 |-> IF k = Len(s) + 1 THEN x ELSE s[k]]
  <2>1. \A k \in 1 .. Len(s) + 1 : t[k] = IF k = Len(s) + 1 THEN x ELSE s[k]
    <3> HIDE DEF t
    <3> QED BY <1>1, <1>4
  <2> HIDE DEF t
  <2> QED BY <1>6, <2>1
<1> QED BY <1>4, <1>5, <1>7

LEMMA StackStep ==
    ASSUME Sound, NEW n \in 0 .. Len(Rows), n < Len(Rows), NEW L, StackOf(L, n),
           NEW q, q = PathOf(n + 1), NEW top \in 1 .. Len(L), Len(q) = 2 * top,
           top # 1 => Agree(PathOf(n), q, Len(q) - 2)
    PROVE  StackOf(Append(SubSeq(L, 1, top), Entry(n + 1)), n + 1)
<1> DEFINE S == SubSeq(L, 1, top)
           r == n + 1
           e == Entry(r)
           M == Append(S, e)
<1>1. /\ q \in Seq(Nat) /\ Len(q) \in Nat /\ PathOf(n) \in Seq(Nat)
      /\ n \in Nat /\ Len(Rows) \in Nat /\ n + 1 \in 1 .. Len(Rows)
  BY NextRow
<1>2. IsSeq(L) /\ Len(L) \in Nat /\ top \in Nat /\ top >= 1 /\ top <= Len(L)
  BY IsSeqLen DEF StackOf
<1>3. IsSeq(S) /\ Len(S) = top /\ \A m \in 1 .. top : S[m] = L[m]
  <2> DEFINE z == 0
  <2>1. z \in Nat /\ z <= top /\ top - z = top /\ z + 1 = 1 /\ \A k \in 1 .. top : z + k = k
    BY <1>2
  <2>2. S = SubSeq(L, z + 1, top)
    BY <2>1
  <2> HIDE DEF z
  <2>3. IsSeq(SubSeq(L, z + 1, top)) /\ Len(SubSeq(L, z + 1, top)) = top - z
        /\ \A k \in 1 .. top - z : SubSeq(L, z + 1, top)[k] = L[z + k]
    BY ZenonT(60), <1>2, <2>1, PieceIs
  <2> HIDE DEF S
  <2> QED BY <2>1, <2>2, <2>3
<1> HIDE DEF S
<1>4. IsSeq(M) /\ Len(M) = top + 1 /\ M[top + 1] = e /\ \A m \in 1 .. top : M[m] = S[m]
  <2> HIDE DEF e
  <2>1. IsSeq(M) /\ Len(M) = Len(S) + 1
    BY <1>3, AppendIs
  <2>2. M[Len(S) + 1] = e /\ \A m \in 1 .. Len(S) : M[m] = S[m]
    BY <1>3, AppendIs
  <2> HIDE DEF M
  <2> QED BY <1>3, <2>1, <2>2
<1> HIDE DEF M
<1>5. Len(PathOf(r)) = 2 * (Len(M) - 1) /\ r # 0 /\ Len(M) >= 1
  BY <1>1, <1>2, <1>4
<1>6. M[1] = [path |-> RootPath, expands |-> <<>>]
  <2>1. 1 \in 1 .. top
    BY <1>2
  <2>2. M[1] = L[1]
    BY <1>3, <1>4, <2>1
  <2> QED BY <2>2 DEF StackOf
<1>7. ASSUME NEW m \in 2 .. Len(M)
      PROVE  \E i \in 1 .. r : /\ M[m] = Entry(i) /\ Len(PathOf(i)) = 2 * (m - 1)
                               /\ Agree(PathOf(i), PathOf(r), 2 * (m - 1))
  <2>1. CASE m = top + 1
    <3>1. r \in 1 .. r /\ 2 * (m - 1) = Len(q) /\ M[m] = Entry(r)
      BY <1>1, <1>2, <1>4, <2>1
    <3>2. Agree(q, q, Len(q))
      BY <1>1 DEF Agree
    <3>3. /\ M[m] = Entry(r) /\ Len(PathOf(r)) = 2 * (m - 1)
          /\ Agree(PathOf(r), PathOf(r), 2 * (m - 1))
      BY <3>1, <3>2
    <3> HIDE DEF r
    <3> QED BY Zenon, <3>1, <3>3
  <2>2. CASE m # top + 1
    <3> DEFINE k == 2 * (m - 1)
               l == Len(q) - 2
    <3>1. m \in 2 .. Len(L) /\ m \in 1 .. top /\ top # 1 /\ k \in Nat /\ l \in Nat /\ k <= l
      BY SMTT(60), <1>1, <1>2, <1>4, <2>2
    <3>2. M[m] = L[m]
      BY <1>3, <1>4, <3>1
    <3>3. PICK i \in 1 .. n : L[m] = Entry(i) /\ Len(PathOf(i)) = k /\ Agree(PathOf(i), PathOf(n), k)
      <4> HIDE DEF k
      <4> QED BY <3>1 DEF StackOf, k
    <3>4. i \in 1 .. r /\ i \in 1 .. Len(Rows)
      BY <1>1
    <3>5. PathOf(i) \in Seq(Nat)
      BY <3>4, RowPaths
    <3>6. Agree(PathOf(n), q, l)
      BY <3>1
    <3> HIDE DEF k, l
    <3>7. Agree(PathOf(n), q, k)
      BY <1>1, <3>1, <3>6, AgreeIs
    <3>8. Agree(PathOf(i), q, k)
      BY <1>1, <3>1, <3>3, <3>5, <3>7, AgreeIs
    <3>9. M[m] = Entry(i) /\ Len(PathOf(i)) = k /\ Agree(PathOf(i), PathOf(r), k)
      BY <3>2, <3>3, <3>8
    <3> QED BY Zenon, <3>4, <3>9 DEF k
  <2> QED BY <2>1, <2>2
<1> HIDE DEF r
<1>8. StackOf(M, r)
  BY <1>4, <1>5, <1>6, <1>7 DEF StackOf
<1> QED BY <1>8 DEF M, S, e, r

----------------------------------------------------------------------------
(* What the properties become *)
\* The row with a path, and where the properties of the first n rows are kept.
RowAt(path) == CHOOSE i \in 1 .. Len(Rows) : Rows[i].path = path
Places(n) == UNION {{<<Rows[i].path, p>> : p \in DOMAIN Rows[i].expands} : i \in 1 .. n}
At(n) == [x \in Places(n) |-> PathsOf(Of(n, RowAt(x[1]), x[2]))]

LEMMA RowAtIs == ASSUME Sound, NEW i \in 1 .. Len(Rows) PROVE RowAt(Rows[i].path) = i
<1>1. \A j \in 1 .. Len(Rows) : Rows[j].path = Rows[i].path => j = i
  BY RowsDiffer
<1> QED BY Zenon, <1>1 DEF RowAt

LEMMA PlacesIs ==
    ASSUME NEW n \in Nat
    PROVE  /\ \A x \in Places(n) : \E i \in 1 .. n : \E p \in DOMAIN Rows[i].expands : x = <<Rows[i].path, p>>
           /\ Places(n + 1) = Places(n) \cup {<<Rows[n + 1].path, p>> : p \in DOMAIN Rows[n + 1].expands}
<1>1. 1 .. n + 1 = (1 .. n) \cup {n + 1}
  OBVIOUS
<1> QED BY <1>1 DEF Places

\* A row adds its own properties, without rows, to what there is.
Own(rec) == [y \in {<<rec.path, p>> : p \in DOMAIN rec.expands} |-> <<>>]
Merged(f, own) == [x \in DOMAIN f \cup DOMAIN own |-> IF x \in DOMAIN own THEN own[x] ELSE f[x]]

LEMMA AtStep ==
    ASSUME Sound, NEW n \in 0 .. Len(Rows), n < Len(Rows), NEW f, DOMAIN f = Places(n),
           \A i \in 1 .. n : \A p \in DOMAIN Rows[i].expands :
              f[<<Rows[i].path, p>>] = PathsOf(Of(n + 1, i, p))
    PROVE  Merged(f, Own(Rows[n + 1])) = At(n + 1)
<1> DEFINE r == n + 1
           own == Own(Rows[r])
           h(x) == IF x \in DOMAIN own THEN own[x] ELSE f[x]
<1>1. n \in Nat /\ r \in 1 .. Len(Rows) /\ r \in 0 .. Len(Rows) /\ Len(Rows) \in Nat
  BY NextRow
<1>2. DOMAIN own = {<<Rows[r].path, p>> : p \in DOMAIN Rows[r].expands}
      /\ \A x \in DOMAIN own : own[x] = <<>>
  BY DEF Own
<1>3. Places(r) = Places(n) \cup DOMAIN own
  BY <1>1, <1>2, PlacesIs
<1>4. ASSUME NEW x \in Places(r) PROVE h(x) = PathsOf(Of(r, RowAt(x[1]), x[2]))
  <2>1. CASE x \in DOMAIN own
    <3>1. PICK p \in DOMAIN Rows[r].expands : x = <<Rows[r].path, p>>
      BY <1>2, <2>1
    <3>2. RowAt(x[1]) = r /\ x[2] = p
      <4>1. x[1] = Rows[r].path /\ x[2] = p
        BY <3>1
      <4> HIDE DEF r
      <4> QED BY <1>1, <4>1, RowAtIs
    <3>3. Of(r, r, p) = {}
      <4>1. r + 1 .. r = {}
        BY <1>1
      <4>2. Of(r, r, p) \subseteq r + 1 .. r
        <5> HIDE DEF r
        <5> QED BY <1>1, OfAfter
      <4> QED BY <4>1, <4>2
    <3> HIDE DEF own, r
    <3> QED BY <1>2, <2>1, <3>2, <3>3, PathsOfNone
  <2>2. CASE x \notin DOMAIN own
    <3>1. PICK i \in 1 .. n : \E p \in DOMAIN Rows[i].expands : x = <<Rows[i].path, p>>
      BY <1>1, <1>3, <2>2, PlacesIs
    <3>2. PICK p \in DOMAIN Rows[i].expands : x = <<Rows[i].path, p>>
      BY <3>1
    <3>3. i \in 1 .. Len(Rows) /\ x[1] = Rows[i].path /\ x[2] = p
      BY <1>1, <3>2
    <3>4. RowAt(x[1]) = i
      BY <3>3, RowAtIs
    <3>5. f[x] = PathsOf(Of(r, i, p))
      BY <3>2
    <3> HIDE DEF own, r
    <3> QED BY <2>2, <3>3, <3>4, <3>5
  <2> QED BY <2>1, <2>2
<1>5. Merged(f, own) = [x \in Places(r) |-> h(x)]
  <2> HIDE DEF own, r
  <2> QED BY <1>3 DEF Merged
<1>6. At(r) = [x \in Places(r) |-> PathsOf(Of(r, RowAt(x[1]), x[2]))]
  BY DEF At
<1> HIDE DEF h, own, r
<1>7. Merged(f, own) = At(r)
  BY <1>4, <1>5, <1>6
<1> QED BY <1>7 DEF own, r

----------------------------------------------------------------------------
(* One row of parseRows                                                    *)

Roots(n) == {i \in 1 .. n : IsRoot(Rows[i].path)}

LEMMA RootsStep ==
    ASSUME Sound, NEW n \in 0 .. Len(Rows), n < Len(Rows)
    PROVE  /\ IsRoot(Rows[n + 1].path) =>
                PathsOf(Roots(n + 1)) = Append(PathsOf(Roots(n)), Rows[n + 1].path)
           /\ ~IsRoot(Rows[n + 1].path) => PathsOf(Roots(n + 1)) = PathsOf(Roots(n))
<1> DEFINE r == n + 1
           K == Roots(n)
<1>1. n \in Nat /\ r \in 1 .. Len(Rows) /\ Len(Rows) \in Nat /\ r \in Nat
  BY NextRow
<1>2. 1 .. r = (1 .. n) \cup {r} /\ r \notin 1 .. n
  BY <1>1
<1>3. Numbers(K) /\ \A x \in K : x < r
  <2>1. K \in SUBSET (1 .. Len(Rows)) /\ \A x \in K : x < r
    BY <1>1 DEF Roots
  <2> QED BY <2>1, RowsOfCardinality
<1>4. ASSUME IsRoot(Rows[r].path) PROVE PathsOf(Roots(r)) = Append(PathsOf(K), Rows[r].path)
  <2>1. Roots(r) = K \cup {r}
    <3> HIDE DEF r
    <3> QED BY <1>2, <1>4 DEF Roots
  <2> HIDE DEF r, K
  <2> QED BY <1>1, <1>3, <2>1, PathsOfAdd
<1>5. ASSUME ~IsRoot(Rows[r].path) PROVE Roots(r) = K
  <2> HIDE DEF r
  <2> QED BY <1>2, <1>5 DEF Roots
<1> QED BY <1>4, <1>5

\* The state of parseRows.
Record(ret, at, stack) == [ret |-> ret, at |-> at, levels |-> stack]

\* What EXCEPT makes of such a record.
BothSet(P, u, v) == [P EXCEPT !.at = u, !.levels = v]
LEMMA RecordExcept ==
    ASSUME NEW ret, NEW at, NEW stack, NEW u, NEW v, NEW P, P = Record(ret, at, stack)
    PROVE  BothSet(P, u, v) = Record(ret, u, v)
<1>1. [P EXCEPT !.at = u] = Record(ret, u, stack)
  BY DEF Record
<1>2. [Record(ret, u, stack) EXCEPT !.levels = v] = Record(ret, u, v)
  BY DEF Record
<1>3. [[P EXCEPT !.at = u] EXCEPT !.levels = v] = Record(ret, u, v)
  BY <1>1, <1>2
<1> QED BY <1>3 DEF BothSet

\* What parseRows has made of the first n rows.
Parsed(n, stack) == Record(PathsOf(Roots(n)), At(n), stack)

\* The step of parseRows, with the level that the row is put to.
RootStep(P, r, L) ==
    [ret |-> Append(P.ret, r.path), at |-> Merged(P.at, Own(r)), levels |-> L]
PutTo(at, path, p, rec, kind) ==
    [x \in DOMAIN at |-> IF x # <<path, p>> THEN at[x] ELSE Placed(at[x], rec.path, kind)]
ExpandStep(P, r, L, j, p) ==
    [ret |-> P.ret,
     at |-> Merged(PutTo(P.at, Rows[j].path, p, r, Rows[j].expands[p]), Own(r)),
     levels |-> L]

LEMMA ParseRowRoot ==
    ASSUME NEW P, NEW rec,
           PutBelow(P.levels, rec.path) = 1,
           P.levels[1] = [path |-> RootPath, expands |-> <<>>]
    PROVE  ParseRow(P, rec) =
              RootStep(P, rec, Append(SubSeq(P.levels, 1, 1), [path |-> rec.path, expands |-> rec.expands]))
<1> DEFINE B == {i \in DOMAIN P.levels : IsBelow(rec.path, P.levels[i])}
           top == IF B = {} THEN 0 ELSE CHOOSE i \in B : \A j \in B : j <= i
<1>1. top = 1 /\ top # 0
  <2>1. top = 1
    BY Zenon DEF Highest, PutBelow
  <2>2. 1 # 0
    OBVIOUS
  <2> QED BY Zenon, <2>1, <2>2
<1>2. DOMAIN P.levels[1].expands = {}
  OBVIOUS
<1> DEFINE level == P.levels[1]
           property == Property(rec.path, level)
<1>3. ~(property # 0 /\ property \in DOMAIN level.expands)
  <2> HIDE DEF property
  <2> QED BY <1>2
<1> QED BY Zenon, <1>1, <1>3 DEF ParseRow, RootStep, Merged, Own

LEMMA ParseRowExpand ==
    ASSUME NEW ret, NEW at, NEW L, NEW rec, NEW P, P = Record(ret, at, L),
           NEW top, top = PutBelow(L, rec.path), top # 0,
           NEW j, L[top] = Entry(j),
           NEW p, p = Property(rec.path, Entry(j)), p # 0, p \in DOMAIN Rows[j].expands
    PROVE  ParseRow(P, rec) =
              ExpandStep(P, rec, Append(SubSeq(L, 1, top), [path |-> rec.path, expands |-> rec.expands]), j, p)
<1> DEFINE below == {i \in DOMAIN P.levels : IsBelow(rec.path, P.levels[i])}
           t == IF below = {} THEN 0 ELSE CHOOSE i \in below : \A m \in below : m <= i
           level == P.levels[t]
           property == Property(rec.path, level)
           at0 == <<level.path, property>>
           new == [x \in DOMAIN P.at |->
                     IF x # at0 THEN P.at[x]
                     ELSE Placed(P.at[x], rec.path, level.expands[property])]
           stack == Append(SubSeq(P.levels, 1, t), [path |-> rec.path, expands |-> rec.expands])
           other == [ret |-> IF t = 1 THEN Append(P.ret, rec.path) ELSE P.ret,
                     at |-> Merged(P.at, Own(rec)), levels |-> stack]
<1>1. P.levels = L /\ P.at = at /\ P.ret = ret
  BY DEF Record
<1>2. ParseRow(P, rec) =
         IF t = 0 THEN [P EXCEPT !.levels = <<>>]
         ELSE IF property # 0 /\ property \in DOMAIN level.expands
         THEN [P EXCEPT !.at = Merged(new, Own(rec)), !.levels = stack]
         ELSE other
  BY Zenon DEF ParseRow, Merged, Own
<1>3. t = top
  <2>1. t = PutBelow(P.levels, rec.path)
    BY Zenon DEF Highest, PutBelow
  <2> HIDE DEF t
  <2> QED BY Zenon, <1>1, <2>1
<1>4. level = Entry(j)
  <2> HIDE DEF t
  <2> QED BY Zenon, <1>1, <1>3
<1>5. property = p /\ level.path = Rows[j].path /\ level.expands = Rows[j].expands
  <2>1. property = p
    <3> HIDE DEF level
    <3> QED BY Zenon, <1>4
  <2> HIDE DEF level, property
  <2> QED BY <1>4, <2>1 DEF Entry
<1>6. new = PutTo(at, Rows[j].path, p, rec, Rows[j].expands[p])
  <2> HIDE DEF property, level
  <2> QED BY Zenon, <1>1, <1>5 DEF PutTo
<1>7. stack = Append(SubSeq(L, 1, top), [path |-> rec.path, expands |-> rec.expands])
  <2> HIDE DEF t
  <2> QED BY Zenon, <1>1, <1>3
<1> HIDE DEF t, level, property, new, stack, other
<1>8. ParseRow(P, rec) = [P EXCEPT !.at = Merged(new, Own(rec)), !.levels = stack]
  <2>1. t # 0 /\ property # 0 /\ property \in DOMAIN level.expands
    BY <1>3, <1>5
  <2> QED BY <1>2, <2>1
<1>9. ParseRow(P, rec) = Record(ret, Merged(new, Own(rec)), stack)
  <2> DEFINE m == Merged(new, Own(rec))
  <2>1. ParseRow(P, rec) = BothSet(P, m, stack)
    BY Zenon, <1>8 DEF BothSet
  <2> HIDE DEF m
  <2>2. BothSet(P, m, stack) = Record(ret, m, stack)
    <3> DEFINE R == Record(ret, at, L)
    <3>1. BothSet(R, m, stack) = Record(ret, m, stack)
      <4> HIDE DEF R
      <4> QED BY RecordExcept DEF R
    <3>2. P = R
      OBVIOUS
    <3> HIDE DEF R
    <3> QED BY Zenon, <3>1, <3>2
  <2> QED BY Zenon, <2>1, <2>2 DEF m
<1> QED BY <1>1, <1>6, <1>7, <1>9 DEF ExpandStep, Record

LEMMA AtIs ==
    ASSUME Sound, NEW n \in 0 .. Len(Rows), NEW i \in 1 .. n, NEW p \in DOMAIN Rows[i].expands
    PROVE  /\ DOMAIN At(n) = Places(n) /\ <<Rows[i].path, p>> \in Places(n)
           /\ At(n)[<<Rows[i].path, p>>] = PathsOf(Of(n, i, p))
<1>1. <<Rows[i].path, p>> \in Places(n)
  BY DEF Places
<1>2. i \in 1 .. Len(Rows)
  <2>1. Len(Rows) \in Nat
    BY RowPaths
  <2> QED BY <2>1
<1> DEFINE x == <<Rows[i].path, p>>
<1>3. x[1] = Rows[i].path /\ x[2] = p
  OBVIOUS
<1>4. RowAt(x[1]) = i
  BY <1>2, <1>3, RowAtIs
<1> HIDE DEF x
<1>5. At(n)[x] = PathsOf(Of(n, RowAt(x[1]), x[2]))
  BY <1>1 DEF At, x
<1>6. At(n)[x] = PathsOf(Of(n, i, p))
  BY <1>3, <1>4, <1>5
<1>7. DOMAIN At(n) = Places(n)
  BY DEF At
<1> QED BY <1>1, <1>6, <1>7 DEF x

\* A row of the root is of no expand.
LEMMA AtRoot ==
    ASSUME Sound, NEW n \in 0 .. Len(Rows), n < Len(Rows), IsRoot(Rows[n + 1].path)
    PROVE  Merged(At(n), Own(Rows[n + 1])) = At(n + 1)
<1>1. n \in Nat /\ Len(Rows) \in Nat /\ PathOf(n + 1) = Rows[n + 1].path
  BY NextRow
<1>2. ASSUME NEW i \in 1 .. n, NEW p \in DOMAIN Rows[i].expands
      PROVE  At(n)[<<Rows[i].path, p>>] = PathsOf(Of(n + 1, i, p))
  <2>1. i \in 1 .. Len(Rows)
    BY <1>1
  <2>2. ~IsOf(n, i, p)
    <3>1. Len(PathOf(i)) \in Nat /\ Len(PathOf(i)) >= 2
      BY <2>1, RowPaths
    <3>2. Len(PathOf(n + 1)) = 2
      BY <1>1 DEF IsRoot
    <3> QED BY <3>1, <3>2 DEF IsOf
  <2>3. Of(n + 1, i, p) = Of(n, i, p)
    BY <2>1, <2>2, OfStep
  <2> QED BY <2>3, AtIs
<1>3. DOMAIN At(n) = Places(n)
  BY DEF At
<1> QED BY <1>2, <1>3, AtStep

\* A row of an expand is of no other one.
LEMMA AtExpand ==
    ASSUME Sound, OneEach(Rows), NEW n \in 0 .. Len(Rows), n < Len(Rows),
           NEW j \in 1 .. n, NEW p \in DOMAIN Rows[j].expands, IsOf(n, j, p),
           NEW f, f = PutTo(At(n), Rows[j].path, p, Rows[n + 1], Rows[j].expands[p])
    PROVE  Merged(f, Own(Rows[n + 1])) = At(n + 1)
<1> DEFINE r == n + 1
           q == Rows[r].path
<1>1. /\ n \in Nat /\ Len(Rows) \in Nat /\ PathOf(r) = q /\ r \in Nat /\ r \in 1 .. Len(Rows)
      /\ j \in 1 .. Len(Rows)
  BY NextRow
<1>2. ASSUME NEW i \in 1 .. n, NEW u \in DOMAIN Rows[i].expands, i # j \/ u # p
      PROVE  f[<<Rows[i].path, u>>] = PathsOf(Of(n + 1, i, u))
  <2> DEFINE x == <<Rows[i].path, u>>
  <2>1. i \in 1 .. Len(Rows)
    BY <1>1
  <2>2. x # <<Rows[j].path, p>>
    <3>1. ASSUME x = <<Rows[j].path, p>> PROVE FALSE
      <4>1. Rows[i].path = Rows[j].path /\ u = p
        BY <3>1
      <4>2. i = j
        BY <1>1, <2>1, <4>1, RowsDiffer
      <4> QED BY <1>2, <4>1, <4>2
    <3> QED BY <3>1
  <2>3. f[x] = PathsOf(Of(n, i, u))
    <3>1. x \in DOMAIN At(n) /\ At(n)[x] = PathsOf(Of(n, i, u))
      BY AtIs
    <3> HIDE DEF x
    <3> QED BY <2>2, <3>1 DEF PutTo
  <2>4. ~IsOf(n, i, u)
    <3>1. ASSUME IsOf(n, i, u) PROVE FALSE
      <4> DEFINE a == PathOf(i)
                 b == PathOf(j)
                 c == PathOf(r)
      <4>1. /\ a \in Seq(Nat) /\ b \in Seq(Nat) /\ c \in Seq(Nat)
            /\ Len(a) \in Nat /\ Len(b) \in Nat /\ Len(c) \in Nat
        BY <1>1, <2>1, RowPaths
      <4>2. Len(c) = Len(a) + 2 /\ Agree(a, c, Len(a)) /\ c[Len(a) + 1] = u
        BY <3>1 DEF IsOf
      <4>3. Len(c) = Len(b) + 2 /\ Agree(b, c, Len(b)) /\ c[Len(b) + 1] = p
        BY DEF IsOf
      <4>4. i \in 0 .. Len(Rows) /\ j \in 0 .. Len(Rows)
        BY <1>1, <2>1
      <4> HIDE DEF r
      <4>5. Len(a) = Len(b)
        <5> HIDE DEF a, b, c
        <5> QED BY <4>1, <4>2, <4>3
      <4>6. u = p
        <5> HIDE DEF a, b, c
        <5> QED BY <4>2, <4>3, <4>5
      <4>7. Agree(a, b, Len(a))
        <5> HIDE DEF a, b, c
        <5>1. Agree(c, b, Len(a))
          BY <4>1, <4>3, <4>5, AgreeIs
        <5> QED BY <4>1, <4>2, <5>1, AgreeIs
      <4>8. i = j
        BY <4>4, <4>5, <4>7, SameRow
      <4> QED BY <1>2, <4>6, <4>8
    <3> QED BY <3>1
  <2>5. Of(n + 1, i, u) = Of(n, i, u)
    BY <2>1, <2>4, OfStep
  <2> QED BY <2>3, <2>5
<1>3. f[<<Rows[j].path, p>>] = PathsOf(Of(n + 1, j, p))
  <2> DEFINE x == <<Rows[j].path, p>>
             K == Of(n, j, p)
             kind == Rows[j].expands[p]
  <2>1. x \in DOMAIN At(n) /\ At(n)[x] = PathsOf(K)
    BY AtIs
  <2>2. f[x] = Placed(PathsOf(K), q, kind)
    <3> HIDE DEF x, K, kind, r
    <3>1. f = PutTo(At(n), Rows[j].path, p, Rows[r], kind)
      BY DEF r, kind
    <3> QED BY <2>1, <3>1 DEF PutTo, x
  <2>3. Placed(PathsOf(K), q, kind) = Append(PathsOf(K), q)
    <3>1. CASE kind = "many"
      BY <3>1 DEF Placed
    <3>2. CASE kind # "many"
      <4>1. K = {}
        BY <3>2, OneIs
      <4>2. PathsOf(K) = <<>>
        BY <4>1, PathsOfNone
      <4>3. Append(<<>>, q) = <<q>>
        OBVIOUS
      <4> HIDE DEF K, kind
      <4> QED BY <3>2, <4>2, <4>3 DEF Placed
    <3> QED BY <3>1, <3>2
  <2>4. Of(n + 1, j, p) = K \cup {r}
    BY <1>1, OfStep
  <2>5. Numbers(K) /\ \A k \in K : k < r
    <3>1. Numbers(K)
      BY <1>1, NamesAre
    <3>2. K \subseteq j + 1 .. n
      BY <1>1, OfAfter
    <3> QED BY <1>1, <3>1, <3>2
  <2>6. PathsOf(K \cup {r}) = Append(PathsOf(K), q)
    <3> HIDE DEF K, r
    <3> QED BY <1>1, <2>5, PathsOfAdd
  <2> HIDE DEF K, kind, q
  <2> QED BY <2>2, <2>3, <2>4, <2>6
<1>4. \A i \in 1 .. n : \A u \in DOMAIN Rows[i].expands :
         f[<<Rows[i].path, u>>] = PathsOf(Of(n + 1, i, u))
  BY <1>2, <1>3
<1>5. DOMAIN f = Places(n)
  BY DEF PutTo, At
<1> QED BY <1>4, <1>5, AtStep

\* P is what parseRows has made of the first n rows.
HasParsed(P, n) == \E L : StackOf(L, n) /\ P = Parsed(n, L)

LEMMA PropertyIs ==
    ASSUME Sound, NEW n \in 0 .. Len(Rows), n < Len(Rows), NEW j \in 1 .. n, NEW q, q = PathOf(n + 1),
           IsOf(n, j, q[Len(q) - 1])
    PROVE  Property(q, Entry(j)) = q[Len(q) - 1]
<1>1. j \in 1 .. Len(Rows)
  <2>1. Len(Rows) \in Nat
    BY RowPaths
  <2> QED BY <2>1
<1>2. Entry(j).path = PathOf(j)
  BY <1>1, RowPaths DEF Entry
<1>3. Len(q) = Len(PathOf(j)) + 2
  BY DEF IsOf
<1> QED BY Zenon, <1>2, <1>3 DEF Property

\* What parseRows makes of the next row.
LEMMA ParsedStep ==
    ASSUME Sound, OneEach(Rows), NEW n \in 0 .. Len(Rows), n < Len(Rows),
           NEW P, HasParsed(P, n)
    PROVE  HasParsed(ParseRow(P, Rows[n + 1]), n + 1)
<1> DEFINE r == n + 1
           rec == Rows[r]
           q == PathOf(r)
<1>1. /\ n \in Nat /\ Len(Rows) \in Nat /\ q = rec.path /\ r \in 1 .. Len(Rows)
      /\ q \in Seq(Nat) /\ Len(q) \in Nat
  BY NextRow
<1>2. PICK L : StackOf(L, n) /\ P = Parsed(n, L)
  BY DEF HasParsed
<1> DEFINE top == PutBelow(L, q)
           M == Append(SubSeq(L, 1, top), Entry(r))
           A == At(n)
           R == PathsOf(Roots(n))
<1>3. P = Record(R, A, L)
  BY <1>2 DEF Parsed
<1>4. P.ret = R /\ P.at = A /\ P.levels = L
  <2> HIDE DEF R, A
  <2> QED BY <1>3 DEF Record
<1>5. /\ top \in 1 .. Len(L) /\ Len(L) \in Nat /\ Len(q) = 2 * top
      /\ IsRoot(q) <=> top = 1
      /\ top # 1 => \E j \in 1 .. n : /\ L[top] = Entry(j)
                                     /\ IsOf(n, j, q[Len(q) - 1])
                                     /\ q[Len(q) - 1] \in DOMAIN Rows[j].expands
                                     /\ Agree(PathOf(n), q, Len(q) - 2)
  <2> DEFINE t == top
  <2>1. t = PutBelow(L, q)
    BY Zenon
  <2>2. q = PathOf(n + 1)
    BY Zenon
  <2>3. Puts(n, L, q, t)
    <3> HIDE DEF t, q
    <3> QED BY <1>2, <2>1, <2>2, StackTop
  <2> QED BY Zenon, <2>3 DEF Puts
<1>6. StackOf(M, r)
  <2>1. top # 1 => Agree(PathOf(n), q, Len(q) - 2)
    BY <1>5
  <2> DEFINE t == top
  <2>2. t \in 1 .. Len(L) /\ Len(q) = 2 * t /\ q = PathOf(n + 1)
    BY <1>5
  <2>3. StackOf(Append(SubSeq(L, 1, t), Entry(n + 1)), n + 1)
    <3>1. t # 1 => Agree(PathOf(n), q, Len(q) - 2)
      BY Zenon, <2>1
    <3> HIDE DEF t, q
    <3> QED BY Zenon, <1>2, <2>2, <3>1, StackStep
  <2> QED BY Zenon, <2>3
<1>7. Entry(r) = [path |-> rec.path, expands |-> rec.expands]
  BY DEF Entry
<1>8. CASE IsRoot(q)
  <2>1. top = 1
    BY <1>5, <1>8
  <2>2. P.levels[1] = [path |-> RootPath, expands |-> <<>>]
    BY <1>2, <1>4 DEF StackOf
  <2>3. PutBelow(P.levels, rec.path) = 1
    <3> HIDE DEF rec, q
    <3> QED BY Zenon, <1>1, <1>4, <2>1
  <2>4. ParseRow(P, rec) =
           RootStep(P, rec, Append(SubSeq(P.levels, 1, 1), [path |-> rec.path, expands |-> rec.expands]))
    <3> HIDE DEF rec
    <3> QED BY Zenon, <2>2, <2>3, ParseRowRoot
  <2>5. M = Append(SubSeq(P.levels, 1, 1), [path |-> rec.path, expands |-> rec.expands])
    <3> DEFINE t == top
    <3> HIDE DEF rec, t
    <3> QED BY Zenon, <1>4, <1>7, <2>1 DEF t
  <2>6. Merged(A, Own(rec)) = At(r) /\ PathsOf(Roots(r)) = Append(R, rec.path)
    <3>1. IsRoot(Rows[n + 1].path)
      BY <1>1, <1>8
    <3> QED BY <3>1, AtRoot, RootsStep
  <2>7. ParseRow(P, rec) = Parsed(r, M)
    <3> HIDE DEF M, R, A, rec, r
    <3> QED BY <1>4, <2>4, <2>5, <2>6 DEF RootStep, Parsed, Record
  <2> HIDE DEF M, rec, r
  <2>8. HasParsed(ParseRow(P, rec), r)
    BY Zenon, <1>6, <2>7 DEF HasParsed
  <2> QED BY <2>8 DEF rec, r
<1>9. CASE ~IsRoot(q)
  <2> DEFINE p == q[Len(q) - 1]
  <2>0. top # 1 /\ top # 0
    BY <1>5, <1>9
  <2>1. PICK j \in 1 .. n : L[top] = Entry(j) /\ IsOf(n, j, p) /\ p \in DOMAIN Rows[j].expands
    <3> DEFINE t == top
    <3> HIDE DEF t, q
    <3> QED BY Zenon, <1>5, <2>0 DEF t
  <2>2. p = Property(q, Entry(j))
    <3> HIDE DEF q
    <3>1. q = PathOf(n + 1)
      BY DEF q
    <3> QED BY <2>1, <3>1, PropertyIs
  <2>3. j \in 1 .. Len(Rows) /\ p # 0
    <3>1. j \in 1 .. Len(Rows)
      BY <1>1
    <3>2. 0 \notin DOMAIN Rows[j].expands
      BY <3>1, NamesAre
    <3> HIDE DEF p
    <3> QED BY <2>1, <3>1, <3>2
  <2>5. ParseRow(P, rec) = ExpandStep(P, rec, M, j, p)
    <3> DEFINE t == top
               N == Append(SubSeq(L, 1, t), [path |-> rec.path, expands |-> rec.expands])
    <3>1. t = PutBelow(L, rec.path)
      <4> HIDE DEF rec, q
      <4> QED BY Zenon, <1>1
    <3>2. p = Property(rec.path, Entry(j))
      <4> HIDE DEF p, rec, q
      <4> QED BY <1>1, <2>2
    <3>3. t # 0 /\ L[t] = Entry(j)
      BY <2>0, <2>1
    <3>4. M = N
      <4> HIDE DEF rec, t
      <4> QED BY Zenon, <1>7 DEF t
    <3> HIDE DEF t, p, rec, R, A, M
    <3>5. ParseRow(P, rec) = ExpandStep(P, rec, N, j, p)
      BY <1>3, <2>1, <2>3, <3>1, <3>2, <3>3, ParseRowExpand
    <3> QED BY <3>4, <3>5
  <2>6. Merged(PutTo(A, Rows[j].path, p, rec, Rows[j].expands[p]), Own(rec)) = At(r)
    <3> DEFINE f == PutTo(A, Rows[j].path, p, rec, Rows[j].expands[p])
    <3>1. f = PutTo(At(n), Rows[j].path, p, Rows[n + 1], Rows[j].expands[p])
      OBVIOUS
    <3> HIDE DEF f, p
    <3> QED BY <2>1, <3>1, AtExpand
  <2>7. PathsOf(Roots(r)) = R
    <3>1. ~IsRoot(Rows[n + 1].path)
      BY <1>1, <1>9
    <3> QED BY <3>1, RootsStep
  <2>8. ParseRow(P, rec) = Parsed(r, M)
    <3> HIDE DEF M, R, A, rec, r, p
    <3> QED BY <1>4, <2>5, <2>6, <2>7 DEF ExpandStep, Parsed, Record
  <2> HIDE DEF M, rec, r
  <2>9. HasParsed(ParseRow(P, rec), r)
    BY Zenon, <1>6, <2>8 DEF HasParsed
  <2> QED BY <2>9 DEF rec, r
<1> QED BY <1>8, <1>9

----------------------------------------------------------------------------
(* All rows                                                                *)

\* What parseRows begins with.
EmptyParsed ==
    [ret |-> <<>>, at |-> <<>>, levels |-> <<[path |-> RootPath, expands |-> <<>>]>>]

LEMMA ParsedStart == ASSUME Sound PROVE HasParsed(EmptyParsed, 0)
<1> DEFINE e == [path |-> RootPath, expands |-> <<>>]
           L == <<e>>
<1>1. 1 .. 0 = {}
  OBVIOUS
<1>2. PathsOf(Roots(0)) = <<>>
  <2>1. Roots(0) = {}
    BY <1>1 DEF Roots
  <2> QED BY <2>1, PathsOfNone
<1>3. At(0) = <<>>
  <2>1. Places(0) = {}
    BY <1>1 DEF Places
  <2> DEFINE f == At(0)
  <2>2. f = [x \in {} |-> PathsOf(Of(0, RowAt(x[1]), x[2]))]
    BY <2>1 DEF At
  <2>3. f = [k \in 1 .. 0 |-> f[k]]
    <3>1. f = [x \in {} |-> f[x]]
      BY <2>2
    <3> HIDE DEF f
    <3> QED BY <1>1, <3>1
  <2>4. IsSeq(f) /\ Len(f) = 0
    <3> DEFINE z == 0
    <3>1. z \in Nat /\ f = [k \in 1 .. z |-> f[k]]
      BY <2>3
    <3> HIDE DEF z, f
    <3>2. IsSeq(f) /\ Len(f) = z
      BY <3>1, FunctionIsSeq
    <3> QED BY <3>2 DEF z
  <2> HIDE DEF f
  <2>5. f = <<>>
    BY <2>4, LenProperties, EmptySeq DEF IsSeq
  <2> QED BY <2>5 DEF f
<1>4. StackOf(L, 0)
  <2>1. IsSeq(L) /\ Len(L) = 1 /\ L[1] = e
    <3>1. L \in Seq({e}) /\ Len(L) = 1 /\ L[1] = e
      <4> HIDE DEF e
      <4> QED OBVIOUS
    <3> HIDE DEF L
    <3> QED BY <3>1, SeqIs
  <2>2. 2 .. 1 = {} /\ 1 >= 1
    OBVIOUS
  <2> HIDE DEF L
  <2> QED BY <2>1, <2>2 DEF StackOf
<1>5. EmptyParsed = Parsed(0, L)
  <2> HIDE DEF L
  <2> QED BY <1>2, <1>3 DEF EmptyParsed, Parsed, Record, L
<1> HIDE DEF L
<1> QED BY Zenon, <1>4, <1>5 DEF HasParsed

LEMMA ParsedAll ==
    ASSUME Sound, OneEach(Rows)
    PROVE  HasParsed(ParseRows(Rows), Len(Rows))
<1> DEFINE N == Len(Rows)
<1>1. IsSeq(Rows) /\ N \in Nat
  BY RowsAre DEF Sound
<1>2. PICK g : /\ g[0] = EmptyParsed
               /\ \A k \in 1 .. N : g[k] = ParseRow(g[k - 1], Rows[k])
               /\ FoldLeft(ParseRow, EmptyParsed, Rows) = g[N]
  BY ZenonT(60), <1>1, ParsedSteps
<1> DEFINE S == {n \in Nat : n <= N => HasParsed(g[n], n)}
<1>3. 0 \in S
  BY <1>2, ParsedStart
<1>4. ASSUME NEW n \in S PROVE n + 1 \in S
  <2> DEFINE r == n + 1
  <2>1. n \in Nat /\ r \in Nat /\ (n <= N => HasParsed(g[n], n))
    OBVIOUS
  <2>2. ASSUME r <= N PROVE HasParsed(g[r], r)
    <3>1. n \in 0 .. N /\ n < N /\ r \in 1 .. N /\ r - 1 = n
      BY <1>1, <2>1, <2>2
    <3>2. g[r] = ParseRow(g[n], Rows[r])
      <4> HIDE DEF r
      <4> QED BY <1>2, <3>1
    <3>3. HasParsed(g[n], n)
      BY <2>1, <3>1
    <3>4. HasParsed(ParseRow(g[n], Rows[n + 1]), n + 1)
      <4> DEFINE P == g[n]
      <4>1. HasParsed(P, n)
        BY <3>3
      <4> HIDE DEF P
      <4>2. HasParsed(ParseRow(P, Rows[n + 1]), n + 1)
        BY <3>1, <4>1, ParsedStep
      <4> QED BY <4>2 DEF P
    <3> QED BY <3>2, <3>4
  <2> QED BY <2>1, <2>2
<1>5. S = Nat
  <2>1. S \subseteq Nat
    OBVIOUS
  <2> HIDE DEF S
  <2> QED BY <1>3, <1>4, <2>1, SetInduction
<1>6. HasParsed(g[N], N)
  BY <1>1, <1>5
<1>7. ParseRows(Rows) = g[N]
  BY <1>2 DEF ParseRows, EmptyParsed
<1> QED BY <1>6, <1>7

----------------------------------------------------------------------------
(* What the client is to see *)
\* Objects refer to rows by their paths.
KidPaths(kids) == [k \in DOMAIN kids |-> kids[k].path]

LEMMA KidsAre ==
    ASSUME Sound, NEW K \in SUBSET (1 .. Len(Rows))
    PROVE  KidPaths(Ordered(RowsOf(K))) = PathsOf(K)
<1> DEFINE c == Cardinality(K)
           a == Ascending(K)
           f == [k \in 1 .. c |-> Rows[a[k]]]
<1>1. Ordered(RowsOf(K)) = f
  BY OrderedIs
<1>2. PathsOf(K) = [k \in 1 .. c |-> Rows[a[k]].path]
  BY DEF PathsOf
<1> HIDE DEF c, a
<1>3. KidPaths(f) = [k \in 1 .. c |-> Rows[a[k]].path]
  BY DEF KidPaths
<1> QED BY <1>1, <1>2, <1>3

\* All rows, in their order, are the rows.
LEMMA AllOrdered == ASSUME Sound PROVE Ordered(RowsOf(1 .. Len(Rows))) = Rows
<1> DEFINE N == Len(Rows)
           K == 1 .. N
<1>1. N \in Nat /\ IsSeq(Rows) /\ K \in SUBSET (1 .. Len(Rows))
  BY RowsAre DEF Sound
<1>2. Cardinality(K) = N
  BY SMTT(60), <1>1, FS_Interval
<1>3. Numbers(K)
  BY <1>1, RowsOfCardinality
<1>4. ASSUME NEW k \in K PROVE Ascending(K)[k] = k
  <2> DEFINE x == Ascending(K)[k]
             l == k - 1
  <2>1. x \in K /\ Cardinality(Below(K, x)) = l
    BY <1>2, <1>3, AscendingIs
  <2>2. Below(K, k) = 1 .. l /\ l \in Nat
    BY <1>1 DEF Below
  <2>3. Cardinality(1 .. l) = l
    <3> HIDE DEF l
    <3> QED BY <2>2, FS_Interval
  <2> HIDE DEF x, l, K
  <2>4. Cardinality(Below(K, x)) = Cardinality(Below(K, k))
    BY <2>1, <2>2, <2>3
  <2>5. x = k
    BY <1>3, <2>1, <2>4, BelowOnce
  <2> QED BY <2>5 DEF x
<1>5. Ordered(RowsOf(K)) = [k \in 1 .. Cardinality(K) |-> Rows[Ascending(K)[k]]]
  BY OrderedIs
<1>6. Ordered(RowsOf(K)) = [k \in K |-> Rows[k]]
  <2> HIDE DEF N
  <2> QED BY <1>2, <1>4, <1>5
<1>7. Rows = [k \in K |-> Rows[k]]
  BY <1>1, LenProperties DEF IsSeq
<1> QED BY <1>6, <1>7

ChildrenOf(path, property) ==
    {r \in RowsOf(1 .. Len(Rows)) : Len(r.path) = Len(path) + 2 /\ Parent(r.path) = path
                                    /\ r.path[Len(path) + 1] = property}

LEMMA RootChildren == ASSUME Sound PROVE ChildrenOf(<<>>, 0) = RowsOf(Roots(Len(Rows)))
<1> DEFINE N == Len(Rows)
<1>1. Len(<<>>) = 0 /\ 0 + 2 = 2 /\ 0 + 1 = 1
  OBVIOUS
<1>2. ASSUME NEW i \in 1 .. N
      PROVE  /\ Len(Rows[i].path) = 2 /\ Parent(Rows[i].path) = <<>> /\ Rows[i].path[1] = 0
             <=> IsRoot(Rows[i].path)
  <2> DEFINE q == Rows[i].path
  <2>1. q \in Seq(Nat) /\ Len(q) \in Nat /\ q[1] = 0
    BY RowPaths
  <2> HIDE DEF q
  <2>2. ASSUME Len(q) = 2 PROVE Parent(q) = <<>>
    <3>1. Len(q) - 2 = 0
      BY <2>2
    <3>2. Parent(q) = SubSeq(q, 1, 0)
      BY <3>1 DEF Parent
    <3>3. SubSeq(q, 1, 0) = <<>>
      BY <2>1
    <3> QED BY <3>2, <3>3
  <2>3. Len(q) = 2 /\ Parent(q) = <<>> /\ q[1] = 0 <=> IsRoot(q)
    BY <2>1, <2>2 DEF IsRoot
  <2> QED BY <2>3 DEF q
<1>3. ChildrenOf(<<>>, 0) = {r \in RowsOf(1 .. N) : Len(r.path) = 2 /\ Parent(r.path) = <<>> /\ r.path[1] = 0}
  BY <1>1 DEF ChildrenOf
<1> HIDE DEF N
<1>4. ChildrenOf(<<>>, 0) = RowsOf(Roots(N))
  BY <1>2, <1>3 DEF RowsOf, Roots
<1> QED BY <1>4 DEF N

LEMMA ExpandChildren ==
    ASSUME Sound, NEW i \in 1 .. Len(Rows), NEW p
    PROVE  ChildrenOf(Rows[i].path, p) = RowsOf(Of(Len(Rows), i, p))
<1> DEFINE N == Len(Rows)
           a == Rows[i].path
<1>1. N \in Nat /\ N \in 0 .. N /\ PathOf(i) = a /\ a \in Seq(Nat) /\ Len(a) \in Nat
  BY RowPaths
<1>2. ASSUME NEW j \in 1 .. N
      PROVE  /\ Len(Rows[j].path) = Len(a) + 2 /\ Parent(Rows[j].path) = a
             <=> Len(PathOf(j)) = Len(a) + 2 /\ Agree(a, PathOf(j), Len(a))
  <2> DEFINE q == Rows[j].path
  <2>1. q \in Seq(Nat) /\ PathOf(j) = q
    BY RowPaths
  <2> HIDE DEF q, a
  <2>2. Len(q) = Len(a) + 2 /\ Parent(q) = a <=> Len(q) = Len(a) + 2 /\ Agree(a, q, Len(a))
    BY <1>1, <2>1, ParentOf
  <2> QED BY <2>1, <2>2 DEF q
<1>3. Of(N, i, p) = {j \in 1 .. N : /\ Len(PathOf(j)) = Len(PathOf(i)) + 2
                                   /\ Agree(PathOf(i), PathOf(j), Len(PathOf(i)))
                                   /\ PathOf(j)[Len(PathOf(i)) + 1] = p}
  BY SMTT(60), <1>1, OfIs
<1>4. \A j \in 1 .. N : PathOf(j) = Rows[j].path
  BY RowPaths
<1>5. Of(N, i, p) = {j \in 1 .. N : /\ Len(Rows[j].path) = Len(a) + 2 /\ Parent(Rows[j].path) = a
                                   /\ Rows[j].path[Len(a) + 1] = p}
  <2> HIDE DEF N, a
  <2> QED BY <1>1, <1>2, <1>3, <1>4
<1>6. ChildrenOf(a, p) = {r \in RowsOf(1 .. N) : /\ Len(r.path) = Len(a) + 2 /\ Parent(r.path) = a
                                                /\ r.path[Len(a) + 1] = p}
  BY DEF ChildrenOf
<1> HIDE DEF N, a
<1>7. ChildrenOf(a, p) = RowsOf(Of(N, i, p))
  BY SMTT(60), <1>5, <1>6 DEF RowsOf
<1> QED BY <1>7 DEF N, a

LEMMA ObjectsAre ==
    ASSUME Sound, NEW records, records = RowsOf(1 .. Len(Rows))
    PROVE  Objects(records).ret = PathsOf(Roots(Len(Rows))) /\ Objects(records).at = At(Len(Rows))
<1> DEFINE N == Len(Rows)
<1>1. N \in Nat /\ N \in 0 .. N
  BY RowPaths
<1>2. \A path, property : Children(records, path, property) = Ordered(ChildrenOf(path, property))
  BY Zenon DEF Children, ChildrenOf
<1>3. Objects(records).ret = PathsOf(Roots(N))
  <2>1. Roots(N) \in SUBSET (1 .. N)
    BY DEF Roots
  <2>2. KidPaths(Ordered(RowsOf(Roots(N)))) = PathsOf(Roots(N))
    BY <2>1, KidsAre
  <2>3. Children(records, <<>>, 0) = Ordered(RowsOf(Roots(N)))
    BY Zenon, <1>2, RootChildren
  <2>4. Objects(records).ret = KidPaths(Children(records, <<>>, 0))
    BY DEF Objects, KidPaths
  <2> QED BY <2>2, <2>3, <2>4
<1> DEFINE all == UNION {{<<r.path, p>> : p \in DOMAIN r.expands} : r \in records}
           h(x) == KidPaths(Children(records, x[1], x[2]))
<1>4. Objects(records).at = [x \in all |-> h(x)]
  BY DEF Objects, KidPaths
<1>5. all = Places(N)
  BY DEF RowsOf, Places
<1>6. ASSUME NEW x \in Places(N) PROVE h(x) = PathsOf(Of(N, RowAt(x[1]), x[2]))
  <2>1. PICK i \in 1 .. N : \E p \in DOMAIN Rows[i].expands : x = <<Rows[i].path, p>>
    BY <1>1, PlacesIs
  <2>2. PICK p \in DOMAIN Rows[i].expands : x = <<Rows[i].path, p>>
    BY <2>1
  <2>3. x[1] = Rows[i].path /\ x[2] = p /\ RowAt(x[1]) = i
    BY <2>2, RowAtIs
  <2> DEFINE K == Of(N, i, p)
  <2>4. K \in SUBSET (1 .. N)
    BY DEF Of
  <2>5. h(x) = KidPaths(Ordered(ChildrenOf(Rows[i].path, p)))
    BY Zenon, <1>2, <2>3
  <2>6. ChildrenOf(Rows[i].path, p) = RowsOf(K)
    BY ExpandChildren
  <2>7. KidPaths(Ordered(RowsOf(K))) = PathsOf(K)
    <3> HIDE DEF K
    <3> QED BY <2>4, KidsAre
  <2> HIDE DEF h, K
  <2>8. h(x) = PathsOf(K)
    BY <2>5, <2>6, <2>7
  <2> QED BY <2>3, <2>8 DEF K
<1> HIDE DEF h, all
<1>7. Objects(records).at = [x \in Places(N) |-> PathsOf(Of(N, RowAt(x[1]), x[2]))]
  BY <1>4, <1>5, <1>6
<1> QED BY <1>3, <1>7 DEF At

LEMMA ParsedRight == ASSUME Sound, OneEach(Rows) PROVE ParsedRows
<1> DEFINE N == Len(Rows)
           records == {Rows[i] : i \in DOMAIN Rows}
           parsed == ParseRows(Ordered(records))
<1>1. records = RowsOf(1 .. N)
  <2>1. DOMAIN Rows = 1 .. N
    BY RowPaths
  <2> HIDE DEF N
  <2> QED BY <2>1 DEF RowsOf
<1>2. Ordered(records) = Rows
  <2> HIDE DEF records
  <2> QED BY <1>1, AllOrdered
<1>3. HasParsed(parsed, N)
  <2> HIDE DEF records
  <2> QED BY <1>2, ParsedAll
<1>4. parsed.ret = PathsOf(Roots(N)) /\ parsed.at = At(N)
  <2> HIDE DEF parsed
  <2>1. PICK L : parsed = Parsed(N, L)
    BY <1>3 DEF HasParsed
  <2>2. parsed = [ret |-> PathsOf(Roots(N)), at |-> At(N), levels |-> L]
    BY <2>1 DEF Parsed, Record
  <2> HIDE DEF N
  <2> QED BY <2>2
<1>5. Objects(records).ret = PathsOf(Roots(N)) /\ Objects(records).at = At(N)
  <2> HIDE DEF records
  <2> QED BY <1>1, ObjectsAre
<1>6. parsed.ret = Objects(records).ret /\ parsed.at = Objects(records).at
  <2> HIDE DEF records, parsed
  <2> QED BY <1>4, <1>5
<1> QED BY Zenon, <1>6 DEF ParsedRows

\* parseRows (HANAService.js) gives each row's record once, at the property
\* that its path tells and in the order of the statement, whatever the number
\* of rows and levels: all that it relies on is that the rows come in the order
\* of their paths, each after the one it is expanded from, and that an expand
\* to one has a single row.
THEOREM RowsParsed == Spec => [](RowsSound /\ OneEach(Rows) => ParsedRows)
<1>1. StreamInv /\ RowsSound /\ OneEach(Rows) => ParsedRows
  BY ParsedRight DEF StreamInv, Sound
<1>2. Spec => []StreamInv
  BY StreamInvariant
<1> QED BY <1>1, <1>2, PTL
=============================================================================
