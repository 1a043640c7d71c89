------------------------------ MODULE MCStream ------------------------------
(***************************************************************************)
(* Results of up to three levels, in one buffer or one for each row.  The  *)
(* sizes are to each other what those of HANA are: a LOB that comes with a *)
(* row is long when compared with all that precedes it, or not.            *)
(***************************************************************************)
EXTENDS HdbStream

Split(rows) == {<<rows>>} \cup {[i \in DOMAIN rows |-> <<rows[i]>>]}
Row(path, expands, json, b, c) ==
    [path |-> path, expands |-> expands, json |-> json, blobs |-> <<b, c>>]

Nothing == <<>>
Many == [p \in {1} |-> "many"]
Both == [p \in {1, 2} |-> IF p = 1 THEN "many" ELSE "one"]

\* Rows that are read to their end, and one of which a column is left.
Flat(n) ==
    {Row(<<0, n>>, Nothing, 2, Absent, 13), Row(<<0, n>>, Nothing, 4, Absent, Absent),
     Row(<<0, n>>, Nothing, 3, 16, Null), Row(<<0, n>>, Nothing, 2, 14, 12),
     Row(<<0, n>>, Nothing, 2, Null, Absent)}
First == Row(<<0, 1>>, Nothing, 4, 14, 13)
Third == {Row(<<0, 3>>, Nothing, 3, Absent, Null), Row(<<0, 3>>, Nothing, 3, 12, 16)}

\* Rows of expands follow those they belong to, in the order of their paths.
Below(path) ==
    {<<>>}
    \cup {<<Row(path \o <<1, 1>>, Nothing, 3, Absent, 13)>>}
    \cup {<<Row(path \o <<1, 1>>, Many, 2, Absent, Absent),
            Row(path \o <<1, 1, 1, 1>>, Nothing, 3, Absent, Absent),
            Row(path \o <<1, 1, 1, 2>>, Nothing, 2, Absent, Absent),
            Row(path \o <<1, 2>>, Many, 3, Absent, Absent)>>}
One(path) == {<<>>, <<Row(path \o <<2, 1>>, Nothing, 2, Absent, Null)>>}
Deep ==
    {<<Row(<<0, 1>>, Both, json, Absent, Absent)>> \o items \o author \o tail :
        json \in {2, 3}, items \in Below(<<0, 1>>), author \in One(<<0, 1>>),
        tail \in {<<>>, <<Row(<<0, 2>>, Both, 2, Absent, Absent)>>}}

\* LOBs that are read with one readLob.  The last two results have one that is
\* shorter than what is prefetched: it is encoded in place, and it moves the
\* offset of the one before it.
MCResults ==
    UNION {Split(rows) : rows \in {<<>>} \cup {<<r>> : r \in Flat(1)} \cup Flat(1) \X Flat(2)
                                 \cup {<<First, r, third>> : r \in Flat(2), third \in Third}
                                 \cup Deep}
    \cup {<<<<Row(<<0, 1>>, Nothing, 2, Absent, 2)>>>>,
          <<<<Row(<<0, 1>>, Nothing, 2, Absent, 14), Row(<<0, 2>>, Nothing, 2, Absent, 11)>>>>}

\* The results of this instance are such as a statement returns.
ASSUME ResultsAssumption ==
    \A r \in MCResults : InPathOrder(FlattenSeq(r)) /\ OneEach(FlattenSeq(r))
=============================================================================
