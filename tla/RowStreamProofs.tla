-------------------------- MODULE RowStreamProofs --------------------------
(***************************************************************************)
(* The order of RowStream and the fate of its cells, for every sheet,      *)
(* batch size and header row.                                              *)
(***************************************************************************)
EXTENDS RowStream, NumberLemmas, TLAPS, SequenceTheorems, FunctionTheorems, FiniteSetTheorems

-----------------------------------------------------------------------------
(* The inductive invariant.                                                *)

(* What is queued may still be sent, and is part of the sheet. *)
QueueAhead ==
    phase = "reading" =>
        \A i \in DOMAIN queue : highestSent < queue[i].row /\ HeaderRow <= queue[i].row

(* The row under construction is past all that is queued or sent. *)
CurrentAhead ==
    phase = "reading" =>
        IF open
        THEN /\ highestSent < current /\ HeaderRow <= current
             /\ \A i \in DOMAIN queue : queue[i].row < current
        ELSE queue = <<>> /\ highestSent = NoRow

(* The two marks of the batcher are about the last row sent. *)
Marks ==
    IF wire = <<>>
    THEN highestSent = NoRow /\ nextExpected = HeaderRow
    ELSE highestSent = wire[Len(wire)].row /\ nextExpected = highestSent + 1

Order == QueueAhead /\ CurrentAhead /\ RowsNeverRegress /\ Marks /\ GapsTile
IInv == TypeOK /\ Order

-----------------------------------------------------------------------------
(* Rows and queues.                                                        *)

LEMMA Bounds ==
  /\ MaxRow \in Nat /\ MaxCol \in Nat /\ MaxCells \in Nat
  /\ HeaderRow \in -1..MaxRow
BY SizeAssumption, HeaderAssumption DEF Rows, NoRow

LEMMA RowTypes ==
  /\ EmptyRow \in Widths
  /\ \A col \in Cols, v \in 0..MaxCells : OneCell(col, v) \in Widths
  /\ \A into, from \in Widths : Merge(into, from) \in Widths
BY Bounds DEF EmptyRow, OneCell, Merge, Widths

(* push leaves the rows that were queued and the one pushed. *)
LEMMA QueuedRows ==
  ASSUME NEW q \in Seq(QueuedRow), NEW row \in Rows, NEW vals \in Widths
  PROVE  /\ Queued(q, row, vals) \in Seq(QueuedRow)
         /\ Queued(q, row, vals) # <<>>
         /\ \A i \in DOMAIN Queued(q, row, vals) :
              \/ Queued(q, row, vals)[i].row = row
              \/ \E j \in DOMAIN q : Queued(q, row, vals)[i].row = q[j].row
<1> DEFINE elt == [row |-> row, vals |-> vals]
           hit == q # <<>> /\ row <= q[Len(q)].row /\ \E i \in DOMAIN q : q[i].row = row
<1>1. elt \in QueuedRow  BY DEF QueuedRow
<1>2. CASE ~hit
  <2>1. Queued(q, row, vals) = Append(q, elt)  BY <1>2 DEF Queued
  <2>2. /\ Append(q, elt) \in Seq(QueuedRow) /\ Append(q, elt) # <<>>
        /\ Len(Append(q, elt)) = Len(q) + 1
        /\ \A i \in 1..Len(q) : Append(q, elt)[i] = q[i]
        /\ Append(q, elt)[Len(q) + 1] = elt
    BY <1>1, AppendProperties
  <2>3. Len(q) \in Nat /\ DOMAIN q = 1..Len(q) /\ DOMAIN Append(q, elt) = 1..(Len(q) + 1)
    BY <2>2, LenProperties
  <2> QED  BY <2>1, <2>2, <2>3
<1>3. CASE hit
  <2> DEFINE k == FirstAt(q, row)
             new == [row |-> row, vals |-> Merge(q[k].vals, vals)]
             r == [i \in DOMAIN q |-> IF i = k THEN new ELSE q[i]]
  <2>1. Queued(q, row, vals) = r  BY <1>3 DEF Queued
  <2>2. Len(q) \in Nat /\ DOMAIN q = 1..Len(q) /\ q \in [1..Len(q) -> QueuedRow]
    BY LenProperties
  <2>3. \A i \in DOMAIN q : r[i] \in QueuedRow /\ (r[i].row = row \/ r[i].row = q[i].row)
    <3> SUFFICES ASSUME NEW i \in DOMAIN q
                 PROVE  r[i] \in QueuedRow /\ (r[i].row = row \/ r[i].row = q[i].row)
      OBVIOUS
    <3>1. q[i] \in QueuedRow  BY <2>2
    <3>2. CASE i = k
      <4>1. q[k].vals \in Widths  BY <3>1, <3>2 DEF QueuedRow
      <4>2. Merge(q[k].vals, vals) \in Widths  BY <4>1, RowTypes
      <4>3. new \in QueuedRow /\ new.row = row  BY <4>2 DEF QueuedRow
      <4>4. r[i] = new  BY <3>2
      <4> QED  BY <4>3, <4>4
    <3>3. CASE i # k  BY <3>1, <3>3
    <3> QED  BY <3>2, <3>3
  <2>4. DOMAIN r = 1..Len(q)  BY <2>2
  <2>5. r \in Seq(QueuedRow) /\ Len(r) = Len(q)  BY <2>2, <2>3, <2>4
  <2>6. r # <<>>
    <3>1. Len(q) # 0  BY <1>3, EmptySeq
    <3> QED  BY <2>5, <3>1, EmptySeq
  <2> QED  BY <2>1, <2>2, <2>3, <2>4, <2>5, <2>6
<1> QED  BY <1>2, <1>3

-----------------------------------------------------------------------------
(* flush.                                                                  *)

(* The rows of a batch in the order they leave, with their gaps. *)
LEMMA BatchOrder ==
  ASSUME NEW q \in Seq(QueuedRow), NEW p \in Orders(q)
  PROVE  /\ Len(q) \in Nat /\ DOMAIN q = 1..Len(q)
         /\ \A i \in 1..Len(q) :
              /\ p[i] \in 1..Len(q)
              /\ q[p[i]].row \in Rows /\ q[p[i]].vals \in Widths
         /\ \A i, j \in 1..Len(q) : i < j => q[p[i]].row <= q[p[j]].row
<1>1. Len(q) \in Nat /\ DOMAIN q = 1..Len(q) /\ q \in [1..Len(q) -> QueuedRow]
  BY LenProperties
<1>2. /\ p \in [1..Len(q) -> 1..Len(q)]
      /\ \A i, j \in 1..Len(q) : i < j => q[p[i]].row <= q[p[j]].row
  BY <1>1, Zenon DEF Orders
<1>3. \A i \in 1..Len(q) : q[p[i]] \in QueuedRow  BY <1>1, <1>2
<1> QED  BY <1>1, <1>2, <1>3 DEF QueuedRow

(* What flush leaves on the wire: what was there, then the batch in order. *)
LeavesAs(q, p, i) ==
    [row  |-> q[p[i]].row,
     vals |-> q[p[i]].vals,
     gap  |-> Gap(IF i = 1 THEN nextExpected ELSE q[p[i - 1]].row + 1, q[p[i]].row),
     defs |-> interned']

LEMMA FlushSteps ==
  ASSUME wire \in Seq(SentRow), NEW q \in Seq(QueuedRow), q # <<>>, Flush(q)
  PROVE  /\ queue' = <<>> /\ defined' = interned'
         /\ Len(q) \in Nat \ {0} /\ Len(wire) \in Nat
         /\ DOMAIN q = 1..Len(q) /\ DOMAIN wire = 1..Len(wire)
         /\ Len(wire') = Len(wire) + Len(q) /\ DOMAIN wire' = 1..(Len(wire) + Len(q))
         /\ \A i \in 1..Len(wire) : wire'[i] = wire[i]
         /\ \E p \in Orders(q) :
              /\ \A i \in 1..Len(q) : wire'[Len(wire) + i] = LeavesAs(q, p, i)
              /\ wire' \in Seq(SentRow \cup {LeavesAs(q, p, i) : i \in 1..Len(q)})
              /\ highestSent' = q[p[Len(q)]].row /\ nextExpected' = highestSent' + 1
<1>1. PICK p \in Orders(q) :
        LET row(i) == q[p[i]].row
            expected(i) == IF i = 1 THEN nextExpected ELSE row(i - 1) + 1 IN
        /\ wire' = wire \o [i \in DOMAIN q |->
                      [row  |-> row(i),
                       vals |-> q[p[i]].vals,
                       gap  |-> Gap(expected(i), row(i)),
                       defs |-> defined']]
        /\ nextExpected' = row(Len(q)) + 1
        /\ highestSent' = row(Len(q))
  BY Zenon DEF Flush
<1> DEFINE sent(i) == LeavesAs(q, p, i)
           batch == [i \in DOMAIN q |-> sent(i)]
           n == Len(q)
           L == Len(wire)
<1>2. queue' = <<>> /\ defined' = interned'  BY Zenon DEF Flush, DefinedAfter
<1>3. wire' = wire \o batch
  <2>1. wire' = wire \o [i \in DOMAIN q |->
                  [row  |-> q[p[i]].row,
                   vals |-> q[p[i]].vals,
                   gap  |-> Gap(IF i = 1 THEN nextExpected ELSE q[p[i - 1]].row + 1, q[p[i]].row),
                   defs |-> defined']]
    BY <1>1, Zenon
  <2> QED  BY <1>2, <2>1, Zenon DEF LeavesAs
<1>4. highestSent' = q[p[n]].row /\ nextExpected' = highestSent' + 1  BY <1>1, Zenon
<1>5. n \in Nat \ {0} /\ DOMAIN q = 1..n  BY BatchOrder, EmptySeq
<1> HIDE DEF sent
<1>6. L \in Nat /\ DOMAIN wire = 1..L  BY LenProperties
<1>7. /\ batch = [i \in 1..n |-> sent(i)] /\ batch \in Seq({sent(i) : i \in 1..n})
      /\ Len(batch) = n
  <2>1. batch = [i \in 1..n |-> sent(i)]  BY <1>5
  <2> HIDE DEF n, batch
  <2> QED  BY <1>5, <2>1
<1>8. /\ wire \in Seq(SentRow \cup {sent(i) : i \in 1..n})
      /\ batch \in Seq(SentRow \cup {sent(i) : i \in 1..n})
  BY <1>7
<1>9. /\ wire \o batch \in Seq(SentRow \cup {sent(i) : i \in 1..n})
      /\ Len(wire \o batch) = L + n
      /\ DOMAIN (wire \o batch) = 1..(L + n)
      /\ \A i \in 1..(L + n) : (wire \o batch)[i] =
                                 IF i <= L THEN wire[i] ELSE batch[i - L]
  BY <1>7, <1>8, ConcatProperties, LenProperties
<1> HIDE DEF batch
<1>10. \A i \in 1..L : wire'[i] = wire[i]  BY <1>3, <1>5, <1>6, <1>9
<1>11. \A i \in 1..n : wire'[L + i] = sent(i)
  <2> SUFFICES ASSUME NEW i \in 1..n  PROVE wire'[L + i] = sent(i)
    OBVIOUS
  <2>1. L + i \in 1..(L + n) /\ ~(L + i <= L) /\ (L + i) - L = i  BY <1>5, <1>6
  <2> QED  BY <1>3, <1>7, <1>9, <2>1
<1> QED  BY <1>2, <1>3, <1>4, <1>5, <1>6, <1>9, <1>10, <1>11 DEF sent, n

(* Rows past all that is sent may be flushed.  Before the first of them,   *)
(* what is expected is the header row, or without one none after the       *)
(* first.                                                                  *)
MarksFit(q) ==
    IF wire = <<>>
    THEN /\ highestSent = NoRow
         /\ \/ nextExpected = HeaderRow
            \/ HeaderRow = NoRow /\ \A p \in Orders(q) : q[p[1]].row <= nextExpected
    ELSE highestSent = wire[Len(wire)].row /\ nextExpected = highestSent + 1

LEMMA FlushKeepsOrder ==
  ASSUME TypeOK, RowsNeverRegress, GapsTile, interned' \in 0..MaxCells,
         NEW q \in Seq(QueuedRow), q # <<>>, MarksFit(q),
         \A i \in DOMAIN q : highestSent < q[i].row /\ HeaderRow <= q[i].row,
         Flush(q)
  PROVE  /\ queue' = <<>> /\ wire' \in Seq(SentRow) /\ defined' \in 0..MaxCells
         /\ highestSent' \in Rows /\ nextExpected' \in -1..(MaxRow + 1)
         /\ RowsNeverRegress' /\ Marks' /\ GapsTile' /\ wire' # <<>>
         /\ \A m \in Int : (\A i \in DOMAIN q : q[i].row < m) => highestSent' < m
<1> DEFINE n == Len(q)
           L == Len(wire)
<1>1. /\ nextExpected \in -1..(MaxRow + 1) /\ highestSent \in Rows \cup {NoRow}
      /\ wire \in Seq(SentRow)
  BY DEF TypeOK
<1>2. /\ queue' = <<>> /\ defined' \in 0..MaxCells
      /\ n \in Nat \ {0} /\ L \in Nat /\ DOMAIN q = 1..n /\ DOMAIN wire = 1..L
      /\ Len(wire') = L + n /\ DOMAIN wire' = 1..(L + n)
      /\ \A i \in 1..L : wire'[i] = wire[i]
  BY <1>1, FlushSteps
<1>3. PICK p \in Orders(q) :
         /\ \A i \in 1..n : wire'[L + i] = LeavesAs(q, p, i)
         /\ wire' \in Seq(SentRow \cup {LeavesAs(q, p, i) : i \in 1..n})
         /\ highestSent' = q[p[n]].row /\ nextExpected' = highestSent' + 1
  BY <1>1, FlushSteps, Zenon
<1> DEFINE row(i) == q[p[i]].row
           expected(i) == IF i = 1 THEN nextExpected ELSE row(i - 1) + 1
           sent(i) == LeavesAs(q, p, i)
<1>4. /\ \A i \in 1..n : p[i] \in 1..n /\ row(i) \in Rows /\ q[p[i]].vals \in Widths
      /\ \A i, j \in 1..n : i < j => row(i) <= row(j)
  BY BatchOrder
<1>5. \A i \in 1..n : highestSent < row(i) /\ HeaderRow <= row(i)
  BY <1>2, <1>4
<1>6. \A i \in 1..n : /\ sent(i).row = row(i) /\ sent(i).vals = q[p[i]].vals
                      /\ sent(i).gap = Gap(expected(i), row(i)) /\ sent(i).defs = interned'
                      /\ sent(i) = [row |-> row(i), vals |-> q[p[i]].vals,
                                    gap |-> Gap(expected(i), row(i)), defs |-> interned']
  BY DEF LeavesAs
<1> HIDE DEF n, sent
<1>7. \A i \in 1..n : expected(i) \in -1..(MaxRow + 1)
  <2> SUFFICES ASSUME NEW i \in 1..n  PROVE expected(i) \in -1..(MaxRow + 1)
    OBVIOUS
  <2>1. CASE i = 1  BY <1>1, <2>1
  <2>2. CASE i # 1
    <3>1. i - 1 \in 1..n  BY <1>2, <2>2
    <3>2. row(i - 1) \in Rows  BY <1>4, <3>1
    <3> QED  BY <2>2, <3>2, Bounds, SMTT(60) DEF Rows
  <2> QED  BY <2>1, <2>2
<1>8. \A i \in 1..n : Gap(expected(i), row(i)) \in 0..MaxRow
  <2> SUFFICES ASSUME NEW i \in 1..n  PROVE Gap(expected(i), row(i)) \in 0..MaxRow
    OBVIOUS
  <2>1. expected(i) \in -1..(MaxRow + 1) /\ row(i) \in Rows  BY <1>4, <1>7
  <2> HIDE DEF expected, row
  <2> QED  BY <2>1, Bounds DEF Gap, NoRow, Rows
<1>9. \A i \in 1..n : sent(i) \in SentRow
  <2> SUFFICES ASSUME NEW i \in 1..n  PROVE sent(i) \in SentRow
    OBVIOUS
  <2>1. row(i) \in Rows /\ q[p[i]].vals \in Widths  BY <1>4
  <2>2. Gap(expected(i), row(i)) \in 0..MaxRow  BY <1>8
  <2> HIDE DEF expected, row
  <2> QED  BY <2>1, <2>2, <1>6 DEF SentRow
<1>10. wire' \in Seq(SentRow)
  <2>1. SentRow \cup {sent(i) : i \in 1..n} = SentRow  BY <1>9
  <2> QED  BY <1>3, <2>1 DEF sent, n
<1>11. \A i \in 1..n : wire'[L + i] = sent(i)  BY <1>3 DEF sent, n
<1> HIDE DEF L
<1>12. /\ \A i \in 1..L : wire[i].row \in Rows /\ wire'[i].row = wire[i].row
                            /\ wire'[i].gap = wire[i].gap
       /\ \A i \in 1..n : wire'[L + i].row = row(i)
                            /\ wire'[L + i].gap = Gap(expected(i), row(i))
  <2>1. \A i \in 1..L : wire[i] \in SentRow  BY <1>1, <1>2, ElementOfSeq DEF L
  <2> HIDE DEF row, expected
  <2> QED  BY <1>2, <1>6, <1>11, <2>1 DEF SentRow
<1> HIDE DEF row
<1>13. \A i \in 1..L : wire[i].row <= highestSent
  <2> SUFFICES ASSUME NEW i \in 1..L  PROVE wire[i].row <= highestSent
    OBVIOUS
  <2>1. L \in 1..L  BY <1>2, <1>11
  <2>2. wire # <<>>  BY <1>2, <1>11, EmptySeq DEF L
  <2>3. highestSent = wire[L].row  BY <2>2 DEF MarksFit, L
  <2>4. i < L => wire[i].row <= wire[L].row  BY <1>2, <1>11, <2>1 DEF RowsNeverRegress
  <2>5. wire[i].row \in Rows  BY <1>12
  <2> QED  BY <1>2, <1>11, <2>3, <2>4, <2>5 DEF Rows
<1>14. \A k \in 1..(L + n) : k \in 1..L \/ \E i \in 1..n : k = L + i
  <2> SUFFICES ASSUME NEW k \in 1..(L + n), k \notin 1..L
               PROVE  \E i \in 1..n : k = L + i
    OBVIOUS
  <2>1. k - L \in 1..n /\ k = L + (k - L)  BY <1>2, <1>4, <1>11
  <2> QED  BY <2>1
<1>15. RowsNeverRegress'
  <2> SUFFICES ASSUME NEW k \in 1..(L + n), NEW m \in 1..(L + n), k < m
               PROVE  wire'[k].row <= wire'[m].row
    BY <1>2, <1>11 DEF RowsNeverRegress
  <2>1. CASE k \in 1..L /\ m \in 1..L
    BY <2>1, <1>2, <1>11, <1>12 DEF RowsNeverRegress
  <2>2. ASSUME k \in 1..L, NEW j \in 1..n, m = L + j
        PROVE  wire'[k].row <= wire'[m].row
    <3>1. wire[k].row <= highestSent /\ highestSent < row(j)  BY <2>2, <1>5, <1>13 DEF row
    <3>2. wire'[k].row = wire[k].row /\ wire'[m].row = row(j)  BY <2>2, <1>12
    <3>3. wire[k].row \in Rows /\ row(j) \in Rows  BY <2>2, <1>12, <1>2, <1>4 DEF row
    <3> QED  BY <3>1, <3>2, <3>3, <1>1 DEF Rows, NoRow
  <2>3. ASSUME NEW i \in 1..n, k = L + i, NEW j \in 1..n, m = L + j
        PROVE  wire'[k].row <= wire'[m].row
    <3>1. i < j  BY <2>3, <1>2, <1>11, <1>4
    <3>2. row(i) <= row(j)  BY <3>1, <1>2, <1>4 DEF row
    <3> QED  BY <2>3, <3>2, <1>12
  <2>4. ASSUME NEW i \in 1..n, k = L + i, m \in 1..L  PROVE FALSE
    BY <2>4, <1>2, <1>11, <1>4
  <2> QED  BY <2>1, <2>2, <2>3, <2>4, <1>14
<1>16. n \in 1..n /\ row(n) \in Rows /\ wire'[L + n].row = row(n)
  <2>1. n \in 1..n  BY <1>2, <1>4
  <2> QED  BY <2>1, <1>2, <1>4, <1>12 DEF row
<1>17. Marks'
  <2>1. wire' # <<>>  BY <1>2, EmptySeq
  <2> QED  BY <1>2, <1>3, <1>16, <2>1 DEF Marks, n, L, row
<1>18. GapsTile'
  <2> SUFFICES ASSUME NEW k \in 1..(L + n)
               PROVE  wire'[k].gap =
                        IF k > 1
                        THEN IF wire'[k].row = wire'[k - 1].row
                             THEN 0 ELSE wire'[k].row - wire'[k - 1].row - 1
                        ELSE IF HeaderRow = NoRow THEN 0 ELSE wire'[k].row - HeaderRow
    BY <1>2, <1>11 DEF GapsTile
  <2>1. CASE k \in 1..L
    <3>1. k > 1 => k - 1 \in 1..L  BY <2>1, <1>2, <1>11
    <3> QED  BY <2>1, <3>1, <1>2, <1>11, <1>12 DEF GapsTile
  <2>2. ASSUME k = L + 1, L = 0
        PROVE  wire'[k].gap = IF HeaderRow = NoRow THEN 0 ELSE wire'[k].row - HeaderRow
    <3>1. wire = <<>>  BY <2>2, <1>1, EmptySeq DEF L
    <3>2. 1 \in 1..n /\ expected(1) = nextExpected  BY <1>2
    <3>3. wire'[k].row = row(1) /\ wire'[k].gap = Gap(nextExpected, row(1))
      BY <1>12, <2>2, <3>2
    <3>4. HeaderRow <= row(1) /\ row(1) \in Rows  BY <1>4, <1>5, <3>2 DEF row
    <3>5. nextExpected = HeaderRow \/ (HeaderRow = NoRow /\ row(1) <= nextExpected)
      BY <3>1 DEF MarksFit, row
    <3> QED  BY <1>1, <3>3, <3>4, <3>5, Bounds DEF Gap, NoRow, Rows
  <2>3. ASSUME k = L + 1, L # 0
        PROVE  wire'[k].gap = IF wire'[k].row = wire'[k - 1].row
                              THEN 0 ELSE wire'[k].row - wire'[k - 1].row - 1
    <3>1. wire # <<>>  BY <2>3, EmptySeq DEF L
    <3>2. highestSent = wire[L].row /\ nextExpected = highestSent + 1
      BY <3>1 DEF MarksFit, L
    <3>3. 1 \in 1..n /\ expected(1) = nextExpected /\ L \in 1..L /\ k - 1 = L
      BY <2>3, <1>2, <1>4, <1>11
    <3>4. wire'[k].row = row(1) /\ wire'[k].gap = Gap(highestSent + 1, row(1))
      BY <2>3, <3>2, <3>3, <1>12
    <3>5. wire'[k - 1].row = highestSent /\ highestSent \in Rows  BY <3>2, <3>3, <1>12
    <3>6. highestSent < row(1) /\ row(1) \in Rows  BY <3>3, <1>2, <1>4, <1>5 DEF row
    <3> QED  BY <3>4, <3>5, <3>6, Bounds DEF Gap, NoRow, Rows
  <2>4. ASSUME NEW i \in 1..n, k = L + i, i # 1
        PROVE  wire'[k].gap = IF wire'[k].row = wire'[k - 1].row
                              THEN 0 ELSE wire'[k].row - wire'[k - 1].row - 1
    <3>1. i - 1 \in 1..n /\ i - 1 < i /\ k - 1 = L + (i - 1)  BY <2>4, <1>2, <1>4, <1>11
    <3>2. expected(i) = row(i - 1) + 1  BY <2>4
    <3>3. wire'[k].row = row(i) /\ wire'[k].gap = Gap(row(i - 1) + 1, row(i))
      BY <2>4, <3>2, <1>12
    <3>4. wire'[k - 1].row = row(i - 1)  BY <3>1, <1>12
    <3>5. row(i) \in Rows /\ row(i - 1) \in Rows /\ row(i - 1) <= row(i)
      BY <3>1, <1>2, <1>4 DEF row
    <3> QED  BY <3>3, <3>4, <3>5, Bounds DEF Gap, NoRow, Rows
  <2> HIDE DEF expected
  <2>5. CASE L = 0 /\ k = L + 1  BY <2>2, <2>5
  <2>6. CASE L # 0 /\ k = L + 1  BY <2>3, <2>6, <1>2, <1>11
  <2>7. ASSUME NEW i \in 1..n, k = L + i, i # 1
        PROVE  k > 1
    BY <2>7, <1>2, <1>11, <1>4
  <2> QED  BY <2>1, <2>4, <2>5, <2>6, <2>7, <1>14
<1>19. ASSUME NEW m \in Int, \A i \in DOMAIN q : q[i].row < m  PROVE highestSent' < m
  BY <1>3, <1>2, <1>4, <1>16, <1>19 DEF n, row
<1>20. highestSent' \in Rows /\ nextExpected' \in -1..(MaxRow + 1)
  BY <1>3, <1>16, Bounds, SMTT(60) DEF n, row, Rows
<1>21. wire' # <<>>  BY <1>2, EmptySeq
<1> QED  BY <1>2, <1>10, <1>15, <1>17, <1>18, <1>19, <1>20, <1>21

(* push: the row, queued or flushed, is past all that was sent. *)
LEMMA PushKeepsOrder ==
  ASSUME TypeOK, Order, phase = "reading", interned' \in 0..MaxCells,
         NEW row \in Rows, NEW vals \in Widths,
         highestSent < row, HeaderRow <= row, Push(row, vals)
  PROVE  /\ queue' \in Seq(QueuedRow) /\ wire' \in Seq(SentRow) /\ defined' \in 0..MaxCells
         /\ highestSent' \in Rows \cup {NoRow} /\ nextExpected' \in -1..(MaxRow + 1)
         /\ RowsNeverRegress' /\ Marks' /\ GapsTile'
         /\ \A i \in DOMAIN queue' : highestSent' < queue'[i].row /\ HeaderRow <= queue'[i].row
         /\ \A m \in Int :
              /\ row < m /\ highestSent < m
              /\ \A i \in DOMAIN queue : queue[i].row < m
              => highestSent' < m /\ \A i \in DOMAIN queue' : queue'[i].row < m
<1> DEFINE q == Queued(queue, row, vals)
<1>1. queue \in Seq(QueuedRow)  BY DEF TypeOK
<1>2. /\ q \in Seq(QueuedRow) /\ q # <<>>
      /\ \A i \in DOMAIN q : q[i].row = row \/ \E j \in DOMAIN queue : q[i].row = queue[j].row
  BY <1>1, QueuedRows
<1> HIDE DEF q
<1>3. \A i \in DOMAIN q : highestSent < q[i].row /\ HeaderRow <= q[i].row
  BY <1>2 DEF Order, QueueAhead
<1>4. \A m \in Int : row < m /\ (\A i \in DOMAIN queue : queue[i].row < m)
                       => \A i \in DOMAIN q : q[i].row < m
  BY <1>2
<1>5. CASE /\ queue' = q
           /\ UNCHANGED <<nextExpected, highestSent, wire, defined>>
  <2>1. /\ queue' \in Seq(QueuedRow) /\ wire' \in Seq(SentRow) /\ defined' \in 0..MaxCells
        /\ highestSent' \in Rows \cup {NoRow} /\ nextExpected' \in -1..(MaxRow + 1)
    BY <1>2, <1>5 DEF TypeOK
  <2>2. RowsNeverRegress' /\ Marks' /\ GapsTile'
    BY <1>5 DEF Order, RowsNeverRegress, Marks, GapsTile
  <2> QED  BY <2>1, <2>2, <1>3, <1>4, <1>5
<1>6. CASE Flush(q)
  <2>1. RowsNeverRegress /\ Marks /\ GapsTile  BY DEF Order
  <2>2. /\ queue' = <<>> /\ wire' \in Seq(SentRow) /\ defined' \in 0..MaxCells
        /\ highestSent' \in Rows /\ nextExpected' \in -1..(MaxRow + 1)
        /\ RowsNeverRegress' /\ Marks' /\ GapsTile'
        /\ \A m \in Int : (\A i \in DOMAIN q : q[i].row < m) => highestSent' < m
    BY <1>2, <1>3, <1>6, <2>1, FlushKeepsOrder DEF Marks, MarksFit
  <2>3. queue' \in Seq(QueuedRow) /\ DOMAIN queue' = {}  BY <2>2
  <2> QED  BY <2>2, <2>3, <1>4
<1> QED  BY <1>5, <1>6 DEF Push, q

-----------------------------------------------------------------------------
(* The steps.                                                              *)

LEMMA InternTypes ==
  ASSUME TypeOK, NEW id \in 0..Least(interned + 1, MaxCells), Intern(id)
  PROVE  interned' \in 0..MaxCells /\ id \in 0..MaxCells
BY Bounds DEF TypeOK, Intern, Least

(* What every cell of the sheet does. *)
LEMMA ReceiveTypes ==
  ASSUME TypeOK, NEW row \in Rows, NEW col \in Cols,
         NEW id \in 0..Least(interned + 1, MaxCells), Receive(row, col, id)
  PROVE  /\ phase = "reading" /\ HeaderRow <= row
         /\ interned' \in 0..MaxCells /\ read' \in 0..MaxCells
         /\ sheet' \in [Rows -> Widths] /\ ref' \in [Serials -> 0..MaxCells]
         /\ OneCell(col, read + 1) \in Widths
         /\ [values EXCEPT ![col] = read + 1] \in Widths
<1>1. interned' \in 0..MaxCells /\ id \in 0..MaxCells  BY InternTypes DEF Receive
<1>2. read \in 0..MaxCells /\ read < MaxCells  BY DEF TypeOK, Receive
<1>3. read + 1 \in 0..MaxCells /\ read + 1 \in Serials  BY <1>2, Bounds DEF Serials
<1>4. HeaderRow <= row  BY Bounds DEF Receive, NoRow, Rows
<1>5. OneCell(col, read + 1) \in Widths  BY <1>3, RowTypes
<1>6. [values EXCEPT ![col] = read + 1] \in Widths  BY <1>3 DEF TypeOK, Widths
<1>7. sheet' \in [Rows -> Widths]  BY <1>3 DEF TypeOK, Receive, Widths
<1>8. ref' \in [Serials -> 0..MaxCells]  BY <1>1, <1>3 DEF TypeOK, Receive
<1>9. phase = "reading" /\ read' = read + 1  BY DEF Receive
<1> QED  BY <1>1, <1>3, <1>4, <1>5, <1>6, <1>7, <1>8, <1>9

(* The batcher is left alone, and so is the order. *)
LEMMA OrderUnchanged ==
  ASSUME Order, UNCHANGED batchVars, phase' = phase \/ phase' # "reading",
         phase' = "reading" => UNCHANGED <<open, current>>
  PROVE  Order'
<1>1. RowsNeverRegress' /\ Marks' /\ GapsTile'
  BY DEF Order, batchVars, RowsNeverRegress, Marks, GapsTile
<1>2. QueueAhead'  BY DEF Order, QueueAhead, batchVars
<1>3. CurrentAhead'  BY DEF Order, CurrentAhead, batchVars
<1> QED  BY <1>1, <1>2, <1>3 DEF Order

LEMMA InitHolds == Init => IInv
<1> SUFFICES ASSUME Init PROVE IInv
  OBVIOUS
<1>1. DOMAIN wire = {} /\ wire = <<>> /\ queue = <<>> /\ DOMAIN queue = {}  BY DEF Init
<1>2. TypeOK
  <2>1. wire \in Seq(SentRow) /\ queue \in Seq(QueuedRow)  BY <1>1
  <2>2. /\ values \in Widths /\ sheet \in [Rows -> Widths]
        /\ ref \in [Serials -> 0..MaxCells]
    BY RowTypes, Bounds DEF Init
  <2>3. /\ current \in Rows /\ nextExpected \in -1..(MaxRow + 1)
        /\ interned \in 0..MaxCells /\ defined \in 0..MaxCells /\ read \in 0..MaxCells
    <3>1. 0 \in 0..MaxRow /\ 0 \in 0..MaxCells /\ HeaderRow \in -1..(MaxRow + 1)
      BY Bounds
    <3> QED  BY <3>1 DEF Init, Rows
  <2>4. phase = "reading" /\ open = FALSE /\ highestSent = NoRow  BY DEF Init
  <2> QED  BY <2>1, <2>2, <2>3, <2>4 DEF TypeOK
<1>3. Order
  BY <1>1 DEF Init, Order, QueueAhead, CurrentAhead, RowsNeverRegress, Marks, GapsTile
<1> QED  BY <1>2, <1>3 DEF IInv

LEMMA FirstCellKeeps ==
  ASSUME IInv, NEW row \in Rows, NEW col \in Cols,
         NEW id \in 0..Least(interned + 1, MaxCells), FirstCell(row, col, id)
  PROVE  IInv'
<1>1. TypeOK /\ Order /\ Receive(row, col, id)  BY DEF IInv, FirstCell
<1>2. /\ phase = "reading" /\ HeaderRow <= row
      /\ interned' \in 0..MaxCells /\ read' \in 0..MaxCells
      /\ sheet' \in [Rows -> Widths] /\ ref' \in [Serials -> 0..MaxCells]
      /\ OneCell(col, read + 1) \in Widths
  BY <1>1, ReceiveTypes
<1>3. TypeOK'
  BY <1>1, <1>2 DEF TypeOK, FirstCell, batchVars
<1>4. queue' = <<>> /\ highestSent' = NoRow /\ DOMAIN queue' = {}
  BY <1>1, <1>2 DEF Order, CurrentAhead, FirstCell, batchVars
<1>5. CurrentAhead' /\ QueueAhead'
  BY <1>2, <1>4 DEF CurrentAhead, QueueAhead, FirstCell, NoRow, Rows
<1>6. RowsNeverRegress' /\ Marks' /\ GapsTile'
  BY <1>1 DEF Order, FirstCell, batchVars, RowsNeverRegress, Marks, GapsTile
<1> QED  BY <1>3, <1>5, <1>6 DEF IInv, Order

LEMMA SameRowKeeps ==
  ASSUME IInv, NEW row \in Rows, NEW col \in Cols,
         NEW id \in 0..Least(interned + 1, MaxCells), SameRow(row, col, id)
  PROVE  IInv'
<1>1. TypeOK /\ Order /\ Receive(row, col, id)  BY DEF IInv, SameRow
<1>2. /\ interned' \in 0..MaxCells /\ read' \in 0..MaxCells
      /\ sheet' \in [Rows -> Widths] /\ ref' \in [Serials -> 0..MaxCells]
      /\ [values EXCEPT ![col] = read + 1] \in Widths
  BY <1>1, ReceiveTypes
<1>3. TypeOK'  BY <1>1, <1>2 DEF TypeOK, SameRow, batchVars
<1>4. Order'  BY <1>1, OrderUnchanged DEF SameRow
<1> QED  BY <1>3, <1>4 DEF IInv

LEMMA NextRowKeeps ==
  ASSUME IInv, NEW row \in Rows, NEW col \in Cols,
         NEW id \in 0..Least(interned + 1, MaxCells), NextRow(row, col, id)
  PROVE  IInv'
<1>1. /\ TypeOK /\ Order /\ Receive(row, col, id)
      /\ open /\ row > current
  BY DEF IInv, NextRow
<1>2. /\ phase = "reading" /\ HeaderRow <= row
      /\ interned' \in 0..MaxCells /\ read' \in 0..MaxCells
      /\ sheet' \in [Rows -> Widths] /\ ref' \in [Serials -> 0..MaxCells]
      /\ OneCell(col, read + 1) \in Widths
  BY <1>1, ReceiveTypes
<1>3. /\ highestSent < current /\ HeaderRow <= current
      /\ \A i \in DOMAIN queue : queue[i].row < current
  BY <1>1, <1>2 DEF Order, CurrentAhead
<1>4. current \in Rows /\ values \in Widths /\ highestSent \in Rows \cup {NoRow}
      /\ queue \in Seq(QueuedRow)
  BY <1>1 DEF TypeOK
<1>5. /\ Push(current, values) /\ current' = row /\ values' = OneCell(col, read + 1)
      /\ UNCHANGED <<phase, open>>
  BY <1>3 DEF NextRow, Accepts
<1>6. /\ queue' \in Seq(QueuedRow) /\ wire' \in Seq(SentRow) /\ defined' \in 0..MaxCells
      /\ highestSent' \in Rows \cup {NoRow} /\ nextExpected' \in -1..(MaxRow + 1)
      /\ RowsNeverRegress' /\ Marks' /\ GapsTile'
      /\ \A i \in DOMAIN queue' : highestSent' < queue'[i].row /\ HeaderRow <= queue'[i].row
      /\ \A m \in Int :
           /\ current < m /\ highestSent < m
           /\ \A i \in DOMAIN queue : queue[i].row < m
           => highestSent' < m /\ \A i \in DOMAIN queue' : queue'[i].row < m
  BY <1>1, <1>2, <1>3, <1>4, <1>5, PushKeepsOrder
<1>7. TypeOK'  BY <1>1, <1>2, <1>5, <1>6 DEF TypeOK
<1>8. \A i \in DOMAIN queue : queue[i].row \in Rows
  <2>1. queue \in [1..Len(queue) -> QueuedRow]  BY <1>4, LenProperties
  <2> QED  BY <2>1 DEF QueuedRow
<1>9. highestSent' < row /\ \A i \in DOMAIN queue' : queue'[i].row < row
  <2>1. current < row /\ highestSent < row /\ \A i \in DOMAIN queue : queue[i].row < row
    BY <1>1, <1>3, <1>4, <1>8 DEF Rows, NoRow
  <2> QED  BY <2>1, <1>6 DEF Rows
<1>10. CurrentAhead' /\ QueueAhead'
  BY <1>1, <1>2, <1>5, <1>6, <1>9 DEF CurrentAhead, QueueAhead
<1> QED  BY <1>6, <1>7, <1>10 DEF IInv, Order

LEMMA LateRowKeeps ==
  ASSUME IInv, NEW row \in Rows, NEW col \in Cols,
         NEW id \in 0..Least(interned + 1, MaxCells), LateRow(row, col, id)
  PROVE  IInv'
<1>1. /\ TypeOK /\ Order /\ Receive(row, col, id)
      /\ open /\ row < current /\ highestSent < row
      /\ Push(row, OneCell(col, read + 1)) /\ UNCHANGED <<phase, rowVars>>
  BY DEF IInv, LateRow, Accepts
<1>2. /\ phase = "reading" /\ HeaderRow <= row
      /\ interned' \in 0..MaxCells /\ read' \in 0..MaxCells
      /\ sheet' \in [Rows -> Widths] /\ ref' \in [Serials -> 0..MaxCells]
      /\ OneCell(col, read + 1) \in Widths
  BY <1>1, ReceiveTypes
<1>3. /\ highestSent < current /\ HeaderRow <= current
      /\ \A i \in DOMAIN queue : queue[i].row < current
  BY <1>1, <1>2 DEF Order, CurrentAhead
<1>4. /\ queue' \in Seq(QueuedRow) /\ wire' \in Seq(SentRow) /\ defined' \in 0..MaxCells
      /\ highestSent' \in Rows \cup {NoRow} /\ nextExpected' \in -1..(MaxRow + 1)
      /\ RowsNeverRegress' /\ Marks' /\ GapsTile'
      /\ \A i \in DOMAIN queue' : highestSent' < queue'[i].row /\ HeaderRow <= queue'[i].row
      /\ \A m \in Int :
           /\ row < m /\ highestSent < m
           /\ \A i \in DOMAIN queue : queue[i].row < m
           => highestSent' < m /\ \A i \in DOMAIN queue' : queue'[i].row < m
  BY <1>1, <1>2, PushKeepsOrder
<1>5. TypeOK'  BY <1>1, <1>2, <1>4 DEF TypeOK, rowVars
<1>6. highestSent' < current /\ \A i \in DOMAIN queue' : queue'[i].row < current
  <2>1. current \in Int  BY <1>1 DEF TypeOK, Rows
  <2> QED  BY <2>1, <1>1, <1>3, <1>4
<1>7. CurrentAhead' /\ QueueAhead'
  BY <1>1, <1>2, <1>3, <1>4, <1>6 DEF CurrentAhead, QueueAhead, rowVars
<1> QED  BY <1>4, <1>5, <1>7 DEF IInv, Order

LEMMA EndOfSheetKeeps ==
  ASSUME IInv, EndOfSheet
  PROVE  IInv'
<1>1. TypeOK /\ Order /\ phase = "reading" /\ UNCHANGED <<rowVars, histVars, interned>>
  BY DEF IInv, EndOfSheet
<1>2. CASE phase' = "failed" /\ UNCHANGED <<batchVars, defined>>
  <2>1. TypeOK'  BY <1>1, <1>2 DEF TypeOK, rowVars, histVars, batchVars
  <2>2. Order'  BY <1>1, <1>2, OrderUnchanged
  <2> QED  BY <2>1, <2>2 DEF IInv
<1>3. CASE ~(open /\ ~Accepts(current))
  <2> DEFINE q == IF open THEN Queued(queue, current, values) ELSE queue
  <2>1. phase' = "ended" /\ Flush(q)  BY <1>3 DEF EndOfSheet
  <2>2. queue \in Seq(QueuedRow) /\ current \in Rows /\ values \in Widths
    BY <1>1 DEF TypeOK
  <2>3. q \in Seq(QueuedRow) /\ \A i \in DOMAIN q :
                                  highestSent < q[i].row /\ HeaderRow <= q[i].row
    <3>1. CASE open
      <4>1. highestSent < current /\ HeaderRow <= current
        BY <1>1, <3>1 DEF Order, CurrentAhead
      <4>2. /\ q \in Seq(QueuedRow)
            /\ \A i \in DOMAIN q : q[i].row = current
                                     \/ \E j \in DOMAIN queue : q[i].row = queue[j].row
        BY <2>2, <3>1, QueuedRows
      <4> HIDE DEF q
      <4> QED  BY <1>1, <4>1, <4>2 DEF Order, QueueAhead
    <3>2. CASE ~open
      BY <1>1, <2>2, <3>2 DEF Order, QueueAhead
    <3> QED  BY <3>1, <3>2
  <2> HIDE DEF q
  <2>4. interned' \in 0..MaxCells  BY <1>1 DEF TypeOK
  <2>5. /\ queue' \in Seq(QueuedRow) /\ wire' \in Seq(SentRow) /\ defined' \in 0..MaxCells
        /\ highestSent' \in Rows \cup {NoRow} /\ nextExpected' \in -1..(MaxRow + 1)
        /\ RowsNeverRegress' /\ Marks' /\ GapsTile'
    <3>1. RowsNeverRegress /\ Marks /\ GapsTile  BY <1>1 DEF Order
    <3>2. CASE q = <<>>
      <4>1. UNCHANGED batchVars /\ defined' = defined
        BY <2>1, <3>2 DEF Flush, batchVars
      <4>2. /\ queue' \in Seq(QueuedRow) /\ wire' \in Seq(SentRow) /\ defined' \in 0..MaxCells
            /\ highestSent' \in Rows \cup {NoRow} /\ nextExpected' \in -1..(MaxRow + 1)
        BY <1>1, <4>1 DEF TypeOK, batchVars
      <4>3. RowsNeverRegress' /\ Marks' /\ GapsTile'
        BY <3>1, <4>1 DEF batchVars, RowsNeverRegress, Marks, GapsTile
      <4> QED  BY <4>2, <4>3
    <3>3. CASE q # <<>>
      <4>1. /\ queue' = <<>> /\ wire' \in Seq(SentRow) /\ defined' \in 0..MaxCells
            /\ highestSent' \in Rows /\ nextExpected' \in -1..(MaxRow + 1)
            /\ RowsNeverRegress' /\ Marks' /\ GapsTile'
        BY <1>1, <2>1, <2>3, <2>4, <3>1, <3>3, FlushKeepsOrder DEF Marks, MarksFit
      <4> QED  BY <4>1
    <3> QED  BY <3>2, <3>3
  <2>6. TypeOK'  BY <1>1, <2>1, <2>4, <2>5 DEF TypeOK, rowVars, histVars
  <2>7. QueueAhead' /\ CurrentAhead'  BY <2>1 DEF QueueAhead, CurrentAhead
  <2> QED  BY <2>5, <2>6, <2>7 DEF IInv, Order
<1> QED  BY <1>2, <1>3 DEF EndOfSheet

(* The steps that leave the batcher alone. *)
LEMMA QuietKeeps ==
  ASSUME IInv, UNCHANGED batchVars, UNCHANGED rowVars,
         phase' \in {phase, "failed", "gone"},
         defined' = defined, interned' \in 0..MaxCells, read' \in 0..MaxCells,
         sheet' \in [Rows -> Widths], ref' \in [Serials -> 0..MaxCells]
  PROVE  IInv'
<1>1. TypeOK'  BY DEF IInv, TypeOK, rowVars, batchVars
<1>2. Order'  BY OrderUnchanged DEF IInv, rowVars
<1> QED  BY <1>1, <1>2 DEF IInv

LEMMA StepHolds == IInv /\ [Next]_vars => IInv'
<1> SUFFICES ASSUME IInv, [Next]_vars  PROVE IInv'
  OBVIOUS
<1>0. TypeOK  BY DEF IInv
<1>1. ASSUME NEW row \in Rows, NEW col \in Cols,
             NEW id \in 0..Least(interned + 1, MaxCells), FirstCell(row, col, id)
      PROVE  IInv'
  BY <1>1, FirstCellKeeps
<1>2. ASSUME NEW row \in Rows, NEW col \in Cols,
             NEW id \in 0..Least(interned + 1, MaxCells), SameRow(row, col, id)
      PROVE  IInv'
  BY <1>2, SameRowKeeps
<1>3. ASSUME NEW row \in Rows, NEW col \in Cols,
             NEW id \in 0..Least(interned + 1, MaxCells), NextRow(row, col, id)
      PROVE  IInv'
  BY <1>3, NextRowKeeps
<1>4. ASSUME NEW row \in Rows, NEW col \in Cols,
             NEW id \in 0..Least(interned + 1, MaxCells), LateRow(row, col, id)
      PROVE  IInv'
  BY <1>4, LateRowKeeps
<1>5. ASSUME NEW row \in Rows, NEW col \in Cols,
             NEW id \in 0..Least(interned + 1, MaxCells), TooLate(row, col, id)
      PROVE  IInv'
  <2>1. /\ interned' \in 0..MaxCells /\ read' \in 0..MaxCells
        /\ sheet' \in [Rows -> Widths] /\ ref' \in [Serials -> 0..MaxCells]
    BY <1>0, <1>5, ReceiveTypes DEF TooLate
  <2> QED  BY <1>5, <2>1, QuietKeeps DEF TooLate
<1>6. ASSUME NEW row \in Rows, NEW id \in 1..Least(interned + 1, MaxCells),
             SkipAbove(row, id)
      PROVE  IInv'
  <2>1. id \in 0..Least(interned + 1, MaxCells)  BY <1>0, Bounds DEF TypeOK, Least
  <2>2. interned' \in 0..MaxCells  BY <1>0, <1>6, <2>1, InternTypes DEF SkipAbove
  <2>3. UNCHANGED <<phase, rowVars, batchVars, defined, histVars>>  BY <1>6 DEF SkipAbove
  <2> QED  BY <1>0, <2>2, <2>3, QuietKeeps DEF TypeOK, histVars
<1>7. CASE ReadFails
  BY <1>0, <1>7, QuietKeeps DEF ReadFails, TypeOK, stringVars, histVars
<1>8. CASE ClientGone
  BY <1>0, <1>8, QuietKeeps DEF ClientGone, TypeOK, stringVars, histVars
<1>9. CASE EndOfSheet
  BY <1>9, EndOfSheetKeeps
<1>10. CASE UNCHANGED vars
  BY <1>0, <1>10, QuietKeeps DEF TypeOK, vars, stringVars, histVars
<1> QED
  BY <1>1, <1>2, <1>3, <1>4, <1>5, <1>6, <1>7, <1>8, <1>9, <1>10 DEF Next, CellNext

-----------------------------------------------------------------------------
(* The invariant holds in every state of every stream. *)
THEOREM Invariance == Spec => []IInv
BY InitHolds, StepHolds, PTL DEF Spec

(* The state of a stream keeps its type: gaps, marks and string ids never  *)
(* leave the sheet.                                                        *)
THEOREM TypeCorrect == Spec => []TypeOK
<1>1. IInv => TypeOK  BY DEF IInv
<1> QED  BY <1>1, Invariance, PTL

(* No row is sent once a later one has been, for every order of the cells  *)
(* and wherever the batches close.                                         *)
THEOREM OrderCorrect == Spec => []RowsNeverRegress
<1>1. IInv => RowsNeverRegress  BY DEF IInv, Order
<1> QED  BY <1>1, Invariance, PTL

(* emit_incremental never finds the row under construction unsendable:     *)
(* two of its three calls of abort_unsorted are unreachable.               *)
THEOREM CurrentCorrect == Spec => []CurrentAccepted
<1>1. IInv => CurrentAccepted  BY DEF IInv, Order, CurrentAhead, CurrentAccepted, Accepts
<1> QED  BY <1>1, Invariance, PTL

(* Gaps and rows tile the sheet, from the header row on where there is     *)
(* one; a row sent twice has no gap before its repetition.                 *)
THEOREM GapsCorrect == Spec => []GapsTile
<1>1. IInv => GapsTile  BY DEF IInv, Order
<1> QED  BY <1>1, Invariance, PTL
-----------------------------------------------------------------------------
(***************************************************************************)
(* The cells: none is lost between the reader and the wire, and no string  *)
(* id comes before its definition.                                         *)
(***************************************************************************)

HoldsIn(s, row, col, v) == \E i \in DOMAIN s : s[i].row = row /\ s[i].vals[col] = v

(* The row under construction holds the last values read for it. *)
ValuesLatest ==
    phase = "reading" /\ open =>
        \A col \in Cols : values[col] # 0 => sheet[current][col] = values[col]

(* Values that were read, whose strings are interned. *)
Known == {v \in 0..read : v # 0 => ref[v] <= interned}

ValuesKnown ==
    /\ \A c \in Cols : values[c] \in Known
    /\ \A i \in DOMAIN queue, c \in Cols : queue[i].vals[c] \in Known
    /\ \A i \in DOMAIN wire, c \in Cols : wire[i].vals[c] \in Known

CellInv == ValuesLatest /\ NoCellLost /\ ValuesKnown /\ StringsDefinedFirst
-----------------------------------------------------------------------------
(* A batch in order has every row of the queue: what sorts is one to one.  *)
LEMMA OrderIsOnto ==
  ASSUME NEW q \in Seq(QueuedRow), NEW p \in Orders(q), NEW k \in DOMAIN q
  PROVE  \E i \in DOMAIN q : p[i] = k
<1>1. Len(q) \in Nat /\ DOMAIN q = 1..Len(q)  BY LenProperties
<1>2. /\ p \in [1..Len(q) -> 1..Len(q)]
      /\ \A i, j \in 1..Len(q) : i < j => p[i] # p[j]
  BY <1>1, Zenon DEF Orders
<1>3. \A i, j \in 1..Len(q) : p[i] = p[j] => i = j
  <2> SUFFICES ASSUME NEW i \in 1..Len(q), NEW j \in 1..Len(q), i # j PROVE p[i] # p[j]
    OBVIOUS
  <2>1. i < j \/ j < i  BY <1>1
  <2> QED  BY <1>2, <2>1
<1>4. p \in Injection(1..Len(q), 1..Len(q))  BY <1>2, <1>3, Fun_IsInj
<1>5. IsFiniteSet(1..Len(q))  BY <1>1, FS_Interval
<1>6. p \in Surjection(1..Len(q), 1..Len(q))  BY <1>4, <1>5, FS_Injection
<1>7. \A j \in 1..Len(q) : \E i \in 1..Len(q) : p[i] = j
  BY <1>6, ZenonT(60), Fun_SurjectionProperties
<1> QED  BY <1>1, <1>7

(* A row that is queued has a first place in the queue. *)
LEMMA FirstRow ==
  ASSUME NEW q \in Seq(QueuedRow), NEW row \in Rows, \E i \in DOMAIN q : q[i].row = row
  PROVE  FirstAt(q, row) \in DOMAIN q /\ q[FirstAt(q, row)].row = row
<1> DEFINE P == {i \in DOMAIN q : q[i].row = row}
<1>1. P \subseteq Nat /\ P # {}  BY LenProperties
<1>2. PICK m \in P : \A i \in P : m <= i  BY <1>1, LeastMember
<1>3. m \in DOMAIN q /\ q[m].row = row /\ \A j \in DOMAIN q : q[j].row = row => m <= j
  BY <1>2
<1> QED  BY <1>3 DEF FirstAt

(* push loses nothing of the queue but what it has a later value for. *)
LEMMA QueuedKeeps ==
  ASSUME NEW q \in Seq(QueuedRow), NEW row \in Rows, NEW vals \in Widths,
         NEW r \in Rows, NEW c \in Cols, NEW v \in Nat \ {0},
         \/ HoldsIn(q, r, c, v) /\ (r = row => vals[c] \in {0, v})
         \/ r = row /\ vals[c] = v
  PROVE  HoldsIn(Queued(q, row, vals), r, c, v)
<1> DEFINE elt == [row |-> row, vals |-> vals]
           hit == q # <<>> /\ row <= q[Len(q)].row /\ \E i \in DOMAIN q : q[i].row = row
<1>0. /\ Len(q) \in Nat /\ DOMAIN q = 1..Len(q) /\ \A i \in DOMAIN q : q[i] \in QueuedRow
      /\ elt \in QueuedRow
  BY LenProperties, ZenonT(60) DEF QueuedRow
<1>1. CASE ~hit
  <2>1. Queued(q, row, vals) = Append(q, elt)  BY <1>1 DEF Queued
  <2>2. /\ DOMAIN Append(q, elt) = 1..(Len(q) + 1)
        /\ \A i \in 1..Len(q) : Append(q, elt)[i] = q[i]
        /\ Append(q, elt)[Len(q) + 1] = elt
    BY <1>0, AppendProperties
  <2>3. CASE HoldsIn(q, r, c, v)
    <3>1. PICK i \in DOMAIN q : q[i].row = r /\ q[i].vals[c] = v  BY <2>3 DEF HoldsIn
    <3>2. i \in 1..(Len(q) + 1) /\ Append(q, elt)[i] = q[i]  BY <1>0, <2>2
    <3> QED  BY <2>1, <2>2, <3>1, <3>2 DEF HoldsIn
  <2>4. CASE r = row /\ vals[c] = v
    <3>1. Len(q) + 1 \in 1..(Len(q) + 1)  BY <1>0
    <3>2. elt.row = r /\ elt.vals[c] = v  BY <2>4
    <3> HIDE DEF elt
    <3> QED  BY <2>1, <2>2, <3>1, <3>2 DEF HoldsIn
  <2> QED  BY <2>3, <2>4
<1>2. CASE hit
  <2> DEFINE k == FirstAt(q, row)
             new == [row |-> row, vals |-> Merge(q[k].vals, vals)]
             s == [i \in DOMAIN q |-> IF i = k THEN new ELSE q[i]]
  <2>1. Queued(q, row, vals) = s  BY <1>2 DEF Queued
  <2>2. k \in DOMAIN q /\ q[k].row = row
    BY <1>2, FirstRow
  <2>3. Merge(q[k].vals, vals)[c] = IF vals[c] # 0 THEN vals[c] ELSE q[k].vals[c]
    BY DEF Merge
  <2>4. DOMAIN s = DOMAIN q /\ s[k].row = row
        /\ s[k].vals[c] = (IF vals[c] # 0 THEN vals[c] ELSE q[k].vals[c])
    <3>1. s[k] = new  BY <2>2
    <3>2. new.row = row /\ new.vals = Merge(q[k].vals, vals)  OBVIOUS
    <3> HIDE DEF new, k
    <3> QED  BY <2>3, <3>1, <3>2 DEF s
  <2>5. CASE HoldsIn(q, r, c, v) /\ (r = row => vals[c] \in {0, v})
    <3>1. PICK i \in DOMAIN q : q[i].row = r /\ q[i].vals[c] = v  BY <2>5 DEF HoldsIn
    <3>2. CASE i = k
      <4>1. s[k].row = r /\ s[k].vals[c] = v  BY <2>2, <2>4, <2>5, <3>1, <3>2
      <4> QED  BY <2>1, <2>2, <2>4, <4>1 DEF HoldsIn
    <3>3. CASE i # k
      <4>1. s[i] = q[i]  BY <3>1, <3>3
      <4> QED  BY <2>1, <2>4, <3>1, <4>1 DEF HoldsIn
    <3> QED  BY <3>2, <3>3
  <2>6. CASE r = row /\ vals[c] = v
    <3>1. s[k].row = r /\ s[k].vals[c] = v  BY <2>4, <2>6
    <3> QED  BY <2>1, <2>2, <2>4, <3>1 DEF HoldsIn
  <2> QED  BY <2>5, <2>6
<1> QED  BY <1>1, <1>2

(* What push leaves holds no other values. *)
LEMMA QueuedFrom ==
  ASSUME NEW q \in Seq(QueuedRow), NEW row \in Rows, NEW vals, NEW V,
         \A c \in Cols : vals[c] \in V,
         \A i \in DOMAIN q, c \in Cols : q[i].vals[c] \in V
  PROVE  \A i \in DOMAIN Queued(q, row, vals), c \in Cols :
            Queued(q, row, vals)[i].vals[c] \in V
<1> DEFINE elt == [row |-> row, vals |-> vals]
           hit == q # <<>> /\ row <= q[Len(q)].row /\ \E i \in DOMAIN q : q[i].row = row
<1>1. CASE ~hit
  <2>1. Queued(q, row, vals) = Append(q, elt)  BY <1>1 DEF Queued
  <2>2. /\ Len(q) \in Nat /\ DOMAIN q = 1..Len(q)
        /\ DOMAIN Append(q, elt) = 1..(Len(q) + 1)
        /\ \A i \in 1..Len(q) : Append(q, elt)[i] = q[i]
        /\ Append(q, elt)[Len(q) + 1] = elt
    BY LenProperties
  <2>3. elt.vals = vals  OBVIOUS
  <2> HIDE DEF elt
  <2>4. ASSUME NEW i \in 1..(Len(q) + 1), NEW c \in Cols
        PROVE  Append(q, elt)[i].vals[c] \in V
    <3>1. i \in 1..Len(q) \/ i = Len(q) + 1  BY <2>2
    <3> QED  BY <2>2, <2>3, <3>1
  <2> QED  BY <2>1, <2>2, <2>4
<1>2. CASE hit
  <2> DEFINE k == FirstAt(q, row)
             new == [row |-> row, vals |-> Merge(q[k].vals, vals)]
             s == [i \in DOMAIN q |-> IF i = k THEN new ELSE q[i]]
  <2>1. Queued(q, row, vals) = s  BY <1>2 DEF Queued
  <2>2. k \in DOMAIN q  BY <1>2, FirstRow
  <2>3. \A c \in Cols : Merge(q[k].vals, vals)[c] \in V  BY <2>2 DEF Merge
  <2>4. new.vals = Merge(q[k].vals, vals) /\ DOMAIN s = DOMAIN q  OBVIOUS
  <2>5. ASSUME NEW i \in DOMAIN q, NEW c \in Cols  PROVE s[i].vals[c] \in V
    <3>1. s[i] = IF i = k THEN new ELSE q[i]  OBVIOUS
    <3> HIDE DEF new, k, s
    <3> QED  BY <2>3, <2>4, <3>1
  <2> QED  BY <2>1, <2>4, <2>5
<1> QED  BY <1>1, <1>2

-----------------------------------------------------------------------------
(* flush and push.                                                         *)

(* What is new on the wire after a step. *)
FromQueue(q) ==
    \A k \in DOMAIN wire' :
        \/ k \in DOMAIN wire /\ wire'[k] = wire[k]
        \/ \E i \in DOMAIN q : /\ wire'[k].row = q[i].row /\ wire'[k].vals = q[i].vals
                               /\ wire'[k].defs = interned'

(* A flush sends all of the queue and takes nothing back. *)
LEMMA FlushSends ==
  ASSUME wire \in Seq(SentRow), NEW q \in Seq(QueuedRow), q # <<>>, Flush(q)
  PROVE  /\ queue' = <<>>
         /\ FromQueue(q)
         /\ \A r, c, v : HoldsIn(q, r, c, v) \/ HoldsIn(wire, r, c, v)
                           => HoldsIn(wire', r, c, v)
<1> DEFINE n == Len(q)
           L == Len(wire)
<1>1. /\ queue' = <<>> /\ n \in Nat \ {0} /\ L \in Nat
      /\ DOMAIN q = 1..n /\ DOMAIN wire = 1..L /\ DOMAIN wire' = 1..(L + n)
      /\ \A i \in 1..L : wire'[i] = wire[i]
  BY FlushSteps
<1>2. PICK p \in Orders(q) : \A i \in 1..n : wire'[L + i] = LeavesAs(q, p, i)
  BY FlushSteps, Zenon
<1>3. \A i \in 1..n : p[i] \in 1..n  BY <1>1, BatchOrder
<1>4. \A k \in 1..n : \E i \in 1..n : p[i] = k
  <2>1. \A k \in DOMAIN q : \E i \in DOMAIN q : p[i] = k  BY Zenon, OrderIsOnto
  <2> QED  BY <1>1, <2>1
<1>5. \A i \in 1..n : /\ wire'[L + i].row = q[p[i]].row /\ wire'[L + i].vals = q[p[i]].vals
                      /\ wire'[L + i].defs = interned'
  <2> SUFFICES ASSUME NEW i \in 1..n
               PROVE  /\ wire'[L + i].row = q[p[i]].row /\ wire'[L + i].vals = q[p[i]].vals
                      /\ wire'[L + i].defs = interned'
    OBVIOUS
  <2>1. wire'[L + i] = LeavesAs(q, p, i)  BY <1>2
  <2> QED  BY <2>1 DEF LeavesAs
<1> HIDE DEF L, n
<1>6. FromQueue(q)
  <2> SUFFICES ASSUME NEW k \in 1..(L + n)
               PROVE  \/ k \in 1..L /\ wire'[k] = wire[k]
                      \/ \E i \in 1..n : /\ wire'[k].row = q[i].row /\ wire'[k].vals = q[i].vals
                                         /\ wire'[k].defs = interned'
    BY <1>1 DEF FromQueue
  <2>1. CASE k \in 1..L  BY <1>1, <2>1
  <2>2. CASE k \notin 1..L
    <3>1. k - L \in 1..n /\ k = L + (k - L)  BY <1>1, <2>2
    <3> QED  BY <1>3, <1>5, <3>1
  <2> QED  BY <2>1, <2>2
<1>7. ASSUME NEW r, NEW c, NEW v, HoldsIn(wire, r, c, v)  PROVE HoldsIn(wire', r, c, v)
  <2>1. PICK i \in 1..L : wire[i].row = r /\ wire[i].vals[c] = v
    BY <1>1, <1>7 DEF HoldsIn
  <2>2. i \in 1..(L + n) /\ wire'[i] = wire[i]  BY <1>1
  <2> QED  BY <1>1, <2>1, <2>2 DEF HoldsIn
<1>8. ASSUME NEW r, NEW c, NEW v, HoldsIn(q, r, c, v)  PROVE HoldsIn(wire', r, c, v)
  <2>1. PICK k \in 1..n : q[k].row = r /\ q[k].vals[c] = v
    BY <1>1, <1>8 DEF HoldsIn
  <2>2. PICK i \in 1..n : p[i] = k  BY <1>4
  <2>3. L + i \in 1..(L + n)  BY <1>1
  <2>4. wire'[L + i].row = r /\ wire'[L + i].vals[c] = v  BY <1>5, <2>1, <2>2
  <2> QED  BY <1>1, <2>3, <2>4 DEF HoldsIn
<1> QED  BY <1>1, <1>6, <1>7, <1>8

(* A push keeps what was queued, but for older values of the cells of the  *)
(* row pushed.                                                             *)
LEMMA PushKeeps ==
  ASSUME wire \in Seq(SentRow), queue \in Seq(QueuedRow),
         NEW row \in Rows, NEW vals \in Widths, Push(row, vals)
  PROVE  /\ \A r \in Rows, c \in Cols, v \in Nat \ {0} :
               \/ HoldsIn(queue, r, c, v) /\ (r = row => vals[c] \in {0, v})
               \/ r = row /\ vals[c] = v
               \/ HoldsIn(wire, r, c, v)
               => HoldsIn(queue', r, c, v) \/ HoldsIn(wire', r, c, v)
         /\ \A V : /\ \A c \in Cols : vals[c] \in V
                   /\ \A i \in DOMAIN queue, c \in Cols : queue[i].vals[c] \in V
                   => \A i \in DOMAIN queue', c \in Cols : queue'[i].vals[c] \in V
         /\ FromQueue(Queued(queue, row, vals))
<1> DEFINE q == Queued(queue, row, vals)
<1>1. q \in Seq(QueuedRow) /\ q # <<>>  BY QueuedRows
<1>2. \A r \in Rows, c \in Cols, v \in Nat \ {0} :
        \/ HoldsIn(queue, r, c, v) /\ (r = row => vals[c] \in {0, v})
        \/ r = row /\ vals[c] = v
        => HoldsIn(q, r, c, v)
  BY QueuedKeeps
<1>3. \A V : /\ \A c \in Cols : vals[c] \in V
             /\ \A i \in DOMAIN queue, c \in Cols : queue[i].vals[c] \in V
             => \A i \in DOMAIN q, c \in Cols : q[i].vals[c] \in V
  BY QueuedFrom
<1>4. Flush(q) \/ (queue' = q /\ wire' = wire)  BY DEF Push
<1> HIDE DEF q
<1>5. CASE Flush(q)
  <2>1. /\ queue' = <<>> /\ FromQueue(q)
        /\ \A r, c, v : HoldsIn(q, r, c, v) \/ HoldsIn(wire, r, c, v)
                          => HoldsIn(wire', r, c, v)
    BY <1>1, <1>5, FlushSends
  <2>2. DOMAIN queue' = {}  BY <2>1
  <2> QED  BY <1>2, <2>1, <2>2 DEF q
<1>6. CASE queue' = q /\ wire' = wire
  <2>1. FromQueue(q)  BY <1>6 DEF FromQueue
  <2> QED  BY <1>2, <1>3, <1>6, <2>1 DEF q, HoldsIn
<1> QED  BY <1>4, <1>5, <1>6

-----------------------------------------------------------------------------
(* The steps.                                                              *)

(* A cell read is known, and what was known stays. *)
LEMMA ReceiveKnows ==
  ASSUME TypeOK, NEW row \in Rows, NEW col \in Cols,
         NEW id \in 0..Least(interned + 1, MaxCells), Receive(row, col, id)
  PROVE  /\ read + 1 \in Nat \ {0} /\ read + 1 \in Known' /\ Known \subseteq Known'
         /\ 0 \in Known'
         /\ \A v \in Known : v # 0 => ref'[v] = ref[v]
         /\ \A r \in Rows, c \in Cols :
              sheet'[r][c] = IF r = row /\ c = col THEN read + 1 ELSE sheet[r][c]
<1>1. /\ read \in 0..MaxCells /\ read < MaxCells /\ read' = read + 1
      /\ ref \in [Serials -> 0..MaxCells] /\ ref' = [ref EXCEPT ![read + 1] = id]
      /\ sheet \in [Rows -> Widths] /\ sheet' = [sheet EXCEPT ![row][col] = read + 1]
      /\ interned \in 0..MaxCells
  BY DEF TypeOK, Receive
<1>2. interned' >= interned /\ id <= interned' /\ interned' \in 0..MaxCells
      /\ id \in 0..MaxCells
  <2>1. interned' \in 0..MaxCells /\ id \in 0..MaxCells  BY InternTypes DEF Receive
  <2>2. id <= interned + 1  BY <1>1, Bounds DEF Least
  <2> QED  BY <1>1, <2>1, <2>2 DEF Receive, Intern
<1>3. /\ read + 1 \in Serials /\ ref'[read + 1] = id
      /\ \A v \in Serials : v # read + 1 => ref'[v] = ref[v]
  BY <1>1, Bounds DEF Serials
<1>4. \A v \in 0..read : v # 0 => v \in Serials /\ v # read + 1 /\ v \in 0..(read + 1)
                                    /\ ref[v] \in 0..MaxCells
  BY <1>1, Bounds DEF Serials
<1>5. \A v \in 0..read : v # 0 => ref'[v] = ref[v]  BY <1>3, <1>4
<1>6. \A v \in Known : v # 0 => ref'[v] = ref[v]  BY <1>5 DEF Known
<1>7. Known \subseteq Known'
  BY <1>1, <1>2, <1>4, <1>5 DEF Known
<1>8. read + 1 \in Known' /\ 0 \in Known'
  BY <1>1, <1>2, <1>3 DEF Known
<1>9. \A r \in Rows, c \in Cols :
        sheet'[r][c] = IF r = row /\ c = col THEN read + 1 ELSE sheet[r][c]
  BY <1>1 DEF Widths
<1> QED  BY <1>1, <1>6, <1>7, <1>8, <1>9

(* Rows that leave with known values leave after the strings of these. *)
LEMMA WireKeeps ==
  ASSUME ValuesKnown, StringsDefinedFirst,
         Known \subseteq Known', \A v \in Known : v # 0 => ref'[v] = ref[v],
         NEW q, \A i \in DOMAIN q, c \in Cols : q[i].vals[c] \in Known', FromQueue(q)
  PROVE  /\ StringsDefinedFirst'
         /\ \A i \in DOMAIN wire', c \in Cols : wire'[i].vals[c] \in Known'
<1>1. ASSUME NEW k \in DOMAIN wire', NEW c \in Cols
      PROVE  /\ wire'[k].vals[c] \in Known'
             /\ wire'[k].vals[c] # 0 => ref'[wire'[k].vals[c]] <= wire'[k].defs
  <2>1. CASE k \in DOMAIN wire /\ wire'[k] = wire[k]
    <3>1. wire[k].vals[c] \in Known  BY <2>1 DEF ValuesKnown
    <3>2. wire[k].vals[c] # 0 => ref[wire[k].vals[c]] <= wire[k].defs
      BY <2>1 DEF StringsDefinedFirst
    <3> QED  BY <2>1, <3>1, <3>2
  <2>2. CASE \E i \in DOMAIN q : wire'[k].vals = q[i].vals /\ wire'[k].defs = interned'
    <3>1. wire'[k].vals[c] \in Known' /\ wire'[k].defs = interned'  BY <2>2
    <3>2. wire'[k].vals[c] # 0 => ref'[wire'[k].vals[c]] <= interned'
      BY <3>1 DEF Known
    <3> QED  BY <3>1, <3>2
  <2> QED  BY <2>1, <2>2 DEF FromQueue
<1> QED  BY <1>1 DEF StringsDefinedFirst

LEMMA PushKnows ==
  ASSUME TypeOK, CellInv, NEW row \in Rows, NEW vals \in Widths, Push(row, vals),
         Known \subseteq Known', \A v \in Known : v # 0 => ref'[v] = ref[v],
         \A c \in Cols : vals[c] \in Known'
  PROVE  /\ StringsDefinedFirst'
         /\ \A i \in DOMAIN queue', c \in Cols : queue'[i].vals[c] \in Known'
         /\ \A i \in DOMAIN wire', c \in Cols : wire'[i].vals[c] \in Known'
<1> DEFINE q == Queued(queue, row, vals)
<1>1. wire \in Seq(SentRow) /\ queue \in Seq(QueuedRow)  BY DEF TypeOK
<1>2. \A i \in DOMAIN queue, c \in Cols : queue[i].vals[c] \in Known'
  BY DEF CellInv, ValuesKnown
<1>3. \A i \in DOMAIN q, c \in Cols : q[i].vals[c] \in Known'
  BY <1>1, <1>2, QueuedFrom
<1>4. FromQueue(q) /\ \A i \in DOMAIN queue', c \in Cols : queue'[i].vals[c] \in Known'
  BY <1>1, <1>2, PushKeeps
<1> HIDE DEF q
<1>5. ValuesKnown /\ StringsDefinedFirst  BY DEF CellInv
<1> QED  BY <1>3, <1>4, <1>5, WireKeeps

(* The steps that leave rows and batcher alone. *)
LEMMA QuietCells ==
  ASSUME CellInv, UNCHANGED rowVars, UNCHANGED batchVars,
         Known \subseteq Known', \A v \in Known : v # 0 => ref'[v] = ref[v],
         phase' \in {phase, "failed", "gone"}, phase' = phase => sheet' = sheet
  PROVE  CellInv'
<1>1. /\ open' = open /\ current' = current /\ values' = values
      /\ queue' = queue /\ wire' = wire
  BY DEF rowVars, batchVars
<1>2. ValuesLatest'  BY <1>1 DEF CellInv, ValuesLatest
<1>3. NoCellLost'  BY <1>1 DEF CellInv, NoCellLost, Sent, Waiting
<1>4. ValuesKnown' /\ StringsDefinedFirst'
  <2>1. ValuesKnown /\ StringsDefinedFirst  BY DEF CellInv
  <2>2. ValuesKnown'
    <3>1. /\ \A c \in Cols : values'[c] \in Known'
          /\ \A i \in DOMAIN queue', c \in Cols : queue'[i].vals[c] \in Known'
          /\ \A i \in DOMAIN wire', c \in Cols : wire'[i].vals[c] \in Known'
      BY <1>1, <2>1 DEF ValuesKnown
    <3> QED  BY <3>1 DEF ValuesKnown
  <2>3. FromQueue(queue)  BY <1>1 DEF FromQueue
  <2>4. \A i \in DOMAIN queue, c \in Cols : queue[i].vals[c] \in Known'
    BY <2>1 DEF ValuesKnown
  <2> QED  BY <2>1, <2>2, <2>3, <2>4, WireKeeps
<1> QED  BY <1>2, <1>3, <1>4 DEF CellInv

LEMMA FirstCellCells ==
  ASSUME TypeOK, CellInv, NEW row \in Rows, NEW col \in Cols,
         NEW id \in 0..Least(interned + 1, MaxCells), FirstCell(row, col, id)
  PROVE  CellInv'
<1>1. /\ Receive(row, col, id) /\ phase = "reading" /\ ~open
      /\ open' = TRUE /\ current' = row /\ values' = OneCell(col, read + 1)
      /\ UNCHANGED <<phase, batchVars, defined>>
  BY DEF FirstCell, Receive
<1>2. /\ read + 1 \in Nat \ {0} /\ read + 1 \in Known' /\ Known \subseteq Known' /\ 0 \in Known'
      /\ \A v \in Known : v # 0 => ref'[v] = ref[v]
      /\ \A r \in Rows, c \in Cols :
           sheet'[r][c] = IF r = row /\ c = col THEN read + 1 ELSE sheet[r][c]
  BY <1>1, ReceiveKnows
<1>3. \A c \in Cols : values'[c] = IF c = col THEN read + 1 ELSE 0
  BY <1>1 DEF OneCell, EmptyRow
<1>4. queue' = queue /\ wire' = wire  BY <1>1 DEF batchVars
<1>5. ValuesLatest'  BY <1>1, <1>2, <1>3 DEF ValuesLatest
<1>6. NoCellLost'
  BY <1>1, <1>2, <1>3, <1>4 DEF CellInv, NoCellLost, Sent, Waiting
<1>7. ValuesKnown' /\ StringsDefinedFirst'
  <2>1. ValuesKnown /\ StringsDefinedFirst  BY DEF CellInv
  <2>2. FromQueue(queue)  BY <1>4 DEF FromQueue
  <2>3. \A i \in DOMAIN queue, c \in Cols : queue[i].vals[c] \in Known'
    BY <1>2, <2>1 DEF ValuesKnown
  <2>4. /\ StringsDefinedFirst'
        /\ \A i \in DOMAIN wire', c \in Cols : wire'[i].vals[c] \in Known'
    BY <1>2, <2>1, <2>2, <2>3, WireKeeps
  <2> QED  BY <1>2, <1>3, <1>4, <2>3, <2>4 DEF ValuesKnown
<1> QED  BY <1>5, <1>6, <1>7 DEF CellInv

LEMMA SameRowCells ==
  ASSUME TypeOK, CellInv, NEW row \in Rows, NEW col \in Cols,
         NEW id \in 0..Least(interned + 1, MaxCells), SameRow(row, col, id)
  PROVE  CellInv'
<1>1. /\ Receive(row, col, id) /\ phase = "reading" /\ open /\ row = current
      /\ values' = [values EXCEPT ![col] = read + 1] /\ values \in Widths
      /\ UNCHANGED <<phase, open, current, batchVars, defined>>
  BY DEF SameRow, Receive, TypeOK
<1>2. /\ read + 1 \in Nat \ {0} /\ read + 1 \in Known' /\ Known \subseteq Known' /\ 0 \in Known'
      /\ \A v \in Known : v # 0 => ref'[v] = ref[v]
      /\ \A r \in Rows, c \in Cols :
           sheet'[r][c] = IF r = row /\ c = col THEN read + 1 ELSE sheet[r][c]
  BY <1>1, ReceiveKnows
<1>3. \A c \in Cols : values'[c] = IF c = col THEN read + 1 ELSE values[c]
  BY <1>1 DEF Widths
<1>4. queue' = queue /\ wire' = wire  BY <1>1 DEF batchVars
<1>5. ValuesLatest'  BY <1>1, <1>2, <1>3 DEF CellInv, ValuesLatest
<1>6. NoCellLost'
  BY <1>1, <1>2, <1>3, <1>4 DEF CellInv, NoCellLost, Sent, Waiting
<1>7. ValuesKnown' /\ StringsDefinedFirst'
  <2>1. ValuesKnown /\ StringsDefinedFirst  BY DEF CellInv
  <2>2. FromQueue(queue)  BY <1>4 DEF FromQueue
  <2>3. \A i \in DOMAIN queue, c \in Cols : queue[i].vals[c] \in Known'
    BY <1>2, <2>1 DEF ValuesKnown
  <2>4. /\ StringsDefinedFirst'
        /\ \A i \in DOMAIN wire', c \in Cols : wire'[i].vals[c] \in Known'
    BY <1>2, <2>1, <2>2, <2>3, WireKeeps
  <2>5. \A c \in Cols : values'[c] \in Known'  BY <1>2, <1>3, <2>1 DEF ValuesKnown
  <2> QED  BY <1>4, <2>3, <2>4, <2>5 DEF ValuesKnown
<1> QED  BY <1>5, <1>6, <1>7 DEF CellInv

LEMMA NextRowCells ==
  ASSUME TypeOK, CellInv, NEW row \in Rows, NEW col \in Cols,
         NEW id \in 0..Least(interned + 1, MaxCells), NextRow(row, col, id)
  PROVE  CellInv'
<1>1. Receive(row, col, id) /\ phase = "reading" /\ open /\ row > current
  BY DEF NextRow, Receive
<1>2. /\ read + 1 \in Nat \ {0} /\ read + 1 \in Known' /\ Known \subseteq Known' /\ 0 \in Known'
      /\ \A v \in Known : v # 0 => ref'[v] = ref[v]
      /\ \A r \in Rows, c \in Cols :
           sheet'[r][c] = IF r = row /\ c = col THEN read + 1 ELSE sheet[r][c]
  BY <1>1, ReceiveKnows
<1>3. CASE phase' = "failed" /\ UNCHANGED <<rowVars, batchVars, defined>>
  BY <1>1, <1>2, <1>3, QuietCells
<1>4. CASE /\ Push(current, values) /\ current' = row
           /\ values' = OneCell(col, read + 1) /\ UNCHANGED <<phase, open>>
  <2>1. /\ wire \in Seq(SentRow) /\ queue \in Seq(QueuedRow) /\ current \in Rows
        /\ values \in Widths /\ sheet \in [Rows -> Widths]
    BY DEF TypeOK
  <2>2. \A c \in Cols : values'[c] = IF c = col THEN read + 1 ELSE 0
    BY <1>4 DEF OneCell, EmptyRow
  <2>3. \A c \in Cols : values[c] \in Known'  BY <1>2 DEF CellInv, ValuesKnown
  <2>4. ValuesLatest'  BY <1>2, <1>4, <2>2 DEF ValuesLatest
  <2>5. /\ StringsDefinedFirst'
        /\ \A i \in DOMAIN queue', c \in Cols : queue'[i].vals[c] \in Known'
        /\ \A i \in DOMAIN wire', c \in Cols : wire'[i].vals[c] \in Known'
    BY <1>2, <1>4, <2>1, <2>3, PushKnows
  <2>6. ValuesKnown'  BY <1>2, <2>2, <2>5 DEF ValuesKnown
  <2>7. NoCellLost'
    <3>1. \A r \in Rows, c \in Cols, v \in Nat \ {0} :
               \/ HoldsIn(queue, r, c, v) /\ (r = current => values[c] \in {0, v})
               \/ r = current /\ values[c] = v
               \/ HoldsIn(wire, r, c, v)
               => HoldsIn(queue', r, c, v) \/ HoldsIn(wire', r, c, v)
      BY <1>4, <2>1, PushKeeps
    <3> SUFFICES ASSUME NEW r \in Rows, NEW c \in Cols, sheet'[r][c] # 0
                 PROVE  Sent(r, c, sheet[r][c])' \/ Waiting(r, c, sheet[r][c])'
      BY <1>1, <1>4 DEF NoCellLost
    <3>2. CASE r = row /\ c = col
      BY <1>1, <1>2, <1>4, <2>2, <3>2 DEF Waiting
    <3>3. CASE ~(r = row /\ c = col)
      <4> DEFINE v == sheet[r][c]
      <4>1. sheet'[r][c] = v  BY <1>2, <3>3
      <4>2. v \in Nat \ {0}  BY <2>1, <4>1, Bounds DEF Widths
      <4>3. \/ HoldsIn(wire, r, c, v) \/ HoldsIn(queue, r, c, v)
            \/ current = r /\ values[c] = v
        BY <1>1, <4>2 DEF CellInv, NoCellLost, Sent, Waiting, HoldsIn
      <4>4. r = current => values[c] \in {0, v}  BY <1>1 DEF CellInv, ValuesLatest
      <4>5. HoldsIn(queue', r, c, v) \/ HoldsIn(wire', r, c, v)
        BY <3>1, <4>2, <4>3, <4>4
      <4> QED  BY <4>1, <4>5 DEF Sent, Waiting, HoldsIn
    <3> QED  BY <3>2, <3>3
  <2> QED  BY <2>4, <2>5, <2>6, <2>7 DEF CellInv
<1> QED  BY <1>3, <1>4 DEF NextRow

LEMMA LateRowCells ==
  ASSUME TypeOK, CellInv, NEW row \in Rows, NEW col \in Cols,
         NEW id \in 0..Least(interned + 1, MaxCells), LateRow(row, col, id)
  PROVE  CellInv'
<1>1. /\ Receive(row, col, id) /\ phase = "reading" /\ open /\ row < current
      /\ Push(row, OneCell(col, read + 1)) /\ phase' = phase
      /\ open' = open /\ current' = current /\ values' = values
  BY DEF LateRow, Receive, rowVars
<1>2. /\ read + 1 \in Nat \ {0} /\ read + 1 \in Known' /\ Known \subseteq Known' /\ 0 \in Known'
      /\ \A v \in Known : v # 0 => ref'[v] = ref[v]
      /\ \A r \in Rows, c \in Cols :
           sheet'[r][c] = IF r = row /\ c = col THEN read + 1 ELSE sheet[r][c]
  BY <1>1, ReceiveKnows
<1>3. /\ wire \in Seq(SentRow) /\ queue \in Seq(QueuedRow) /\ current \in Rows
      /\ sheet \in [Rows -> Widths] /\ OneCell(col, read + 1) \in Widths
  BY <1>1, ReceiveTypes DEF TypeOK
<1> DEFINE vals == OneCell(col, read + 1)
<1>4. \A c \in Cols : vals[c] = IF c = col THEN read + 1 ELSE 0
  BY DEF OneCell, EmptyRow
<1> HIDE DEF vals
<1>5. \A c \in Cols : vals[c] \in Known'  BY <1>2, <1>4
<1>6. ValuesLatest'
  <2>1. row # current  BY <1>1, <1>3 DEF Rows
  <2> QED  BY <1>1, <1>2, <1>3, <2>1 DEF CellInv, ValuesLatest
<1>7. /\ StringsDefinedFirst'
      /\ \A i \in DOMAIN queue', c \in Cols : queue'[i].vals[c] \in Known'
      /\ \A i \in DOMAIN wire', c \in Cols : wire'[i].vals[c] \in Known'
  BY <1>1, <1>2, <1>3, <1>5, PushKnows DEF vals
<1>8. ValuesKnown'
  <2>1. \A c \in Cols : values'[c] \in Known'  BY <1>1, <1>2 DEF CellInv, ValuesKnown
  <2> QED  BY <1>7, <2>1 DEF ValuesKnown
<1>9. NoCellLost'
  <2>1. \A r \in Rows, c \in Cols, v \in Nat \ {0} :
             \/ HoldsIn(queue, r, c, v) /\ (r = row => vals[c] \in {0, v})
             \/ r = row /\ vals[c] = v
             \/ HoldsIn(wire, r, c, v)
             => HoldsIn(queue', r, c, v) \/ HoldsIn(wire', r, c, v)
    BY <1>1, <1>3, PushKeeps DEF vals
  <2> SUFFICES ASSUME NEW r \in Rows, NEW c \in Cols, sheet'[r][c] # 0
               PROVE  Sent(r, c, sheet[r][c])' \/ Waiting(r, c, sheet[r][c])'
    BY <1>1 DEF NoCellLost
  <2> DEFINE v == sheet'[r][c]
  <2>2. v \in Nat \ {0}
    <3>1. sheet[r][c] \in Nat  BY <1>3, Bounds DEF Widths
    <3>2. v = IF r = row /\ c = col THEN read + 1 ELSE sheet[r][c]  BY <1>2
    <3>3. v # 0  OBVIOUS
    <3> HIDE DEF v
    <3> QED  BY <1>2, <3>1, <3>2, <3>3
  <2>3. CASE r = row /\ c = col
    <3>1. vals[c] = v  BY <1>2, <1>4, <2>3
    <3>2. HoldsIn(queue', r, c, v) \/ HoldsIn(wire', r, c, v)  BY <2>1, <2>2, <2>3, <3>1
    <3> QED  BY <3>2 DEF Sent, Waiting, HoldsIn
  <2>4. CASE ~(r = row /\ c = col)
    <3>1. v = sheet[r][c]  BY <1>2, <2>4
    <3>2. \/ HoldsIn(wire, r, c, v) \/ HoldsIn(queue, r, c, v)
          \/ current = r /\ values[c] = v
      BY <1>1, <2>2, <3>1 DEF CellInv, NoCellLost, Sent, Waiting, HoldsIn
    <3>3. r = row => vals[c] = 0  BY <1>4, <2>4
    <3>4. \/ HoldsIn(queue', r, c, v) \/ HoldsIn(wire', r, c, v)
          \/ current = r /\ values[c] = v
      BY <2>1, <2>2, <3>2, <3>3
    <3> QED  BY <1>1, <3>4 DEF Sent, Waiting, HoldsIn
  <2> QED  BY <2>3, <2>4
<1> QED  BY <1>6, <1>7, <1>8, <1>9 DEF CellInv

LEMMA EndOfSheetCells ==
  ASSUME TypeOK, CellInv, EndOfSheet
  PROVE  CellInv'
<1>1. /\ phase = "reading" /\ interned' = interned
      /\ open' = open /\ current' = current /\ values' = values
      /\ read' = read /\ sheet' = sheet /\ ref' = ref
  BY DEF EndOfSheet, rowVars, histVars
<1>2. Known' = Known  BY <1>1 DEF Known
<1>3. CASE phase' = "failed" /\ UNCHANGED <<batchVars, defined>>
  BY <1>1, <1>2, <1>3, QuietCells DEF rowVars
<1>4. CASE ~(open /\ ~Accepts(current))
  <2> DEFINE q == IF open THEN Queued(queue, current, values) ELSE queue
  <2>1. phase' = "ended" /\ Flush(q)  BY <1>4 DEF EndOfSheet
  <2>2. /\ wire \in Seq(SentRow) /\ queue \in Seq(QueuedRow) /\ current \in Rows
        /\ values \in Widths /\ sheet \in [Rows -> Widths]
    BY DEF TypeOK
  <2>3. q \in Seq(QueuedRow)  BY <2>2, QueuedRows
  <2>4. /\ \A c \in Cols : values[c] \in Known
        /\ \A i \in DOMAIN queue, c \in Cols : queue[i].vals[c] \in Known
        /\ \A i \in DOMAIN wire, c \in Cols : wire[i].vals[c] \in Known
    BY DEF CellInv, ValuesKnown
  <2>5. \A i \in DOMAIN q, c \in Cols : q[i].vals[c] \in Known
    BY <2>2, <2>4, QueuedFrom
  <2>6. ASSUME NEW r \in Rows, NEW c \in Cols, sheet[r][c] # 0
        PROVE  HoldsIn(wire, r, c, sheet[r][c]) \/ HoldsIn(q, r, c, sheet[r][c])
    <3> DEFINE v == sheet[r][c]
    <3>1. v \in Nat \ {0}  BY <2>2, <2>6, Bounds DEF Widths
    <3>2. \/ HoldsIn(wire, r, c, v) \/ HoldsIn(queue, r, c, v)
          \/ open /\ current = r /\ values[c] = v
      BY <1>1, <2>6 DEF CellInv, NoCellLost, Sent, Waiting, HoldsIn
    <3>3. open /\ r = current => values[c] \in {0, v}
      BY <1>1 DEF CellInv, ValuesLatest
    <3>4. CASE open
      <4>1. q = Queued(queue, current, values)  BY <3>4
      <4> HIDE DEF v, q
      <4>2. \/ HoldsIn(queue, r, c, v) /\ (r = current => values[c] \in {0, v})
            \/ r = current /\ values[c] = v
            => HoldsIn(q, r, c, v)
        BY <2>2, <3>1, <4>1, QueuedKeeps
      <4> QED  BY <3>2, <3>3, <3>4, <4>2 DEF v
    <3>5. CASE ~open  BY <3>2, <3>5
    <3> QED  BY <3>4, <3>5
  <2> HIDE DEF q
  <2>7. /\ FromQueue(q)
        /\ \A r, c, v : HoldsIn(q, r, c, v) \/ HoldsIn(wire, r, c, v)
                          => HoldsIn(wire', r, c, v)
        /\ queue' = <<>>
    <3>1. CASE q # <<>>  BY <2>1, <2>2, <2>3, <3>1, FlushSends
    <3>2. CASE q = <<>>
      <4>1. wire' = wire /\ queue' = queue  BY <2>1, <3>2 DEF Flush, batchVars
      <4>2. queue = <<>>
        <5>1. ~open  BY <2>2, <3>2, QueuedRows DEF q
        <5> QED  BY <3>2, <5>1 DEF q
      <4>3. DOMAIN q = {}  BY <3>2
      <4> QED  BY <4>1, <4>2, <4>3 DEF FromQueue, HoldsIn
    <3> QED  BY <3>1, <3>2
  <2>8. NoCellLost'
    <3> SUFFICES ASSUME NEW r \in Rows, NEW c \in Cols, sheet[r][c] # 0
                 PROVE  HoldsIn(wire', r, c, sheet[r][c])
      BY <1>1 DEF NoCellLost, Sent, HoldsIn
    <3> QED  BY <2>6, <2>7
  <2>9. StringsDefinedFirst' /\ ValuesKnown'
    <3>1. ValuesKnown /\ StringsDefinedFirst  BY DEF CellInv
    <3>2. /\ StringsDefinedFirst'
          /\ \A i \in DOMAIN wire', c \in Cols : wire'[i].vals[c] \in Known'
      BY <1>1, <1>2, <2>5, <2>7, <3>1, WireKeeps
    <3>3. DOMAIN queue' = {}  BY <2>7
    <3> QED  BY <1>1, <1>2, <2>4, <3>2, <3>3 DEF ValuesKnown
  <2>10. ValuesLatest'  BY <2>1 DEF ValuesLatest
  <2> QED  BY <2>8, <2>9, <2>10 DEF CellInv
<1> QED  BY <1>3, <1>4 DEF EndOfSheet

LEMMA InitCells == Init => CellInv
<1> SUFFICES ASSUME Init PROVE CellInv
  OBVIOUS
<1>1. DOMAIN wire = {} /\ DOMAIN queue = {} /\ open = FALSE  BY DEF Init
<1>2. ValuesLatest /\ StringsDefinedFirst  BY <1>1 DEF ValuesLatest, StringsDefinedFirst
<1>3. NoCellLost  BY DEF Init, EmptyRow, NoCellLost
<1>4. ValuesKnown  BY <1>1 DEF Init, EmptyRow, ValuesKnown, Known
<1> QED  BY <1>2, <1>3, <1>4 DEF CellInv

LEMMA StepCells == IInv /\ CellInv /\ [Next]_vars => CellInv'
<1> SUFFICES ASSUME IInv, CellInv, [Next]_vars  PROVE CellInv'
  OBVIOUS
<1>0. TypeOK  BY DEF IInv
<1>1. ASSUME NEW row \in Rows, NEW col \in Cols,
             NEW id \in 0..Least(interned + 1, MaxCells), FirstCell(row, col, id)
      PROVE  CellInv'
  BY <1>0, <1>1, FirstCellCells
<1>2. ASSUME NEW row \in Rows, NEW col \in Cols,
             NEW id \in 0..Least(interned + 1, MaxCells), SameRow(row, col, id)
      PROVE  CellInv'
  BY <1>0, <1>2, SameRowCells
<1>3. ASSUME NEW row \in Rows, NEW col \in Cols,
             NEW id \in 0..Least(interned + 1, MaxCells), NextRow(row, col, id)
      PROVE  CellInv'
  BY <1>0, <1>3, NextRowCells
<1>4. ASSUME NEW row \in Rows, NEW col \in Cols,
             NEW id \in 0..Least(interned + 1, MaxCells), LateRow(row, col, id)
      PROVE  CellInv'
  BY <1>0, <1>4, LateRowCells
<1>5. ASSUME NEW row \in Rows, NEW col \in Cols,
             NEW id \in 0..Least(interned + 1, MaxCells), TooLate(row, col, id)
      PROVE  CellInv'
  <2>1. Known \subseteq Known' /\ \A v \in Known : v # 0 => ref'[v] = ref[v]
    BY <1>0, <1>5, ReceiveKnows DEF TooLate
  <2>2. phase = "reading" /\ phase' = "failed" /\ UNCHANGED rowVars /\ UNCHANGED batchVars
    BY <1>5 DEF TooLate, Receive
  <2> QED  BY <2>1, <2>2, QuietCells
<1>6. ASSUME NEW row \in Rows, NEW id \in 1..Least(interned + 1, MaxCells),
             SkipAbove(row, id)
      PROVE  CellInv'
  <2>1. /\ phase' = phase /\ UNCHANGED rowVars /\ UNCHANGED batchVars
        /\ read' = read /\ sheet' = sheet /\ ref' = ref
    BY <1>6 DEF SkipAbove, histVars
  <2>2. interned' \in Int /\ interned \in Int /\ interned <= interned'
    BY <1>0, <1>6 DEF SkipAbove, Intern, TypeOK
  <2>3. \A v \in Known : v # 0 => ref[v] \in Int
    BY <1>0, Bounds DEF Known, TypeOK, Serials
  <2>4. Known \subseteq Known'  BY <2>1, <2>2, <2>3 DEF Known
  <2> QED  BY <2>1, <2>4, QuietCells
<1>7. CASE ReadFails \/ ClientGone \/ UNCHANGED vars
  <2>1. /\ UNCHANGED rowVars /\ UNCHANGED batchVars
        /\ interned' = interned /\ read' = read /\ sheet' = sheet /\ ref' = ref
        /\ phase' \in {phase, "failed", "gone"}
    BY <1>7 DEF ReadFails, ClientGone, vars, stringVars, histVars
  <2>2. Known' = Known  BY <2>1 DEF Known
  <2> QED  BY <2>1, <2>2, QuietCells
<1>8. CASE EndOfSheet  BY <1>0, <1>8, EndOfSheetCells
<1> QED
  BY <1>1, <1>2, <1>3, <1>4, <1>5, <1>6, <1>7, <1>8 DEF Next, CellNext

-----------------------------------------------------------------------------
(* What holds of the cells on every stream. *)
THEOREM CellInvariance == Spec => []CellInv
BY InitCells, StepCells, Invariance, PTL DEF Spec

(* No cell read is lost between the reader and the wire: neither a batch   *)
(* boundary nor a row repaired in the queue drops its last value           *)
(* (RowBatcher::push, merge_row_values, flush).                            *)
THEOREM CellsCorrect == Spec => []NoCellLost
<1>1. CellInv => NoCellLost  BY DEF CellInv
<1> QED  BY <1>1, CellInvariance, PTL

(* Every string id is defined on the wire before the row that holds it     *)
(* (send_new_strings, called by flush).                                    *)
THEOREM StringsCorrect == Spec => []StringsDefinedFirst
<1>1. CellInv => StringsDefinedFirst  BY DEF CellInv
<1> QED  BY <1>1, CellInvariance, PTL
=============================================================================
