---------------------------- MODULE SheetProofs ----------------------------
(***************************************************************************)
(* StreamWorksheetRange from its selector to its end, for every sheet,     *)
(* header row, batch size and budget: what RowStreamProofs says of a       *)
(* stream of cells carries over, and the rows of a range copied out are    *)
(* the sheet's.  At the end, the walk of the benchmarks beside such a      *)
(* stream, the gate that compares the two, and the batches and encodings   *)
(* of packed.rs.                                                           *)
(***************************************************************************)
EXTENDS SheetPaths, BenchWalk, RowStreamProofs

-----------------------------------------------------------------------------
(* The inductive invariant.                                                *)

(* No row of the stream has been looked at. *)
NoRows ==
    /\ open = FALSE /\ current = 0 /\ values = EmptyRow
    /\ queue = <<>> /\ nextExpected = HeaderRow /\ highestSent = NoRow /\ wire = <<>>
    /\ interned = 0 /\ defined = 0 /\ read = 0
    /\ ref = [n \in Serials |-> 0]

Early ==
    stage \in {"start", "resolved", "borrowed", "whole"} =>
        /\ NoRows /\ sheet = [r \in Rows |-> EmptyRow]
        /\ header = NotSent /\ offset = 0 /\ phase # "ended"

(* The range is that of the sheet's cells. *)
Ranged ==
    /\ sheet \in [Rows -> Widths]
    /\ \A r \in Rows, c \in Cols : sheet[r][c] # 0 => InSheet(r)
    /\ range = Spanned(sheet)

Built ==
    stage = "built" =>
        /\ NoRows /\ Ranged /\ offset = 0
        /\ IF phase = "ended" THEN range.height = 0 /\ header = RangeHeader
           ELSE header = NotSent
        /\ phase = "resource exhausted" => ~FitsDense

(* A row, on the wire or on its way there, holds something, and nothing    *)
(* that the sheet does not.                                                *)
Filled == {rc \in Rows \X Cols : sheet[rc[1]][rc[2]] # 0}
Within(F, row, vals) ==
    /\ \E c \in Cols : vals[c] # 0
    /\ \A c \in Cols : vals[c] # 0 => <<row, c>> \in F
AllWithin(F, s) == \A i \in DOMAIN s : Within(F, s[i].row, s[i].vals)
RowsFilled ==
    /\ open => Within(Filled, current, values)
    /\ AllWithin(Filled, queue) /\ AllWithin(Filled, wire)

ByCells ==
    stage = "cells" =>
        /\ IInv /\ CellInv /\ RowsFilled
        /\ \E d \in Declared :
              header = [corners |-> d, total |-> DeclaredTotal(d[1], d[2], d[3], d[4])]

(* The rows of s are rows of the sheet, of the first n of the range. *)
Copies(s, n) ==
    \A i \in DOMAIN s :
        /\ s[i].row \in range.top..(range.top + n - 1)
        /\ s[i].vals = sheet[s[i].row] /\ s[i].vals # EmptyRow
Ascends(s) == \A i, j \in DOMAIN s : i < j => s[i].row < s[j].row

(* Every cell of the rows gone through is in a row queued or sent. *)
AllCopied ==
    \A r \in Rows, c \in Cols :
        sheet[r][c] # 0 /\ r < range.top + offset =>
            HoldsIn(queue, r, c, sheet[r][c]) \/ HoldsIn(wire, r, c, sheet[r][c])

(* The batcher was opened at the range's first row. *)
RangeMarks ==
    IF wire = <<>> THEN highestSent = NoRow /\ nextExpected = range.top
    ELSE highestSent = wire[Len(wire)].row /\ nextExpected = highestSent + 1

ByRange ==
    stage = "copying" =>
        /\ Ranged /\ range.height > 0 /\ FitsDense /\ header = RangeHeader
        /\ offset \in 0..range.height
        /\ TypeOK /\ ref = [n \in Serials |-> 0]
        /\ RangeMarks /\ GapsTile
        /\ Copies(queue, offset) /\ Copies(wire, offset) /\ Ascends(queue) /\ Ascends(wire)
        /\ \A i \in DOMAIN queue : highestSent < queue[i].row
        /\ AllCopied
        /\ phase = "ended" => queue = <<>> /\ offset = range.height

Stages == {"start", "resolved", "borrowed", "whole", "built", "cells", "copying"}
SheetInv == stage \in Stages /\ Early /\ Built /\ ByCells /\ ByRange
-----------------------------------------------------------------------------
(* Ranges.                                                                 *)

(* The range calamine builds has its corners in the sheet and every cell   *)
(* between them.                                                           *)
LEMMA SpanIs ==
  ASSUME NEW s \in [Rows -> Widths], NEW g, g = Spanned(s)
  PROVE  /\ UsedRows(s) = {} => g = NoExtent /\ g.height = 0
         /\ UsedRows(s) # {} =>
              /\ g.top \in Rows /\ g.left \in Cols
              /\ g.height \in Nat \ {0} /\ g.width \in Nat \ {0}
              /\ g.top + g.height - 1 \in Rows /\ g.left + g.width - 1 \in Cols
              /\ \A r \in UsedRows(s) : r \in g.top..(g.top + g.height - 1)
              /\ \A c \in UsedCols(s) : c \in g.left..(g.left + g.width - 1)
              /\ IF HeaderRow = NoRow THEN g.top \in UsedRows(s) ELSE g.top = HeaderRow
<1> DEFINE R == UsedRows(s)
           C == UsedCols(s)
           top == IF HeaderRow # NoRow THEN HeaderRow ELSE Min(R)
<1>1. CASE R = {}
  <2>1. g = NoExtent  BY <1>1 DEF Spanned
  <2> QED  BY <1>1, <2>1 DEF NoExtent
<1>2. CASE R # {}
  <2>1. /\ R \subseteq 0..MaxRow /\ C \subseteq 0..MaxCol
        /\ \A r \in R : r >= TopRow
    BY DEF UsedRows, UsedCols, InSheet, Rows, Cols
  <2>2. C # {}
    <3>1. PICK r \in R : TRUE  BY <1>2
    <3>2. PICK c \in Cols : s[r][c] # 0  BY <3>1 DEF UsedRows
    <3> QED  BY <3>1, <3>2 DEF UsedCols
  <2> HIDE DEF R, C
  <2>3. /\ Min(R) \in R /\ \A x \in R : Min(R) <= x
        /\ Max(R) \in R /\ \A x \in R : x <= Max(R)
        /\ Min(C) \in C /\ \A x \in C : Min(C) <= x
        /\ Max(C) \in C /\ \A x \in C : x <= Max(C)
    BY <1>2, <2>1, <2>2, Bounds, Extremes
  <2>4. g = [top |-> top, left |-> Min(C), height |-> Max(R) - top + 1,
             width |-> Max(C) - Min(C) + 1]
    BY <1>2 DEF Spanned, R, C
  <2>5. PICK a, b, k, l \in Nat : a = Min(R) /\ b = Max(R) /\ k = Min(C) /\ l = Max(C)
    <3>1. R \subseteq Nat /\ C \subseteq Nat  BY <2>1
    <3>2. Min(R) \in Nat /\ Max(R) \in Nat /\ Min(C) \in Nat /\ Max(C) \in Nat
      BY <2>3, <3>1, Zenon
    <3> QED  BY <3>2, Zenon
  <2>6. /\ a \in 0..MaxRow /\ b \in 0..MaxRow /\ k \in 0..MaxCol /\ l \in 0..MaxCol
        /\ a <= b /\ k <= l
        /\ \A r \in R : r \in a..b
        /\ \A c \in C : c \in k..l
    BY <2>1, <2>3, <2>5
  <2>7. HeaderRow # NoRow => HeaderRow \in 0..MaxRow /\ \A r \in R : HeaderRow <= r
    BY <2>1, Bounds DEF TopRow, NoRow
  <2>8. /\ top \in 0..MaxRow /\ top <= b
        /\ \A r \in R : r \in top..b
        /\ IF HeaderRow = NoRow THEN top \in R ELSE top = HeaderRow
    BY <2>3, <2>5, <2>6, <2>7
  <2> HIDE DEF top
  <2>9. /\ g.top = top /\ g.left = k /\ g.height = b - top + 1 /\ g.width = l - k + 1
    BY <2>4, <2>5
  <2>10. /\ g.height \in Nat \ {0} /\ g.width \in Nat \ {0}
         /\ g.top + g.height - 1 = b /\ g.left + g.width - 1 = l
    BY <2>6, <2>8, <2>9, Bounds
  <2> QED  BY <1>2, <2>6, <2>8, <2>9, <2>10 DEF R, C, Rows, Cols
<1> QED  BY <1>1, <1>2

(* Of the sheet a range was built from, moving a row of the range to its   *)
(* absolute columns gives the row.                                         *)
LEMMA RowCopied ==
  ASSUME Ranged, range.height > 0, NEW i \in 0..(range.height - 1)
  PROVE  /\ range.top + i \in Rows /\ range.top \in Rows
         /\ PaddedRow(i) = sheet[range.top + i] /\ PaddedRow(i) \in Widths
<1>1. sheet \in [Rows -> Widths] /\ range = Spanned(sheet)  BY DEF Ranged
<1>2. UsedRows(sheet) # {}  BY <1>1, SpanIs
<1>3. /\ range.top \in Rows /\ range.left \in Cols
      /\ range.height \in Nat \ {0} /\ range.width \in Nat \ {0}
      /\ range.top + range.height - 1 \in Rows
      /\ \A c \in UsedCols(sheet) : c \in range.left..(range.left + range.width - 1)
  BY <1>1, <1>2, SpanIs
<1>4. PICK r \in Rows : r = range.top + i  BY <1>3, Bounds DEF Rows
<1>5. sheet[r] \in Widths  BY <1>1
<1>6. \A c \in Cols : PaddedRow(i)[c] = sheet[r][c]
  <2> SUFFICES ASSUME NEW c \in Cols  PROVE PaddedRow(i)[c] = sheet[r][c]
    OBVIOUS
  <2>1. PaddedRow(i)[c] = IF c - range.left \in 0..(range.width - 1)
                          THEN RangeRow(i)[c - range.left] ELSE 0
    BY DEF PaddedRow
  <2>2. CASE c - range.left \in 0..(range.width - 1)
    <3>1. RangeRow(i)[c - range.left] = sheet[range.top + i][range.left + (c - range.left)]
      BY <2>2 DEF RangeRow
    <3>2. range.left + (c - range.left) = c  BY <1>3, Bounds DEF Cols
    <3> QED  BY <1>4, <2>1, <2>2, <3>1, <3>2
  <2>3. CASE ~(c - range.left \in 0..(range.width - 1))
    <3>1. c \notin UsedCols(sheet)  BY <1>3, <2>3, Bounds DEF Cols
    <3>2. sheet[r][c] = 0
      <4> SUFFICES ASSUME sheet[r][c] # 0  PROVE FALSE
        OBVIOUS
      <4>1. r \in UsedRows(sheet)  BY DEF UsedRows, Ranged
      <4> QED  BY <3>1, <4>1 DEF UsedCols
    <3> QED  BY <2>1, <2>3, <3>2
  <2> QED  BY <2>2, <2>3
<1>7. PaddedRow(i) = sheet[r]
  <2>1. PaddedRow(i) = [c \in Cols |-> PaddedRow(i)[c]]  BY DEF PaddedRow
  <2>2. sheet[r] = [c \in Cols |-> sheet[r][c]]  BY <1>5 DEF Widths
  <2> QED  BY <1>6, <2>1, <2>2
<1> QED  BY <1>3, <1>4, <1>5, <1>7

-----------------------------------------------------------------------------
(* Cells.                                                                  *)

LEMMA WithinGrows ==
  ASSUME NEW F, NEW G, F \subseteq G
  PROVE  /\ \A row, vals : Within(F, row, vals) => Within(G, row, vals)
         /\ \A s : AllWithin(F, s) => AllWithin(G, s)
BY DEF Within, AllWithin

(* A merge of two rows holds what either holds. *)
LEMMA QueuedWithin ==
  ASSUME NEW q \in Seq(QueuedRow), NEW row \in Rows, NEW vals \in Widths, NEW F,
         Within(F, row, vals), AllWithin(F, q)
  PROVE  AllWithin(F, Queued(q, row, vals))
<1> DEFINE elt == [row |-> row, vals |-> vals]
           hit == q # <<>> /\ row <= q[Len(q)].row /\ \E i \in DOMAIN q : q[i].row = row
<1>1. CASE ~hit
  <2>1. Queued(q, row, vals) = Append(q, elt)  BY <1>1 DEF Queued
  <2>2. /\ Len(q) \in Nat /\ DOMAIN q = 1..Len(q)
        /\ DOMAIN Append(q, elt) = 1..(Len(q) + 1)
        /\ \A i \in 1..Len(q) : Append(q, elt)[i] = q[i]
        /\ Append(q, elt)[Len(q) + 1] = elt
    BY LenProperties
  <2>3. elt.row = row /\ elt.vals = vals  OBVIOUS
  <2> HIDE DEF elt
  <2>4. ASSUME NEW i \in 1..(Len(q) + 1)
        PROVE  Within(F, Append(q, elt)[i].row, Append(q, elt)[i].vals)
    <3>1. i \in 1..Len(q) \/ i = Len(q) + 1  BY <2>2
    <3> QED  BY <2>2, <2>3, <3>1 DEF AllWithin
  <2> QED  BY <2>1, <2>2, <2>4 DEF AllWithin
<1>2. CASE hit
  <2> DEFINE k == FirstAt(q, row)
             m == Merge(q[k].vals, vals)
             new == [row |-> row, vals |-> m]
             s == [i \in DOMAIN q |-> IF i = k THEN new ELSE q[i]]
  <2>1. Queued(q, row, vals) = s  BY <1>2 DEF Queued
  <2>2. k \in DOMAIN q /\ q[k].row = row  BY <1>2, FirstRow
  <2>3. Within(F, row, q[k].vals)  BY <2>2 DEF AllWithin
  <2>4. \A c \in Cols : m[c] = IF vals[c] # 0 THEN vals[c] ELSE q[k].vals[c]
    BY DEF Merge
  <2> HIDE DEF m, k
  <2>5. Within(F, row, m)  BY <2>3, <2>4 DEF Within
  <2>6. new.row = row /\ new.vals = m /\ DOMAIN s = DOMAIN q  OBVIOUS
  <2>7. ASSUME NEW i \in DOMAIN q  PROVE Within(F, s[i].row, s[i].vals)
    <3>1. s[i] = IF i = k THEN new ELSE q[i]  OBVIOUS
    <3> HIDE DEF new, s
    <3> QED  BY <2>5, <2>6, <3>1 DEF AllWithin
  <2> QED  BY <2>1, <2>6, <2>7 DEF AllWithin
<1> QED  BY <1>1, <1>2

(* What leaves the queue is on the wire as it was. *)
LEMMA SentWithin ==
  ASSUME NEW q, NEW F, AllWithin(F, q), AllWithin(F, wire), FromQueue(q)
  PROVE  AllWithin(F, wire')
<1> SUFFICES ASSUME NEW k \in DOMAIN wire'
             PROVE  Within(F, wire'[k].row, wire'[k].vals)
  BY DEF AllWithin
<1> QED  BY DEF FromQueue, AllWithin

LEMMA PushWithin ==
  ASSUME wire \in Seq(SentRow), queue \in Seq(QueuedRow),
         NEW row \in Rows, NEW vals \in Widths, Push(row, vals), NEW F,
         Within(F, row, vals), AllWithin(F, queue), AllWithin(F, wire)
  PROVE  AllWithin(F, queue') /\ AllWithin(F, wire')
<1> DEFINE q == Queued(queue, row, vals)
<1>1. AllWithin(F, q)  BY QueuedWithin
<1>2. FromQueue(q)  BY PushKeeps
<1>3. queue' = q \/ queue' = <<>>
  <2>1. q \in Seq(QueuedRow) /\ q # <<>>  BY QueuedRows
  <2>2. queue' = q \/ Flush(q)  BY DEF Push
  <2> HIDE DEF q
  <2>3. Flush(q) => queue' = <<>>  BY <2>1, FlushSteps
  <2> QED  BY <2>2, <2>3
<1> HIDE DEF q
<1>4. AllWithin(F, wire')  BY <1>1, <1>2, SentWithin
<1>5. AllWithin(F, queue')
  <2>1. CASE queue' = <<>>
    <3>1. DOMAIN queue' = {}  BY <2>1
    <3> QED  BY <3>1 DEF AllWithin
  <2> QED  BY <1>1, <1>3, <2>1
<1> QED  BY <1>4, <1>5
-----------------------------------------------------------------------------
(* The rows of a range.                                                    *)

(* A row that is in the batch is not before its first. *)
LEMMA FirstExpected ==
  ASSUME NEW q \in Seq(QueuedRow), NEW k \in DOMAIN q, NEW p \in Orders(q)
  PROVE  q[p[1]].row <= q[k].row
<1>1. /\ Len(q) \in Nat /\ DOMAIN q = 1..Len(q)
      /\ \A i \in 1..Len(q) : q[p[i]].row \in Rows
      /\ \A i, j \in 1..Len(q) : i < j => q[p[i]].row <= q[p[j]].row
  BY BatchOrder
<1>2. PICK i \in DOMAIN q : p[i] = k  BY OrderIsOnto
<1>3. 1 \in 1..Len(q) /\ (i = 1 \/ 1 < i)  BY <1>1
<1> QED  BY <1>1, <1>2, <1>3 DEF Rows

(* Rows that ascend past all that is sent ascend on the wire. *)
LEMMA FlushAscends ==
  ASSUME wire \in Seq(SentRow), NEW q \in Seq(QueuedRow), q # <<>>, Flush(q),
         Ascends(wire), Ascends(q),
         \A k \in DOMAIN wire, i \in DOMAIN q : wire[k].row < q[i].row
  PROVE  Ascends(wire')
<1> DEFINE n == Len(q)
           L == Len(wire)
<1>1. /\ n \in Nat \ {0} /\ L \in Nat
      /\ DOMAIN q = 1..n /\ DOMAIN wire = 1..L /\ DOMAIN wire' = 1..(L + n)
      /\ \A i \in 1..L : wire'[i] = wire[i]
  BY FlushSteps
<1>2. PICK p \in Orders(q) : \A i \in 1..n : wire'[L + i] = LeavesAs(q, p, i)
  BY FlushSteps, Zenon
<1>3. /\ \A i \in 1..n : p[i] \in 1..n /\ q[p[i]].row \in Rows
      /\ \A i, j \in 1..n : i < j => q[p[i]].row <= q[p[j]].row
  BY <1>1, BatchOrder
<1>4. \A i, j \in 1..n : i < j => p[i] # p[j]
  BY <1>1, Zenon DEF Orders
<1>5. ASSUME NEW i \in 1..n  PROVE wire'[L + i].row = q[p[i]].row
  <2>1. wire'[L + i] = LeavesAs(q, p, i)  BY <1>2
  <2> QED  BY <2>1 DEF LeavesAs
<1> HIDE DEF L, n
<1>6. ASSUME NEW i \in 1..n, NEW j \in 1..n, i < j  PROVE q[p[i]].row < q[p[j]].row
  <2>1. /\ p[i] \in 1..n /\ p[j] \in 1..n /\ p[i] # p[j]
        /\ q[p[i]].row \in Rows /\ q[p[j]].row \in Rows /\ q[p[i]].row <= q[p[j]].row
    BY <1>3, <1>4, <1>6
  <2>2. p[i] < p[j] \/ p[j] < p[i]  BY <1>1, <2>1
  <2> QED  BY <1>1, <2>1, <2>2 DEF Ascends, Rows
<1>7. SUFFICES ASSUME NEW k \in 1..(L + n), NEW m \in 1..(L + n), k < m
               PROVE  wire'[k].row < wire'[m].row
  BY <1>1 DEF Ascends
<1>8. CASE m \in 1..L
  BY <1>1, <1>7, <1>8 DEF Ascends
<1>9. CASE k \in 1..L /\ m \notin 1..L
  <2>1. m - L \in 1..n /\ m = L + (m - L)  BY <1>1, <1>9
  <2>2. wire'[m].row = q[p[m - L]].row /\ p[m - L] \in 1..n  BY <1>3, <1>5, <2>1
  <2> QED  BY <1>1, <1>9, <2>2
<1>10. CASE k \notin 1..L
  <2>1. /\ m - L \in 1..n /\ m = L + (m - L)
        /\ k - L \in 1..n /\ k = L + (k - L) /\ k - L < m - L
    BY <1>1, <1>7, <1>10
  <2> QED  BY <1>5, <1>6, <2>1
<1> QED  BY <1>8, <1>9, <1>10

(* A batch of a range's rows leaves in order, without a gap before the     *)
(* range.                                                                  *)
LEMMA RangeFlush ==
  ASSUME TypeOK, Ranged, range.height > 0, GapsTile, RangeMarks, Ascends(wire),
         interned' \in 0..MaxCells,
         NEW q \in Seq(QueuedRow), q # <<>>, Ascends(q),
         \A i \in DOMAIN q : highestSent < q[i].row /\ range.top <= q[i].row,
         wire = <<>> /\ HeaderRow = NoRow => \E k \in DOMAIN q : q[k].row = range.top,
         Flush(q)
  PROVE  /\ queue' = <<>> /\ wire' \in Seq(SentRow) /\ defined' \in 0..MaxCells
         /\ highestSent' \in Rows /\ nextExpected' \in -1..(MaxRow + 1)
         /\ wire' # <<>> /\ Marks' /\ GapsTile' /\ Ascends(wire')
         /\ \A m \in Int : (\A i \in DOMAIN q : q[i].row < m) => highestSent' < m
<1>1. /\ wire \in Seq(SentRow) /\ highestSent \in Rows \cup {NoRow}
      /\ Len(wire) \in Nat /\ DOMAIN wire = 1..Len(wire)
      /\ \A i \in DOMAIN wire : wire[i].row \in Rows
  <2>1. wire \in Seq(SentRow) /\ highestSent \in Rows \cup {NoRow}  BY DEF TypeOK
  <2>2. Len(wire) \in Nat /\ DOMAIN wire = 1..Len(wire)
        /\ \A i \in DOMAIN wire : wire[i] \in SentRow
    BY <2>1, LenProperties
  <2> QED  BY <2>1, <2>2 DEF SentRow
<1>2. /\ range.top \in Rows
      /\ HeaderRow # NoRow => range.top = HeaderRow
  BY SpanIs DEF Ranged
<1>3. HeaderRow <= range.top  BY <1>2, Bounds DEF Rows, NoRow
<1>4. \A i \in DOMAIN q : HeaderRow <= q[i].row
  <2> SUFFICES ASSUME NEW i \in DOMAIN q  PROVE HeaderRow <= q[i].row
    OBVIOUS
  <2>1. q[i] \in QueuedRow  BY LenProperties
  <2>2. q[i].row \in Rows /\ range.top <= q[i].row  BY <2>1 DEF QueuedRow
  <2> QED  BY <1>2, <1>3, <2>2, Bounds DEF Rows
<1>5. RowsNeverRegress
  BY <1>1 DEF Ascends, RowsNeverRegress, Rows
<1>6. MarksFit(q)
  <2>1. CASE wire = <<>>
    <3>1. highestSent = NoRow /\ nextExpected = range.top  BY <2>1 DEF RangeMarks
    <3>2. ASSUME HeaderRow = NoRow  PROVE \A p \in Orders(q) : q[p[1]].row <= nextExpected
      <4>1. PICK k \in DOMAIN q : q[k].row = range.top  BY <2>1, <3>2
      <4> QED  BY <3>1, <4>1, FirstExpected
    <3> QED  BY <1>2, <2>1, <3>1, <3>2 DEF MarksFit
  <2>2. CASE wire # <<>>  BY <2>2 DEF RangeMarks, MarksFit
  <2> QED  BY <2>1, <2>2
<1>7. /\ queue' = <<>> /\ wire' \in Seq(SentRow) /\ defined' \in 0..MaxCells
      /\ highestSent' \in Rows /\ nextExpected' \in -1..(MaxRow + 1)
      /\ wire' # <<>> /\ Marks' /\ GapsTile'
      /\ \A m \in Int : (\A i \in DOMAIN q : q[i].row < m) => highestSent' < m
  BY <1>4, <1>5, <1>6, FlushKeepsOrder
<1>8. ASSUME NEW k \in DOMAIN wire, NEW i \in DOMAIN q  PROVE wire[k].row < q[i].row
  <2>1. wire # <<>> /\ Len(wire) \in DOMAIN wire  BY <1>1
  <2>2. highestSent = wire[Len(wire)].row  BY <2>1 DEF RangeMarks
  <2>3. k = Len(wire) \/ k < Len(wire)  BY <1>1
  <2>4. wire[k].row <= highestSent  BY <1>1, <2>1, <2>2, <2>3 DEF Ascends, Rows
  <2>5. q[i] \in QueuedRow  BY LenProperties
  <2>6. q[i].row \in Rows  BY <2>5 DEF QueuedRow
  <2> QED  BY <1>1, <2>2, <2>4, <2>6 DEF Rows, NoRow
<1>9. Ascends(wire')  BY <1>1, <1>8, FlushAscends
<1> QED  BY <1>7, <1>9
(* A row past all that is queued goes to the end of the queue. *)
LEMMA QueuedLast ==
  ASSUME NEW q \in Seq(QueuedRow), NEW row \in Rows, NEW vals \in Widths,
         \A i \in DOMAIN q : q[i].row < row
  PROVE  /\ Queued(q, row, vals) \in Seq(QueuedRow) /\ Queued(q, row, vals) # <<>>
         /\ Len(q) \in Nat /\ DOMAIN q = 1..Len(q)
         /\ DOMAIN Queued(q, row, vals) = 1..(Len(q) + 1)
         /\ \A i \in 1..Len(q) : Queued(q, row, vals)[i] = q[i]
         /\ Queued(q, row, vals)[Len(q) + 1].row = row
         /\ Queued(q, row, vals)[Len(q) + 1].vals = vals
<1> DEFINE elt == [row |-> row, vals |-> vals]
<1>1. /\ Len(q) \in Nat /\ DOMAIN q = 1..Len(q)
      /\ \A i \in DOMAIN q : q[i] \in QueuedRow
  BY LenProperties
<1>2. ~(q # <<>> /\ row <= q[Len(q)].row /\ \E i \in DOMAIN q : q[i].row = row)
  <2> SUFFICES ASSUME \E i \in DOMAIN q : q[i].row = row  PROVE FALSE
    OBVIOUS
  <2>1. PICK i \in DOMAIN q : q[i].row = row  OBVIOUS
  <2> QED  BY <2>1 DEF Rows
<1>3. Queued(q, row, vals) = Append(q, elt)  BY <1>2 DEF Queued
<1>4. elt \in QueuedRow  BY DEF QueuedRow
<1> HIDE DEF elt
<1>5. /\ Append(q, elt) \in Seq(QueuedRow) /\ Append(q, elt) # <<>>
      /\ DOMAIN Append(q, elt) = 1..(Len(q) + 1)
      /\ \A i \in 1..Len(q) : Append(q, elt)[i] = q[i]
      /\ Append(q, elt)[Len(q) + 1] = elt
  BY <1>1, <1>4, AppendProperties, LenProperties
<1>6. elt.row = row /\ elt.vals = vals  BY DEF elt
<1> QED  BY <1>1, <1>3, <1>5, <1>6

LEMMA CopyRowKeeps ==
  ASSUME ByRange, CopyRow
  PROVE  ByRange'
<1> DEFINE row == range.top + offset
           vals == PaddedRow(offset)
<1>1. /\ stage = "copying" /\ phase = "reading" /\ offset < range.height
      /\ offset' = offset + 1
      /\ interned' = interned /\ stage' = stage /\ range' = range /\ header' = header
      /\ phase' = phase /\ UNCHANGED rowVars /\ sheet' = sheet /\ read' = read /\ ref' = ref
  BY DEF CopyRow, At, histVars
<1>2. /\ Ranged /\ range.height > 0 /\ FitsDense /\ header = RangeHeader
      /\ offset \in 0..range.height
      /\ TypeOK /\ ref = [n \in Serials |-> 0]
      /\ RangeMarks /\ GapsTile
      /\ Copies(queue, offset) /\ Copies(wire, offset) /\ Ascends(queue) /\ Ascends(wire)
      /\ \A i \in DOMAIN queue : highestSent < queue[i].row
      /\ AllCopied
  BY <1>1 DEF ByRange
<1>3. range.height \in Nat
  <2>1. range = Spanned(sheet) /\ sheet \in [Rows -> Widths]  BY <1>2 DEF Ranged
  <2> QED  BY <1>2, <2>1, SpanIs
<1>4. /\ row \in Rows /\ range.top \in Rows /\ offset \in Nat
      /\ vals = sheet[row] /\ vals \in Widths
  BY <1>1, <1>2, <1>3, RowCopied
<1> HIDE DEF row, vals
<1>5. row = range.top + offset  BY DEF row
<1>6. /\ Ranged' /\ range'.height > 0 /\ FitsDense' /\ header' = RangeHeader'
      /\ offset' \in 0..range'.height
      /\ ref' = [n \in Serials |-> 0]
  <2>1. Ranged'  BY <1>1, <1>2 DEF Ranged
  <2>2. FitsDense' /\ header' = RangeHeader'  BY <1>1, <1>2 DEF FitsDense, RangeHeader
  <2> QED  BY <1>1, <1>2, <1>3, <2>1, <2>2
<1>7. /\ queue \in Seq(QueuedRow) /\ wire \in Seq(SentRow) /\ interned \in 0..MaxCells
      /\ highestSent \in Rows \cup {NoRow}
      /\ \A i \in DOMAIN queue : queue[i].row \in Rows
      /\ \A i \in DOMAIN wire : wire[i].row \in Rows
  <2>1. queue \in Seq(QueuedRow) /\ wire \in Seq(SentRow) /\ interned \in 0..MaxCells
        /\ highestSent \in Rows \cup {NoRow}
    BY <1>2 DEF TypeOK
  <2>2. (\A i \in DOMAIN queue : queue[i] \in QueuedRow) /\ \A i \in DOMAIN wire : wire[i] \in SentRow
    BY <2>1, ElementOfSeq, LenProperties
  <2> QED  BY <2>1, <2>2 DEF QueuedRow, SentRow
<1>8. /\ \A i \in DOMAIN queue : queue[i].row < row /\ range.top <= queue[i].row
      /\ highestSent < row
  <2>1. \A i \in DOMAIN queue : queue[i].row < row /\ range.top <= queue[i].row
    BY <1>2, <1>4, <1>5, <1>7 DEF Copies, Rows
  <2>2. highestSent < row
    <3>1. CASE wire = <<>>  BY <1>2, <1>4, <3>1 DEF RangeMarks, NoRow, Rows
    <3>2. CASE wire # <<>>
      <4>1. Len(wire) \in DOMAIN wire  BY <1>7, <3>2, LenProperties, EmptySeq
      <4>2. highestSent = wire[Len(wire)].row  BY <1>2, <3>2 DEF RangeMarks
      <4> QED  BY <1>2, <1>4, <1>5, <1>7, <4>1, <4>2 DEF Copies, Rows
    <3> QED  BY <3>1, <3>2
  <2> QED  BY <2>1, <2>2
(* What was copied is copied, and the rows gone through are one more. *)
<1>9. Copies(queue, offset + 1) /\ Copies(wire, offset + 1)
  BY <1>2, <1>4, <1>7, SMTT(60) DEF Copies, Rows
<1>10. \A s : Copies(s, offset + 1) => \A i \in DOMAIN s :
          /\ s[i].row \in range'.top..(range'.top + offset' - 1)
          /\ s[i].vals = sheet'[s[i].row] /\ s[i].vals # EmptyRow
  BY <1>1 DEF Copies
<1>11. \A r \in Rows : r < range.top + (offset + 1) <=> r < range.top + offset \/ r = row
  BY <1>4, <1>5 DEF Rows
<1>12. CASE vals = EmptyRow
  <2>1. UNCHANGED batchVars /\ defined' = defined
    BY <1>12, <1>4 DEF CopyRow, vals
  <2>2. TypeOK'  BY <1>1, <1>2, <2>1 DEF TypeOK, rowVars, batchVars
  <2>3. /\ queue' = queue /\ wire' = wire /\ highestSent' = highestSent
        /\ nextExpected' = nextExpected
    BY <2>1 DEF batchVars
  <2>4. RangeMarks' /\ GapsTile'  BY <1>1, <1>2, <2>3 DEF RangeMarks, GapsTile
  <2>5. Copies(queue, offset)' /\ Copies(wire, offset)'  BY <1>9, <1>10, <2>3 DEF Copies
  <2>6. AllCopied'
    <3>1. \A c \in Cols : sheet[row][c] = 0  BY <1>4, <1>12 DEF EmptyRow
    <3>2. \A r \in Rows, c \in Cols :
             sheet[r][c] # 0 /\ r < range.top + (offset + 1) =>
               HoldsIn(queue, r, c, sheet[r][c]) \/ HoldsIn(wire, r, c, sheet[r][c])
      BY <1>2, <1>11, <3>1 DEF AllCopied
    <3> QED  BY <1>1, <2>3, <3>2 DEF AllCopied
  <2>7. /\ Ascends(queue)' /\ Ascends(wire)'
        /\ \A i \in DOMAIN queue' : highestSent' < queue'[i].row
    BY <1>2, <2>3 DEF Ascends
  <2> QED  BY <1>1, <1>6, <2>2, <2>4, <2>5, <2>6, <2>7 DEF ByRange
<1>13. CASE vals # EmptyRow
  <2> DEFINE q == Queued(queue, row, vals)
             n == Len(queue)
  <2>1. Push(row, vals)  BY <1>13 DEF CopyRow, row, vals
  <2>2. /\ q \in Seq(QueuedRow) /\ q # <<>>
        /\ n \in Nat /\ DOMAIN queue = 1..n /\ DOMAIN q = 1..(n + 1)
        /\ \A i \in 1..n : q[i] = queue[i]
        /\ q[n + 1].row = row /\ q[n + 1].vals = vals
    BY <1>4, <1>7, <1>8, QueuedLast
  <2>3. /\ \A r \in Rows, c \in Cols, v \in Nat \ {0} :
              \/ HoldsIn(queue, r, c, v) /\ (r = row => vals[c] \in {0, v})
              \/ r = row /\ vals[c] = v
              \/ HoldsIn(wire, r, c, v)
              => HoldsIn(queue', r, c, v) \/ HoldsIn(wire', r, c, v)
        /\ FromQueue(q)
    BY <1>4, <1>7, <2>1, PushKeeps
  <2>4. Flush(q) \/ (queue' = q /\ UNCHANGED <<nextExpected, highestSent, wire, defined>>)
    BY <2>1 DEF Push
  <2> HIDE DEF q, n
  <2>5. \A i \in 1..(n + 1) : i \in 1..n \/ i = n + 1  BY <2>2
  <2>6. Ascends(q)
    <3> SUFFICES ASSUME NEW i \in 1..(n + 1), NEW j \in 1..(n + 1), i < j
                 PROVE  q[i].row < q[j].row
      BY <2>2 DEF Ascends
    <3>1. i \in 1..n  BY <2>2
    <3>2. CASE j \in 1..n  BY <1>2, <2>2, <3>1, <3>2 DEF Ascends
    <3>3. CASE j = n + 1  BY <1>8, <2>2, <3>1, <3>3
    <3> QED  BY <2>5, <3>2, <3>3
  <2>7. \A i \in DOMAIN q : highestSent < q[i].row /\ range.top <= q[i].row
    BY <1>2, <1>4, <1>5, <1>8, <2>2, <2>5 DEF Rows
  <2>8. Copies(q, offset + 1)
    <3> SUFFICES ASSUME NEW i \in 1..(n + 1)
                 PROVE  /\ q[i].row \in range.top..(range.top + (offset + 1) - 1)
                        /\ q[i].vals = sheet[q[i].row] /\ q[i].vals # EmptyRow
      BY <2>2 DEF Copies
    <3>1. CASE i \in 1..n  BY <1>9, <2>2, <3>1 DEF Copies
    <3>2. CASE i = n + 1  BY <1>4, <1>5, <1>13, <2>2, <3>2 DEF Rows
    <3> QED  BY <2>5, <3>1, <3>2
  <2>9. Copies(wire', offset + 1)
    BY <1>9, <2>3, <2>8 DEF Copies, FromQueue
  <2>10. AllCopied'
    <3> SUFFICES ASSUME NEW r \in Rows, NEW c \in Cols, sheet[r][c] # 0,
                        r < range.top + (offset + 1)
                 PROVE  HoldsIn(queue', r, c, sheet[r][c]) \/ HoldsIn(wire', r, c, sheet[r][c])
      BY <1>1 DEF AllCopied
    <3>1. PICK v \in Nat \ {0} : v = sheet[r][c]
      BY <1>2, Bounds DEF Ranged, Widths
    <3>2. CASE r = row  BY <1>4, <2>3, <3>1, <3>2
    <3>3. CASE r # row
      <4>1. HoldsIn(queue, r, c, v) \/ HoldsIn(wire, r, c, v)
        BY <1>2, <1>11, <3>1, <3>3 DEF AllCopied
      <4> QED  BY <2>3, <3>1, <3>3, <4>1
    <3> QED  BY <3>2, <3>3
  <2>11. CASE queue' = q /\ UNCHANGED <<nextExpected, highestSent, wire, defined>>
    <3>1. TypeOK'  BY <1>1, <1>2, <2>2, <2>11 DEF TypeOK, rowVars
    <3>2. RangeMarks' /\ GapsTile'  BY <1>1, <1>2, <2>11 DEF RangeMarks, GapsTile
    <3>3. Copies(queue, offset)' /\ Copies(wire, offset)'
      BY <1>1, <2>8, <2>9, <2>11 DEF Copies
    <3>4. /\ Ascends(queue)' /\ Ascends(wire)'
          /\ \A i \in DOMAIN queue' : highestSent' < queue'[i].row
      BY <1>2, <2>6, <2>7, <2>11 DEF Ascends
    <3> QED  BY <1>1, <1>6, <2>10, <3>1, <3>2, <3>3, <3>4 DEF ByRange
  <2>12. CASE Flush(q)
    <3>1. wire = <<>> /\ HeaderRow = NoRow => \E k \in DOMAIN q : q[k].row = range.top
      <4> SUFFICES ASSUME wire = <<>>, HeaderRow = NoRow
                   PROVE  \E k \in DOMAIN q : q[k].row = range.top
        OBVIOUS
      <4>1. CASE offset = 0  BY <1>4, <1>5, <2>2, <2>5, <4>1 DEF Rows
      <4>2. CASE offset # 0
        <5>1. range.top \in UsedRows(sheet)  BY <1>2, SpanIs DEF Ranged
        <5>2. PICK c \in Cols : sheet[range.top][c] # 0  BY <5>1 DEF UsedRows
        <5>3. range.top < range.top + offset  BY <1>4, <4>2 DEF Rows
        <5>4. HoldsIn(queue, range.top, c, sheet[range.top][c])
          BY <1>2, <1>4, <5>2, <5>3 DEF AllCopied, HoldsIn
        <5>5. PICK k \in 1..n : queue[k].row = range.top  BY <2>2, <5>4 DEF HoldsIn
        <5>6. k \in 1..(n + 1)  BY <2>2
        <5> QED  BY <2>2, <5>5, <5>6
      <4> QED  BY <4>1, <4>2
    <3>2. /\ queue' = <<>> /\ wire' \in Seq(SentRow) /\ defined' \in 0..MaxCells
          /\ highestSent' \in Rows /\ nextExpected' \in -1..(MaxRow + 1)
          /\ wire' # <<>> /\ Marks' /\ GapsTile' /\ Ascends(wire')
      BY <1>1, <1>2, <1>7, <2>2, <2>6, <2>7, <2>12, <3>1, RangeFlush
    <3>3. queue' \in Seq(QueuedRow) /\ DOMAIN queue' = {}  BY <3>2
    <3>4. TypeOK'  BY <1>1, <1>2, <3>2, <3>3 DEF TypeOK, rowVars
    <3>5. RangeMarks'  BY <3>2 DEF Marks, RangeMarks
    <3>6. Copies(queue, offset)' /\ Copies(wire, offset)'
      BY <1>1, <2>9, <3>3 DEF Copies
    <3>7. /\ Ascends(queue)' /\ Ascends(wire)'
          /\ \A i \in DOMAIN queue' : highestSent' < queue'[i].row
      BY <3>2, <3>3 DEF Ascends
    <3> QED  BY <1>1, <1>6, <2>10, <3>2, <3>4, <3>5, <3>6, <3>7 DEF ByRange
  <2> QED  BY <2>4, <2>11, <2>12
<1> QED  BY <1>12, <1>13
LEMMA EndRangeKeeps ==
  ASSUME ByRange, EndRange
  PROVE  ByRange'
<1>1. /\ stage = "copying" /\ phase = "reading" /\ offset = range.height
      /\ phase' = "ended" /\ interned' = interned /\ UNCHANGED bodyVars
      /\ UNCHANGED rowVars /\ sheet' = sheet /\ read' = read /\ ref' = ref
      /\ Flush(queue)
  BY DEF EndRange, At, histVars
<1>2. /\ Ranged /\ range.height > 0 /\ FitsDense /\ header = RangeHeader
      /\ offset \in 0..range.height
      /\ TypeOK /\ ref = [n \in Serials |-> 0]
      /\ RangeMarks /\ GapsTile
      /\ Copies(queue, offset) /\ Copies(wire, offset) /\ Ascends(queue) /\ Ascends(wire)
      /\ \A i \in DOMAIN queue : highestSent < queue[i].row
      /\ AllCopied
  BY <1>1 DEF ByRange
<1>3. /\ stage' = stage /\ range' = range /\ header' = header /\ offset' = offset
      /\ Ranged' /\ range'.height > 0 /\ FitsDense' /\ header' = RangeHeader'
      /\ offset' \in 0..range'.height /\ ref' = [n \in Serials |-> 0]
  BY <1>1, <1>2 DEF bodyVars, Ranged, FitsDense, RangeHeader
<1>4. queue \in Seq(QueuedRow) /\ wire \in Seq(SentRow) /\ interned \in 0..MaxCells
  BY <1>2 DEF TypeOK
<1>5. CASE queue = <<>>
  <2>1. UNCHANGED batchVars /\ defined' = defined  BY <1>1, <1>5 DEF Flush
  <2>2. /\ queue' = queue /\ wire' = wire /\ highestSent' = highestSent
        /\ nextExpected' = nextExpected
    BY <2>1 DEF batchVars
  <2>3. TypeOK'  BY <1>1, <1>2, <2>1, <2>2 DEF TypeOK, rowVars
  <2>4. RangeMarks' /\ GapsTile'  BY <1>2, <1>3, <2>2 DEF RangeMarks, GapsTile
  <2>5. Copies(queue, offset)' /\ Copies(wire, offset)'
    BY <1>1, <1>2, <1>3, <2>2 DEF Copies
  <2>6. /\ Ascends(queue)' /\ Ascends(wire)'
        /\ \A i \in DOMAIN queue' : highestSent' < queue'[i].row
    BY <1>2, <2>2 DEF Ascends
  <2>7. AllCopied'  BY <1>1, <1>2, <1>3, <2>2 DEF AllCopied, HoldsIn
  <2> QED  BY <1>1, <1>3, <1>5, <2>2, <2>3, <2>4, <2>5, <2>6, <2>7 DEF ByRange
<1>6. CASE queue # <<>>
  <2>1. \A i \in DOMAIN queue : highestSent < queue[i].row /\ range.top <= queue[i].row
    <3>1. range.top \in Rows
      <4>1. range = Spanned(sheet) /\ sheet \in [Rows -> Widths]  BY <1>2 DEF Ranged
      <4> QED  BY <1>2, <4>1, SpanIs
    <3>2. offset \in Nat
      <4>1. range = Spanned(sheet) /\ sheet \in [Rows -> Widths]  BY <1>2 DEF Ranged
      <4> QED  BY <1>1, <1>2, <4>1, SpanIs
    <3> QED  BY <1>2, <3>1, <3>2 DEF Copies, Rows
  <2>2. wire = <<>> /\ HeaderRow = NoRow => \E k \in DOMAIN queue : queue[k].row = range.top
    <3> SUFFICES ASSUME wire = <<>>, HeaderRow = NoRow
                 PROVE  \E k \in DOMAIN queue : queue[k].row = range.top
      OBVIOUS
    <3>1. range.top \in UsedRows(sheet)  BY <1>2, SpanIs DEF Ranged
    <3>2. PICK c \in Cols : sheet[range.top][c] # 0  BY <3>1 DEF UsedRows
    <3>3. range.top \in Rows /\ range.height \in Nat
      <4>1. range = Spanned(sheet) /\ sheet \in [Rows -> Widths]  BY <1>2 DEF Ranged
      <4> QED  BY <1>2, <4>1, SpanIs
    <3>4. range.top < range.top + offset  BY <1>1, <1>2, <3>3 DEF Rows
    <3>5. HoldsIn(queue, range.top, c, sheet[range.top][c])
      BY <1>2, <3>2, <3>3, <3>4 DEF AllCopied, HoldsIn
    <3> QED  BY <3>5 DEF HoldsIn
  <2>3. /\ queue' = <<>> /\ wire' \in Seq(SentRow) /\ defined' \in 0..MaxCells
        /\ highestSent' \in Rows /\ nextExpected' \in -1..(MaxRow + 1)
        /\ wire' # <<>> /\ Marks' /\ GapsTile' /\ Ascends(wire')
    BY <1>1, <1>2, <1>4, <1>6, <2>1, <2>2, RangeFlush
  <2>4. /\ FromQueue(queue)
        /\ \A r, c, v : HoldsIn(queue, r, c, v) \/ HoldsIn(wire, r, c, v)
                          => HoldsIn(wire', r, c, v)
    BY <1>1, <1>4, <1>6, FlushSends
  <2>5. queue' \in Seq(QueuedRow) /\ DOMAIN queue' = {}  BY <2>3
  <2>6. TypeOK'  BY <1>1, <1>2, <2>3, <2>5 DEF TypeOK, rowVars
  <2>7. RangeMarks'  BY <2>3 DEF Marks, RangeMarks
  <2>8. Copies(queue, offset)' /\ Copies(wire, offset)'
    <3>1. Copies(wire', offset)  BY <1>2, <2>4 DEF Copies, FromQueue
    <3> QED  BY <1>1, <1>3, <2>5, <3>1 DEF Copies
  <2>9. /\ Ascends(queue)' /\ Ascends(wire)'
        /\ \A i \in DOMAIN queue' : highestSent' < queue'[i].row
    BY <2>3, <2>5 DEF Ascends
  <2>10. AllCopied'  BY <1>1, <1>2, <1>3, <2>4 DEF AllCopied
  <2> QED  BY <1>1, <1>3, <2>3, <2>6, <2>7, <2>8, <2>9, <2>10 DEF ByRange
<1> QED  BY <1>5, <1>6

-----------------------------------------------------------------------------
(* The rows of the cells path.                                             *)

(* A cell read is filled, and what was filled stays. *)
LEMMA ReceiveFills ==
  ASSUME TypeOK, NEW row \in Rows, NEW col \in Cols,
         NEW id \in 0..Least(interned + 1, MaxCells), Receive(row, col, id)
  PROVE  /\ Filled \subseteq Filled' /\ <<row, col>> \in Filled' /\ read + 1 # 0
         /\ Within(Filled', row, OneCell(col, read + 1))
<1>1. /\ read + 1 \in Nat \ {0}
      /\ \A r \in Rows, c \in Cols :
           sheet'[r][c] = IF r = row /\ c = col THEN read + 1 ELSE sheet[r][c]
  BY ReceiveKnows
<1>2. Filled \subseteq Filled' /\ <<row, col>> \in Filled'  BY <1>1 DEF Filled
<1>3. \A c \in Cols : OneCell(col, read + 1)[c] = IF c = col THEN read + 1 ELSE 0
  BY DEF OneCell, EmptyRow
<1>4. Within(Filled', row, OneCell(col, read + 1))  BY <1>1, <1>2, <1>3 DEF Within
<1> QED  BY <1>1, <1>2, <1>4

(* The steps that leave rows and batcher alone. *)
LEMMA QuietFills ==
  ASSUME RowsFilled, UNCHANGED rowVars, UNCHANGED batchVars, Filled \subseteq Filled'
  PROVE  RowsFilled'
<1>1. /\ open' = open /\ current' = current /\ values' = values
      /\ queue' = queue /\ wire' = wire
  BY DEF rowVars, batchVars
<1>2. /\ open => Within(Filled', current, values)
      /\ AllWithin(Filled', queue) /\ AllWithin(Filled', wire)
  BY WithinGrows DEF RowsFilled
<1>3. /\ open' => Within(Filled', current', values')
      /\ AllWithin(Filled', queue') /\ AllWithin(Filled', wire')
  BY <1>1, <1>2
<1> QED  BY <1>3 DEF RowsFilled

LEMMA CellFills ==
  ASSUME TypeOK, RowsFilled, NEW row \in Rows, NEW col \in Cols,
         NEW id \in 0..Least(interned + 1, MaxCells),
         \/ FirstCell(row, col, id) \/ SameRow(row, col, id) \/ NextRow(row, col, id)
         \/ LateRow(row, col, id) \/ TooLate(row, col, id)
  PROVE  RowsFilled'
<1> DEFINE one == OneCell(col, read + 1)
<1>1. Receive(row, col, id)
  BY DEF FirstCell, SameRow, NextRow, LateRow, TooLate
<1>2. /\ Filled \subseteq Filled' /\ <<row, col>> \in Filled' /\ read + 1 # 0
      /\ Within(Filled', row, one) /\ one \in Widths
  BY <1>1, ReceiveFills, ReceiveTypes
<1>3. /\ open => Within(Filled', current, values)
      /\ AllWithin(Filled', queue) /\ AllWithin(Filled', wire)
  BY <1>2, WithinGrows DEF RowsFilled
<1>4. /\ queue \in Seq(QueuedRow) /\ wire \in Seq(SentRow)
      /\ current \in Rows /\ values \in Widths
  BY DEF TypeOK
<1> HIDE DEF one
<1>5. CASE FirstCell(row, col, id)
  <2>1. current' = row /\ values' = one /\ queue' = queue /\ wire' = wire
    BY <1>5 DEF FirstCell, batchVars, one
  <2>2. /\ open' => Within(Filled', current', values')
        /\ AllWithin(Filled', queue') /\ AllWithin(Filled', wire')
    BY <1>2, <1>3, <2>1
  <2> QED  BY <2>2 DEF RowsFilled
<1>6. CASE SameRow(row, col, id)
  <2>1. /\ open /\ row = current /\ current' = current /\ queue' = queue /\ wire' = wire
        /\ values' = [values EXCEPT ![col] = read + 1]
    BY <1>6 DEF SameRow, batchVars
  <2>2. \A c \in Cols : values'[c] = IF c = col THEN read + 1 ELSE values[c]
    BY <1>4, <2>1 DEF Widths
  <2>3. Within(Filled', current', values')  BY <1>2, <1>3, <2>1, <2>2 DEF Within
  <2>4. AllWithin(Filled', queue') /\ AllWithin(Filled', wire')  BY <1>3, <2>1
  <2> QED  BY <2>3, <2>4 DEF RowsFilled
<1>7. CASE NextRow(row, col, id)
  <2>1. CASE UNCHANGED <<rowVars, batchVars, defined>>
    BY <1>2, <2>1, QuietFills
  <2>2. CASE Push(current, values) /\ current' = row /\ values' = one
    <3>1. open  BY <1>7 DEF NextRow
    <3>2. AllWithin(Filled', queue') /\ AllWithin(Filled', wire')
      BY <1>3, <1>4, <2>2, <3>1, PushWithin
    <3>3. Within(Filled', current', values')  BY <1>2, <2>2
    <3> QED  BY <3>2, <3>3 DEF RowsFilled
  <2> QED  BY <1>7, <2>1, <2>2 DEF NextRow, one
<1>8. CASE LateRow(row, col, id)
  <2>1. /\ Push(row, one) /\ open' = open /\ current' = current /\ values' = values
    BY <1>8 DEF LateRow, rowVars, one
  <2>2. AllWithin(Filled', queue') /\ AllWithin(Filled', wire')
    BY <1>2, <1>3, <1>4, <2>1, PushWithin
  <2>3. open' => Within(Filled', current', values')  BY <1>3, <2>1
  <2> QED  BY <2>2, <2>3 DEF RowsFilled
<1>9. CASE TooLate(row, col, id)
  BY <1>2, <1>9, QuietFills DEF TooLate
<1> QED  BY <1>5, <1>6, <1>7, <1>8, <1>9

LEMMA StepFills ==
  ASSUME TypeOK, RowsFilled, Next
  PROVE  RowsFilled'
<1>1. CASE CellNext
  <2>1. PICK row \in Rows, col \in Cols, id \in 0..Least(interned + 1, MaxCells) :
           \/ FirstCell(row, col, id) \/ SameRow(row, col, id) \/ NextRow(row, col, id)
           \/ LateRow(row, col, id) \/ TooLate(row, col, id)
    BY <1>1 DEF CellNext
  <2> QED  BY <2>1, CellFills
<1>2. CASE ReadFails \/ ClientGone
           \/ \E row \in Rows, id \in 1..Least(interned + 1, MaxCells) : SkipAbove(row, id)
  <2>1. UNCHANGED rowVars /\ UNCHANGED batchVars /\ sheet' = sheet
    BY <1>2 DEF ReadFails, ClientGone, SkipAbove, histVars
  <2>2. Filled' = Filled  BY <2>1 DEF Filled
  <2> QED  BY <2>1, <2>2, QuietFills
<1>3. CASE EndOfSheet
  <2>1. /\ sheet' = sheet /\ open' = open /\ current' = current /\ values' = values
        /\ UNCHANGED rowVars
    BY <1>3 DEF EndOfSheet, histVars, rowVars
  <2>2. Filled' = Filled  BY <2>1 DEF Filled
  <2>3. CASE UNCHANGED <<batchVars, defined>>
    BY <2>1, <2>2, <2>3, QuietFills
  <2>4. CASE Flush(IF open THEN Queued(queue, current, values) ELSE queue)
    <3> DEFINE q == IF open THEN Queued(queue, current, values) ELSE queue
    <3>1. /\ queue \in Seq(QueuedRow) /\ wire \in Seq(SentRow)
          /\ current \in Rows /\ values \in Widths
      BY DEF TypeOK
    <3>2. q \in Seq(QueuedRow)  BY <3>1, QueuedRows
    <3>3. AllWithin(Filled, q)  BY <3>1, QueuedWithin DEF RowsFilled
    <3>4. Flush(q)  BY <2>4
    <3> HIDE DEF q
    <3>5. CASE q = <<>>
      <4>1. UNCHANGED batchVars  BY <3>4, <3>5 DEF Flush
      <4> QED  BY <2>1, <2>2, <4>1, QuietFills
    <3>6. CASE q # <<>>
      <4>1. queue' = <<>> /\ FromQueue(q)  BY <3>1, <3>2, <3>4, <3>6, FlushSends
      <4>2. AllWithin(Filled, wire')  BY <3>3, <4>1, SentWithin DEF RowsFilled
      <4>3. DOMAIN queue' = {}  BY <4>1
      <4>4. AllWithin(Filled', wire') /\ AllWithin(Filled', queue')
        BY <2>2, <4>2, <4>3 DEF AllWithin
      <4>5. open' => Within(Filled', current', values')  BY <2>1, <2>2 DEF RowsFilled
      <4> QED  BY <4>4, <4>5 DEF RowsFilled
    <3> QED  BY <3>5, <3>6
  <2> QED  BY <1>3, <2>3, <2>4 DEF EndOfSheet
<1> QED  BY <1>1, <1>2, <1>3 DEF Next
-----------------------------------------------------------------------------
(* The steps.                                                              *)

LEMMA InitSheet == BodyInit => SheetInv
<1> SUFFICES ASSUME BodyInit  PROVE SheetInv
  OBVIOUS
<1>1. /\ stage = "start" /\ header = NotSent /\ offset = 0 /\ Init
  BY DEF BodyInit
<1>2. NoRows /\ sheet = [r \in Rows |-> EmptyRow] /\ phase = "reading"
  BY <1>1 DEF Init, NoRows
<1> QED  BY <1>1, <1>2 DEF SheetInv, Stages, Early, Built, ByCells, ByRange

(* Before there is a range or a reader of cells, nothing but the stage     *)
(* moves.                                                                  *)
LEMMA EarlyStays ==
  ASSUME Early, stage \in {"start", "resolved", "borrowed", "whole"},
         stage' \in {"start", "resolved", "borrowed", "whole"},
         UNCHANGED <<rowVars, batchVars, stringVars, histVars>>,
         header' = header, offset' = offset, phase' # "ended"
  PROVE  SheetInv'
<1>1. NoRows' /\ sheet' = sheet
  BY DEF Early, NoRows, rowVars, batchVars, stringVars, histVars
<1>2. Early'  BY <1>1 DEF Early
<1> QED  BY <1>2 DEF SheetInv, Stages, Built, ByCells, ByRange

LEMMA OpenCellsHolds ==
  ASSUME SheetInv, NEW d \in Declared, OpenCells(d)
  PROVE  SheetInv'
<1>1. /\ stage = "borrowed" /\ phase = "reading" /\ stage' = "cells" /\ UNCHANGED vars
      /\ header' = [corners |-> d, total |-> DeclaredTotal(d[1], d[2], d[3], d[4])]
  BY DEF OpenCells, At
<1>2. NoRows /\ sheet = [r \in Rows |-> EmptyRow]  BY <1>1 DEF SheetInv, Early
<1>3. Init  BY <1>1, <1>2 DEF NoRows, Init
<1>4. IInv /\ CellInv  BY <1>3, InitHolds, InitCells
<1>5. IInv' /\ CellInv'  BY <1>1, <1>4, StepHolds, StepCells
<1>6. open' = FALSE /\ DOMAIN queue' = {} /\ DOMAIN wire' = {}
  BY <1>1, <1>2 DEF NoRows, vars, rowVars, batchVars
<1>7. RowsFilled'  BY <1>6 DEF RowsFilled, AllWithin
<1>8. ByCells'  BY <1>1, <1>5, <1>7 DEF ByCells
<1> QED  BY <1>1, <1>8 DEF SheetInv, Stages, Early, Built, ByRange

LEMMA ReadRangeHolds ==
  ASSUME SheetInv, NEW found \in Grids, ReadRange(found)
  PROVE  SheetInv'
<1>1. /\ stage = "whole" /\ phase = "reading" /\ stage' = "built"
      /\ sheet' = [r \in Rows |-> IF InSheet(r) THEN found[r] ELSE EmptyRow]
      /\ range' = Spanned(sheet') /\ offset' = offset /\ header' = header /\ phase' = phase
      /\ UNCHANGED <<rowVars, batchVars, stringVars, ref>> /\ read' = read
  BY DEF ReadRange, At
<1>2. NoRows /\ header = NotSent /\ offset = 0  BY <1>1 DEF SheetInv, Early
<1>3. NoRows'  BY <1>1, <1>2 DEF NoRows, rowVars, batchVars, stringVars
<1>4. found \in [Rows -> Widths]  BY DenseAssumption
<1>5. sheet' \in [Rows -> Widths]  BY <1>1, <1>4, RowTypes
<1>6. \A r \in Rows, c \in Cols : sheet'[r][c] # 0 => InSheet(r)
  BY <1>1 DEF EmptyRow
<1>7. Ranged'  BY <1>1, <1>5, <1>6 DEF Ranged
<1>8. Built'  BY <1>1, <1>2, <1>3, <1>7 DEF Built
<1> QED  BY <1>1, <1>8 DEF SheetInv, Stages, Early, ByCells, ByRange

LEMMA TooDenseHolds ==
  ASSUME SheetInv, TooDense
  PROVE  SheetInv'
<1>1. /\ stage = "built" /\ phase = "reading" /\ ~FitsDense
      /\ phase' = "resource exhausted" /\ UNCHANGED bodyVars
      /\ UNCHANGED <<rowVars, batchVars, stringVars, histVars>>
  BY DEF TooDense, At, EndsWith
<1>2. NoRows /\ Ranged /\ offset = 0 /\ header = NotSent
  BY <1>1 DEF SheetInv, Built
<1>3. stage' = stage /\ offset' = offset /\ header' = header /\ range' = range
  BY <1>1 DEF bodyVars
<1>4. NoRows' /\ Ranged' /\ ~FitsDense'
  BY <1>1, <1>2, <1>3 DEF NoRows, Ranged, FitsDense, rowVars, batchVars, stringVars, histVars
<1>5. Built'  BY <1>1, <1>2, <1>3, <1>4 DEF Built
<1> QED  BY <1>1, <1>3, <1>5 DEF SheetInv, Stages, Early, ByCells, ByRange

LEMMA StartRangeHolds ==
  ASSUME SheetInv, StartRange
  PROVE  SheetInv'
<1>1. /\ stage = "built" /\ phase = "reading" /\ FitsDense /\ header' = RangeHeader
      /\ range' = range /\ offset' = offset
      /\ UNCHANGED rowVars /\ queue' = queue /\ highestSent' = highestSent /\ wire' = wire
      /\ UNCHANGED stringVars /\ UNCHANGED histVars
  BY DEF StartRange, At
<1>2. NoRows /\ Ranged /\ offset = 0  BY <1>1 DEF SheetInv, Built
<1>3. Ranged' /\ FitsDense' /\ header' = RangeHeader'
  BY <1>1, <1>2 DEF Ranged, FitsDense, RangeHeader, histVars
<1>4. CASE range.height = 0
  <2>1. phase' = "ended" /\ stage' = stage /\ nextExpected' = nextExpected
    BY <1>4 DEF StartRange
  <2>2. NoRows'  BY <1>1, <1>2, <2>1 DEF NoRows, rowVars, stringVars, histVars
  <2>3. Built'  BY <1>1, <1>2, <1>3, <1>4, <2>1, <2>2 DEF Built
  <2> QED  BY <1>1, <2>1, <2>3 DEF SheetInv, Stages, Early, ByCells, ByRange
<1>5. CASE range.height # 0
  <2>1. stage' = "copying" /\ nextExpected' = range.top /\ phase' = phase
    BY <1>5 DEF StartRange
  <2>2. /\ sheet \in [Rows -> Widths] /\ range = Spanned(sheet)  BY <1>2 DEF Ranged
  <2>3. UsedRows(sheet) # {}  BY <1>5, <2>2, SpanIs
  <2>4. /\ range.height \in Nat \ {0} /\ range.top \in Rows
        /\ \A r \in UsedRows(sheet) : r \in range.top..(range.top + range.height - 1)
    BY <2>2, <2>3, SpanIs
  <2>5. /\ queue' = <<>> /\ wire' = <<>> /\ DOMAIN queue' = {} /\ DOMAIN wire' = {}
        /\ highestSent' = NoRow /\ ref' = [n \in Serials |-> 0]
        /\ open' = FALSE /\ current' = 0 /\ values' = EmptyRow
        /\ interned' = 0 /\ defined' = 0 /\ read' = 0 /\ sheet' = sheet
    BY <1>1, <1>2 DEF NoRows, rowVars, stringVars, histVars
  <2>6. TypeOK'
    <3>1. /\ current' \in Rows /\ nextExpected' \in -1..(MaxRow + 1)
          /\ interned' \in 0..MaxCells /\ defined' \in 0..MaxCells /\ read' \in 0..MaxCells
      BY <2>1, <2>4, <2>5, Bounds DEF Rows
    <3>2. /\ values' \in Widths /\ sheet' \in [Rows -> Widths]
          /\ ref' \in [Serials -> 0..MaxCells]
      BY <2>2, <2>5, RowTypes, Bounds
    <3>3. queue' \in Seq(QueuedRow) /\ wire' \in Seq(SentRow)  BY <2>5
    <3> QED  BY <1>1, <2>1, <2>5, <3>1, <3>2, <3>3 DEF TypeOK
  <2>7. RangeMarks' /\ GapsTile' /\ Copies(queue, offset)' /\ Copies(wire, offset)'
        /\ Ascends(queue)' /\ Ascends(wire)'
        /\ \A i \in DOMAIN queue' : highestSent' < queue'[i].row
    BY <1>1, <2>1, <2>5 DEF RangeMarks, GapsTile, Copies, Ascends
  <2>8. AllCopied'
    <3> SUFFICES ASSUME NEW r \in Rows, NEW c \in Cols, sheet[r][c] # 0,
                        r < range.top + 0
                 PROVE  FALSE
      BY <1>1, <1>2, <2>5 DEF AllCopied
    <3>1. r \in UsedRows(sheet)  BY <1>2 DEF Ranged, UsedRows
    <3> QED  BY <2>4, <3>1 DEF Rows
  <2>9. ByRange'
    <3>1. range'.height > 0 /\ offset' \in 0..range'.height  BY <1>1, <1>2, <2>4
    <3> QED  BY <1>1, <1>3, <2>1, <2>5, <2>6, <2>7, <2>8, <3>1 DEF ByRange
  <2> QED  BY <2>1, <2>9 DEF SheetInv, Stages, Early, Built, ByCells
<1> QED  BY <1>4, <1>5

(* Nothing moves, but the client may go. *)
LEMMA StaysHolds ==
  ASSUME SheetInv, UNCHANGED <<bodyVars, rowVars, batchVars, stringVars, histVars>>,
         phase' = phase \/ (stage # "cells" /\ phase = "reading" /\ phase' = "gone")
  PROVE  SheetInv'
<1>1. /\ stage' = stage /\ header' = header /\ range' = range /\ offset' = offset
      /\ open' = open /\ current' = current /\ values' = values
      /\ queue' = queue /\ nextExpected' = nextExpected /\ highestSent' = highestSent
      /\ wire' = wire /\ interned' = interned /\ defined' = defined
      /\ read' = read /\ sheet' = sheet /\ ref' = ref
  BY DEF bodyVars, rowVars, batchVars, stringVars, histVars
<1>2. Early'  BY <1>1 DEF SheetInv, Early, NoRows
<1>3. Built'  BY <1>1 DEF SheetInv, Built, NoRows, Ranged, RangeHeader, FitsDense
<1>4. ByCells'
  <2> SUFFICES ASSUME stage = "cells"  PROVE ByCells'
    BY <1>1 DEF ByCells
  <2>1. /\ IInv /\ CellInv /\ RowsFilled
        /\ \E d \in Declared :
              header = [corners |-> d, total |-> DeclaredTotal(d[1], d[2], d[3], d[4])]
    BY DEF SheetInv, ByCells
  <2>2. UNCHANGED vars  BY <1>1 DEF vars, rowVars, batchVars, stringVars, histVars
  <2>3. IInv' /\ CellInv'  BY <2>1, <2>2, StepHolds, StepCells
  <2>4. Filled' = Filled  BY <1>1 DEF Filled
  <2>5. RowsFilled'  BY <2>1, <2>4, QuietFills
  <2> QED  BY <1>1, <2>1, <2>3, <2>5 DEF ByCells
<1>5. ByRange'
  <2> SUFFICES ASSUME stage = "copying"  PROVE ByRange'
    BY <1>1 DEF ByRange
  <2>1. /\ Ranged /\ range.height > 0 /\ FitsDense /\ header = RangeHeader
        /\ offset \in 0..range.height
        /\ TypeOK /\ ref = [n \in Serials |-> 0]
        /\ RangeMarks /\ GapsTile
        /\ Copies(queue, offset) /\ Copies(wire, offset) /\ Ascends(queue) /\ Ascends(wire)
        /\ \A i \in DOMAIN queue : highestSent < queue[i].row
        /\ AllCopied
        /\ phase = "ended" => queue = <<>> /\ offset = range.height
    BY DEF SheetInv, ByRange
  <2>2. TypeOK'  BY <1>1, <2>1 DEF TypeOK
  <2>3. Ranged' /\ FitsDense' /\ header' = RangeHeader'
    BY <1>1, <2>1 DEF Ranged, FitsDense, RangeHeader
  <2>4. /\ RangeMarks' /\ GapsTile' /\ Ascends(queue)' /\ Ascends(wire)'
        /\ Copies(queue, offset)' /\ Copies(wire, offset)' /\ AllCopied'
    BY <1>1, <2>1 DEF RangeMarks, GapsTile, Copies, Ascends, AllCopied, HoldsIn
  <2> QED  BY <1>1, <2>1, <2>2, <2>3, <2>4 DEF ByRange
<1> QED  BY <1>1, <1>2, <1>3, <1>4, <1>5 DEF SheetInv

LEMMA StreamCellsHolds ==
  ASSUME SheetInv, StreamCells
  PROVE  SheetInv'
<1>1. /\ stage = "cells" /\ Next /\ stage' = "cells" /\ header' = header
  BY DEF StreamCells, bodyVars
<1>2. /\ IInv /\ CellInv /\ RowsFilled
      /\ \E d \in Declared :
            header = [corners |-> d, total |-> DeclaredTotal(d[1], d[2], d[3], d[4])]
  BY <1>1 DEF SheetInv, ByCells
<1>3. IInv' /\ CellInv'  BY <1>1, <1>2, StepHolds, StepCells
<1>4. RowsFilled'  BY <1>1, <1>2, StepFills DEF IInv
<1>5. ByCells'  BY <1>1, <1>2, <1>3, <1>4 DEF ByCells
<1> QED  BY <1>1, <1>5 DEF SheetInv, Stages, Early, Built, ByRange

LEMMA StepSheet == SheetInv /\ [BodyNext]_allVars => SheetInv'
<1> SUFFICES ASSUME SheetInv, [BodyNext]_allVars  PROVE SheetInv'
  OBVIOUS
<1>0. Early /\ Built /\ ByCells /\ ByRange  BY DEF SheetInv
<1>1. ASSUME NEW selector, ResolveSheet(selector)  PROVE SheetInv'
  <2>1. /\ stage = "start" /\ phase = "reading" /\ header' = header /\ offset' = offset
        /\ stage' \in {"start", "resolved"}
        /\ UNCHANGED <<rowVars, batchVars, stringVars, histVars>>
        /\ phase' # "ended"
    BY <1>1, Zenon DEF ResolveSheet, At, EndsWith, vars
  <2> QED  BY <1>0, <2>1, EarlyStays
<1>2. ASSUME NEW reader, Checkout(reader)  PROVE SheetInv'
  <2>1. /\ stage = "resolved" /\ phase = "reading" /\ header' = header /\ offset' = offset
        /\ stage' \in {"resolved", "borrowed"}
        /\ UNCHANGED <<rowVars, batchVars, stringVars, histVars>>
        /\ phase' # "ended"
    BY <1>2, Zenon DEF Checkout, At, EndsWith, vars
  <2> QED  BY <1>0, <2>1, EarlyStays
<1>3. ASSUME NEW d \in Declared, OpenCells(d)  PROVE SheetInv'
  BY <1>3, OpenCellsHolds
<1>4. CASE FallBack
  <2>1. /\ stage = "borrowed" /\ phase = "reading" /\ header' = header /\ offset' = offset
        /\ stage' = "whole" /\ phase' = phase
        /\ UNCHANGED <<rowVars, batchVars, stringVars, histVars>>
    BY <1>4 DEF FallBack, At, vars
  <2> QED  BY <1>0, <2>1, EarlyStays
<1>5. ASSUME NEW found \in Grids, ReadRange(found)  PROVE SheetInv'
  BY <1>5, ReadRangeHolds
<1>6. CASE RangeFails
  <2>1. /\ stage = "whole" /\ header' = header /\ offset' = offset
        /\ stage' = "whole" /\ phase' = "failed"
        /\ UNCHANGED <<rowVars, batchVars, stringVars, histVars>>
    BY <1>6 DEF RangeFails, At, EndsWith, bodyVars
  <2> QED  BY <1>0, <2>1, EarlyStays
<1>7. CASE TooDense  BY <1>7, TooDenseHolds
<1>8. CASE StartRange  BY <1>8, StartRangeHolds
<1>9. CASE CopyRow
  <2>1. stage' = "copying"  BY <1>9 DEF CopyRow, At
  <2>2. ByRange'  BY <1>0, <1>9, CopyRowKeeps
  <2> QED  BY <2>1, <2>2 DEF SheetInv, Stages, Early, Built, ByCells
<1>10. CASE EndRange
  <2>1. stage' = "copying"  BY <1>10 DEF EndRange, At, bodyVars
  <2>2. ByRange'  BY <1>0, <1>10, EndRangeKeeps
  <2> QED  BY <2>1, <2>2 DEF SheetInv, Stages, Early, Built, ByCells
<1>11. CASE GoneEarly
  <2>1. /\ stage # "cells" /\ phase = "reading" /\ phase' = "gone"
        /\ UNCHANGED <<bodyVars, rowVars, batchVars, stringVars, histVars>>
    BY <1>11 DEF GoneEarly, ClientGone
  <2> QED  BY <2>1, StaysHolds
<1>12. CASE StreamCells  BY <1>12, StreamCellsHolds
<1>13. CASE UNCHANGED allVars
  <2>1. phase' = phase /\ UNCHANGED <<bodyVars, rowVars, batchVars, stringVars, histVars>>
    BY <1>13 DEF allVars, vars
  <2> QED  BY <2>1, StaysHolds
<1> QED
  BY <1>1, <1>2, <1>3, <1>4, <1>5, <1>6, <1>7, <1>8, <1>9, <1>10, <1>11, <1>12, <1>13
  DEF BodyNext

(* The invariant holds in every state of every stream of a sheet. *)
THEOREM SheetInvariance == BodySpec => []SheetInv
BY InitSheet, StepSheet, PTL DEF BodySpec
-----------------------------------------------------------------------------
(* What the invariant says of the wire and the header.                     *)

LEMMA Rectangle ==
  ASSUME NEW a \in Int, NEW b \in Int, NEW c \in Int, NEW d \in Int
  PROVE  Cardinality((a..b) \X (c..d)) =
            IF b < a \/ d < c THEN 0 ELSE (b - a + 1) * (d - c + 1)
<1>1. /\ IsFiniteSet(a..b) /\ Cardinality(a..b) = IF a > b THEN 0 ELSE b - a + 1
      /\ IsFiniteSet(c..d) /\ Cardinality(c..d) = IF c > d THEN 0 ELSE d - c + 1
  BY FS_Interval
<1>2. Cardinality((a..b) \X (c..d)) = Cardinality(a..b) * Cardinality(c..d)
  BY <1>1, FS_Product
<1>3. CASE b < a \/ d < c
  <2>1. /\ Cardinality(a..b) \in Nat /\ Cardinality(c..d) \in Nat
        /\ Cardinality(a..b) = 0 \/ Cardinality(c..d) = 0
    BY <1>1, <1>3
  <2>2. \A m, n \in Nat : m = 0 \/ n = 0 => m * n = 0  OBVIOUS
  <2> QED  BY <1>2, <1>3, <2>1, <2>2
<1>4. CASE ~(b < a \/ d < c)
  <2>1. Cardinality(a..b) = b - a + 1 /\ Cardinality(c..d) = d - c + 1
    BY <1>1, <1>4
  <2> QED  BY <1>2, <1>4, <2>1
<1> QED  BY <1>3, <1>4

(* RangeStarted says something, whichever way it comes about. *)
LEMMA HeaderSays ==
  /\ Ranged => RangeHeader # NotSent
  /\ \A d \in Declared : [corners |-> d, total |-> DeclaredTotal(d[1], d[2], d[3], d[4])]
                            # NotSent
<1>0. \A n \in Nat : n % Word # -1  BY DenseAssumption
<1>1. ASSUME Ranged  PROVE RangeHeader # NotSent
  <2>1. range.height = 0 \/ (range.height \in Nat /\ range.width \in Nat)
    BY <1>1, SpanIs DEF Ranged
  <2>2. CASE range.height = 0
    <3>1. RangeHeader.total = 0  BY <2>2 DEF RangeHeader
    <3> QED  BY <3>1 DEF NotSent
  <2>3. CASE range.height # 0
    <3>1. RangeHeader.total = (range.height * range.width) % Word  BY <2>3 DEF RangeHeader
    <3>2. range.height * range.width \in Nat  BY <2>1, <2>3
    <3>3. RangeHeader.total # -1  BY <1>0, <3>1, <3>2
    <3> QED  BY <3>3 DEF NotSent
  <2> QED  BY <2>2, <2>3
<1>2. ASSUME NEW d \in Declared
      PROVE  [corners |-> d, total |-> DeclaredTotal(d[1], d[2], d[3], d[4])] # NotSent
  <2>1. PICK a, b, c, e \in Nat : a = d[1] /\ b = d[2] /\ c = d[3] /\ e = d[4]
    BY DenseAssumption
  <2>2. DeclaredTotal(a, b, c, e) # -1
    <3>1. CASE c < a \/ e < b  BY <3>1 DEF DeclaredTotal
    <3>2. CASE ~(c < a \/ e < b)
      <4>1. c - a + 1 \in Nat /\ e - b + 1 \in Nat  BY <3>2
      <4>2. (c - a + 1) * (e - b + 1) \in Nat  BY <4>1
      <4> QED  BY <1>0, <3>2, <4>2 DEF DeclaredTotal
    <3> QED  BY <3>1, <3>2
  <2> QED  BY <2>1, <2>2 DEF NotSent
<1> QED  BY <1>1, <1>2

LEMMA InvRefused == SheetInv => RefusedBeforeStarted
<1> SUFFICES ASSUME SheetInv  PROVE RefusedBeforeStarted
  OBVIOUS
<1>1. CASE stage \in {"start", "resolved", "borrowed", "whole"}
  BY <1>1 DEF SheetInv, Early, NoRows, RefusedBeforeStarted
<1>2. CASE stage = "built"
  <2>1. wire = <<>> /\ Ranged  BY <1>2 DEF SheetInv, Built, NoRows
  <2>2. CASE phase = "ended"
    <3>1. header # NotSent  BY <1>2, <2>1, <2>2, HeaderSays DEF SheetInv, Built
    <3> QED  BY <2>1, <2>2, <3>1 DEF RefusedBeforeStarted, Statuses
  <2>3. CASE phase # "ended"
    <3>1. header = NotSent  BY <1>2, <2>3 DEF SheetInv, Built
    <3> QED  BY <2>1, <2>3, <3>1 DEF RefusedBeforeStarted
  <2> QED  BY <2>2, <2>3
<1>3. CASE stage = "cells"
  <2>1. phase \notin Statuses  BY <1>3 DEF SheetInv, ByCells, IInv, TypeOK, Statuses
  <2>2. header # NotSent  BY <1>3, HeaderSays DEF SheetInv, ByCells
  <2> QED  BY <2>1, <2>2 DEF RefusedBeforeStarted
<1>4. CASE stage = "copying"
  <2>1. phase \notin Statuses  BY <1>4 DEF SheetInv, ByRange, TypeOK, Statuses
  <2>2. header # NotSent  BY <1>4, HeaderSays DEF SheetInv, ByRange
  <2> QED  BY <2>1, <2>2 DEF RefusedBeforeStarted
<1> QED  BY <1>1, <1>2, <1>3, <1>4 DEF SheetInv, Stages

(* The corner and the size of a range, as numbers. *)
LEMMA SpanIsNumbers ==
  ASSUME Ranged
  PROVE  /\ range.top \in Nat /\ range.height \in Nat
         /\ range.left \in Nat /\ range.width \in Nat
         /\ range.height = 0 \/ range.width # 0
<1>1. sheet \in [Rows -> Widths] /\ range = Spanned(sheet)  BY DEF Ranged
<1>2. CASE UsedRows(sheet) = {}
  <2>1. range = NoExtent  BY <1>1, <1>2, SpanIs
  <2> QED  BY <2>1 DEF NoExtent
<1>3. CASE UsedRows(sheet) # {}
  <2>1. /\ range.top \in Rows /\ range.left \in Cols
        /\ range.height \in Nat \ {0} /\ range.width \in Nat \ {0}
    BY <1>1, <1>3, SpanIs
  <2> QED  BY <2>1, Bounds DEF Rows, Cols
<1> QED  BY <1>2, <1>3

(* The rows from column A to the last column of a range: what FitsDense    *)
(* multiplies is their number of cells.                                    *)
DenseCells(t, h, l, w) == Cardinality((t..(t + h - 1)) \X (0..(l + w - 1)))

LEMMA DenseSize ==
  ASSUME NEW t \in Nat, NEW h \in Nat, NEW l \in Nat, NEW w \in Nat, h = 0 \/ w # 0
  PROVE  /\ h * (l + w) \in Nat
         /\ DenseCells(t, h, l, w) = h * (l + w)
<1>1. DenseCells(t, h, l, w) =
        IF t + h - 1 < t \/ l + w - 1 < 0 THEN 0
        ELSE ((t + h - 1) - t + 1) * ((l + w - 1) - 0 + 1)
  <2>1. t + h - 1 \in Int /\ l + w - 1 \in Int /\ t \in Int /\ 0 \in Int  OBVIOUS
  <2> QED  BY <2>1, Rectangle DEF DenseCells
<1>2. CASE h = 0
  <2>1. t + h - 1 < t /\ h * (l + w) = 0  BY <1>2
  <2> QED  BY <1>1, <2>1
<1>3. CASE h # 0
  <2>1. /\ ~(t + h - 1 < t) /\ ~(l + w - 1 < 0)
        /\ (t + h - 1) - t + 1 = h /\ (l + w - 1) - 0 + 1 = l + w
    BY <1>3
  <2>2. h * (l + w) \in Nat  OBVIOUS
  <2> QED  BY <1>1, <2>1, <2>2
<1> QED  BY <1>2, <1>3

LEMMA InvBudget == SheetInv => RangeWithinBudget
<1> SUFFICES ASSUME SheetInv  PROVE RangeWithinBudget
  OBVIOUS
<1>1. CASE ~(stage = "copying" \/ (stage = "built" /\ phase = "resource exhausted"))
  BY <1>1 DEF RangeWithinBudget
<1>2. CASE stage = "copying" \/ (stage = "built" /\ phase = "resource exhausted")
  <2>1. /\ Ranged
        /\ stage = "copying" => FitsDense
        /\ stage = "built" => ~FitsDense
    BY <1>2 DEF SheetInv, Built, ByRange
  <2>2. PICK t, h, l, w \in Nat :
           t = range.top /\ h = range.height /\ l = range.left /\ w = range.width
    BY <2>1, SpanIsNumbers, Zenon
  <2>3. h = 0 \/ w # 0  BY <2>1, <2>2, SpanIsNumbers
  <2>4. PICK n \in Nat : n = h * (l + w)  BY <2>3, DenseSize
  <2>5. DenseCells(t, h, l, w) = n  BY <2>3, <2>4, DenseSize
  <2>6. FitsDense <=> Least(n, Word - 1) <= MaxDenseCells  BY <2>2, <2>4 DEF FitsDense
  <2>7. Word \in Nat \ {0} /\ MaxDenseCells \in 0..(Word - 1)  BY DenseAssumption
  <2>8. /\ stage = "copying" /\ MaxDenseCells < Word - 1 => n <= MaxDenseCells
        /\ stage = "built" => n > MaxDenseCells
    BY <2>1, <2>6, <2>7 DEF Least
  <2>9. Cardinality((range.top..(range.top + range.height - 1))
                    \X (0..(range.left + range.width - 1))) = n
    BY <2>2, <2>5, Zenon DEF DenseCells
  <2> QED  BY <2>8, <2>9 DEF RangeWithinBudget
<1> QED  BY <1>1, <1>2

LEMMA InvCounts == SheetInv => HeaderCounts
<1> SUFFICES ASSUME SheetInv, header # NotSent  PROVE HeaderCounts
  BY DEF HeaderCounts
<1>0. Word \in Nat \ {0}  BY DenseAssumption
<1>1. CASE stage \in {"start", "resolved", "borrowed", "whole"}
  BY <1>1 DEF SheetInv, Early
<1>2. CASE stage = "built"
  <2>1. Ranged /\ range.height = 0 /\ header = RangeHeader
    BY <1>2 DEF SheetInv, Built
  <2>2. UsedRows(sheet) = {}  BY <2>1, SpanIs DEF Ranged
  <2>3. header.corners = <<>> /\ header.total = 0  BY <2>1 DEF RangeHeader
  <2> QED  BY <2>2, <2>3 DEF HeaderCounts
<1>3. CASE stage = "cells"
  <2>1. PICK d \in Declared :
           header = [corners |-> d, total |-> DeclaredTotal(d[1], d[2], d[3], d[4])]
    BY <1>3 DEF SheetInv, ByCells
  <2>2. d \in Nat \X Nat \X Nat \X Nat  BY DenseAssumption
  <2>3. PICK a, b, c, e \in Nat : a = d[1] /\ b = d[2] /\ c = d[3] /\ e = d[4]
    BY <2>2
  <2>4. d # <<>>
    <3>1. d = <<a, b, c, e>>  BY <2>2, <2>3
    <3> QED  BY <3>1
  <2>5. DeclaredTotal(a, b, c, e) = Cardinality((a..c) \X (b..e)) % Word
    <3>1. Cardinality((a..c) \X (b..e)) =
             IF c < a \/ e < b THEN 0 ELSE (c - a + 1) * (e - b + 1)
      BY Rectangle
    <3>2. 0 % Word = 0  BY <1>0
    <3> QED  BY <3>1, <3>2 DEF DeclaredTotal
  <2>6. header.corners = d /\ header.total = DeclaredTotal(a, b, c, e)  BY <2>1, <2>3
  <2> QED  BY <1>3, <2>3, <2>4, <2>5, <2>6 DEF HeaderCounts
<1>4. CASE stage = "copying"
  <2>1. /\ Ranged /\ range.height > 0 /\ header = RangeHeader
        /\ Copies(wire, offset) /\ offset \in 0..range.height /\ wire \in Seq(SentRow)
    BY <1>4 DEF SheetInv, ByRange, TypeOK
  <2>2. sheet \in [Rows -> Widths] /\ range = Spanned(sheet)  BY <2>1 DEF Ranged
  <2>3. UsedRows(sheet) # {}  BY <2>1, <2>2, SpanIs
  <2>4. PICK t, h, l, w \in Nat :
           t = range.top /\ h = range.height /\ l = range.left /\ w = range.width
    <3>1. /\ range.top \in Rows /\ range.left \in Cols
          /\ range.height \in Nat \ {0} /\ range.width \in Nat \ {0}
      BY <2>2, <2>3, SpanIs
    <3>2. range.top \in Nat /\ range.height \in Nat /\ range.left \in Nat /\ range.width \in Nat
      BY <3>1, Bounds DEF Rows, Cols
    <3> QED  BY <3>2, Zenon
  <2>5. /\ h > 0 /\ w > 0
        /\ \A c \in UsedCols(sheet) : c \in l..(l + w - 1)
        /\ t + h - 1 \in Rows
    BY <2>2, <2>3, <2>4, SpanIs
  <2>6. header.corners = <<t, l, t + h - 1, l + w - 1>> /\ header.total = (h * w) % Word
    <3>1. ~(range.height = 0)  BY <2>4, <2>5
    <3>2. header = [corners |-> <<range.top, range.left, range.top + range.height - 1,
                                  range.left + range.width - 1>>,
                    total |-> (range.height * range.width) % Word]
      BY <2>1, <3>1, Zenon DEF RangeHeader
    <3>3. header = [corners |-> <<t, l, t + h - 1, l + w - 1>>, total |-> (h * w) % Word]
      BY <2>4, <3>2, Zenon
    <3> QED  BY <3>3
  <2>7. Cardinality((t..(t + h - 1)) \X (l..(l + w - 1))) = h * w
    <3>1. /\ ~(t + h - 1 < t) /\ ~(l + w - 1 < l)
          /\ (t + h - 1) - t + 1 = h /\ (l + w - 1) - l + 1 = w
      BY <2>5
    <3> QED  BY <3>1, Rectangle
  <2>8. ASSUME NEW i \in DOMAIN wire
        PROVE  /\ wire[i].row \in t..(t + h - 1)
               /\ \A c \in Cols : wire[i].vals[c] # 0 => c \in l..(l + w - 1)
    <3>1. /\ wire[i].row \in t..(t + offset - 1) /\ wire[i].vals = sheet[wire[i].row]
          /\ offset \in 0..h
      BY <2>1, <2>4 DEF Copies
    <3>2. wire[i].row \in t..(t + h - 1)  BY <3>1
    <3>3. wire[i].row \in Rows  BY <2>5, <3>2, Bounds DEF Rows
    <3>4. ASSUME NEW c \in Cols, wire[i].vals[c] # 0  PROVE c \in UsedCols(sheet)
      BY <2>1, <3>1, <3>3, <3>4 DEF UsedCols, UsedRows, Ranged
    <3> QED  BY <2>5, <3>2, <3>4
  <2> DEFINE d == <<t, l, t + h - 1, l + w - 1>>
  <2>9. d[1] = t /\ d[2] = l /\ d[3] = t + h - 1 /\ d[4] = l + w - 1 /\ d # <<>>
    OBVIOUS
  <2> HIDE DEF d
  <2>10. header.corners = d  BY <2>6 DEF d
  <2> QED  BY <2>6, <2>7, <2>8, <2>9, <2>10 DEF HeaderCounts
<1> QED  BY <1>1, <1>2, <1>3, <1>4 DEF SheetInv, Stages
(* A sheet none of whose rows is used holds nothing. *)
LEMMA UnusedIsEmpty ==
  ASSUME Ranged, range.height = 0
  PROVE  \A r \in Rows, c \in Cols : sheet[r][c] = 0
<1>1. sheet \in [Rows -> Widths] /\ range = Spanned(sheet)  BY DEF Ranged
<1>2. UsedRows(sheet) = {}  BY <1>1, SpanIs
<1>3. ASSUME NEW r \in Rows, NEW c \in Cols, sheet[r][c] # 0  PROVE FALSE
  <2>1. r \in UsedRows(sheet)  BY <1>3 DEF Ranged, UsedRows
  <2> QED  BY <1>2, <2>1
<1> QED  BY <1>3

(* Of a stream of cells that ended, the only row of its index is the row   *)
(* of the sheet.                                                           *)
LEMMA CellsEnded ==
  ASSUME TypeOK, NoCellLost, AllWithin(Filled, wire), phase = "ended"
  PROVE  /\ \A r \in Rows, c \in Cols : sheet[r][c] # 0 => Sent(r, c, sheet[r][c])
         /\ \A i \in DOMAIN wire :
              /\ wire[i].vals # EmptyRow
              /\ {j \in DOMAIN wire : wire[j].row = wire[i].row} = {i}
                    => wire[i].vals = sheet[wire[i].row]
<1>1. \A r \in Rows, c \in Cols : sheet[r][c] # 0 => Sent(r, c, sheet[r][c])
  BY DEF NoCellLost
<1>2. ASSUME NEW i \in DOMAIN wire
      PROVE  /\ wire[i].row \in Rows /\ wire[i].vals \in Widths
             /\ wire[i].vals # EmptyRow
             /\ \A c \in Cols : wire[i].vals[c] # 0 => sheet[wire[i].row][c] # 0
  <2>1. wire \in Seq(SentRow)  BY DEF TypeOK
  <2>2. wire[i] \in SentRow  BY <2>1, ElementOfSeq, LenProperties
  <2>3. wire[i].row \in Rows /\ wire[i].vals \in Widths  BY <2>2 DEF SentRow
  <2>4. Within(Filled, wire[i].row, wire[i].vals)  BY DEF AllWithin
  <2>5. PICK c \in Cols : wire[i].vals[c] # 0  BY <2>4 DEF Within
  <2>6. wire[i].vals # EmptyRow  BY <2>5 DEF EmptyRow
  <2>7. ASSUME NEW d \in Cols, wire[i].vals[d] # 0  PROVE sheet[wire[i].row][d] # 0
    <3>1. <<wire[i].row, d>> \in Filled  BY <2>4, <2>7 DEF Within
    <3> QED  BY <3>1 DEF Filled
  <2> QED  BY <2>3, <2>6, <2>7
<1>3. ASSUME NEW i \in DOMAIN wire,
             {j \in DOMAIN wire : wire[j].row = wire[i].row} = {i}
      PROVE  wire[i].vals = sheet[wire[i].row]
  <2>1. PICK r \in Rows : r = wire[i].row  BY <1>2
  <2>2. sheet[r] \in Widths /\ wire[i].vals \in Widths  BY <1>2 DEF TypeOK
  <2>3. ASSUME NEW c \in Cols  PROVE wire[i].vals[c] = sheet[r][c]
    <3>1. CASE sheet[r][c] = 0  BY <1>2, <2>1, <3>1
    <3>2. CASE sheet[r][c] # 0
      <4>1. PICK j \in DOMAIN wire : wire[j].row = r /\ wire[j].vals[c] = sheet[r][c]
        BY <1>1, <3>2 DEF Sent
      <4>2. j \in {k \in DOMAIN wire : wire[k].row = wire[i].row}  BY <2>1, <4>1
      <4>3. j = i  BY <1>3, <4>2
      <4> QED  BY <4>1, <4>3
    <3> QED  BY <3>1, <3>2
  <2>4. wire[i].vals = [c \in Cols |-> wire[i].vals[c]] /\ sheet[r] = [c \in Cols |-> sheet[r][c]]
    BY <2>2 DEF Widths
  <2> QED  BY <2>1, <2>3, <2>4
<1> QED  BY <1>1, <1>2, <1>3

(* Of a range copied to its end, every cell is sent. *)
LEMMA RangeEnded ==
  ASSUME ByRange, stage = "copying", phase = "ended", NEW r \in Rows, NEW c \in Cols,
         sheet[r][c] # 0
  PROVE  Sent(r, c, sheet[r][c])
<1>1. /\ Ranged /\ range.height > 0 /\ queue = <<>> /\ offset = range.height /\ AllCopied
  BY DEF ByRange
<1>2. sheet \in [Rows -> Widths] /\ range = Spanned(sheet)  BY <1>1 DEF Ranged
<1>3. r \in UsedRows(sheet)  BY <1>1 DEF Ranged, UsedRows
<1>4. range.top \in Rows /\ range.height \in Nat /\ r \in range.top..(range.top + range.height - 1)
  BY <1>2, <1>3, SpanIs
<1>5. r < range.top + offset  BY <1>1, <1>4 DEF Rows
<1>6. HoldsIn(queue, r, c, sheet[r][c]) \/ HoldsIn(wire, r, c, sheet[r][c])
  BY <1>1, <1>5 DEF AllCopied
<1>7. DOMAIN queue = {}  BY <1>1
<1> QED  BY <1>6, <1>7 DEF HoldsIn, Sent

LEMMA InvCells == SheetInv => SameCells
<1> SUFFICES ASSUME SheetInv, phase = "ended"  PROVE SameCells
  BY DEF SameCells
<1>1. CASE stage \in {"start", "resolved", "borrowed", "whole"}
  BY <1>1 DEF SheetInv, Early
<1>2. CASE stage = "built"
  <2>1. Ranged /\ range.height = 0 /\ wire = <<>>
    BY <1>2 DEF SheetInv, Built, NoRows
  <2>2. \A r \in Rows, c \in Cols : sheet[r][c] = 0  BY <2>1, UnusedIsEmpty
  <2>3. DOMAIN wire = {}  BY <2>1
  <2> QED  BY <1>2, <2>2, <2>3 DEF SameCells
<1>3. CASE stage = "cells"
  <2>1. TypeOK /\ NoCellLost /\ AllWithin(Filled, wire)
    BY <1>3 DEF SheetInv, ByCells, IInv, CellInv, RowsFilled
  <2>2. stage # "copying"  BY <1>3
  <2> QED  BY <2>1, <2>2, CellsEnded DEF SameCells
<1>4. CASE stage = "copying"
  <2>1. ByRange /\ Copies(wire, offset) /\ Ascends(wire)
    BY <1>4 DEF SheetInv, ByRange
  <2>2. \A r \in Rows, c \in Cols : sheet[r][c] # 0 => Sent(r, c, sheet[r][c])
    BY <1>4, <2>1, RangeEnded
  <2>3. \A i \in DOMAIN wire : wire[i].vals # EmptyRow /\ wire[i].vals = sheet[wire[i].row]
    BY <2>1 DEF Copies
  <2> QED  BY <2>1, <2>2, <2>3 DEF SameCells, Ascends
<1> QED  BY <1>1, <1>2, <1>3, <1>4 DEF SheetInv, Stages

LEMMA InvGaps == SheetInv => GapsTile
<1> SUFFICES ASSUME SheetInv  PROVE GapsTile
  OBVIOUS
<1>1. CASE stage \in {"start", "resolved", "borrowed", "whole", "built"}
  <2>1. wire = <<>>  BY <1>1 DEF SheetInv, Early, Built, NoRows
  <2>2. DOMAIN wire = {}  BY <2>1
  <2> QED  BY <2>2 DEF GapsTile
<1>2. CASE stage = "cells"  BY <1>2 DEF SheetInv, ByCells, IInv, Order
<1>3. CASE stage = "copying"  BY <1>3 DEF SheetInv, ByRange
<1> QED  BY <1>1, <1>2, <1>3 DEF SheetInv, Stages

(* The rows of a range hold no shared strings by id. *)
LEMMA InvStrings == SheetInv => StringsDefinedFirst
<1> SUFFICES ASSUME SheetInv  PROVE StringsDefinedFirst
  OBVIOUS
<1>1. CASE stage \in {"start", "resolved", "borrowed", "whole", "built"}
  <2>1. wire = <<>>  BY <1>1 DEF SheetInv, Early, Built, NoRows
  <2>2. DOMAIN wire = {}  BY <2>1
  <2> QED  BY <2>2 DEF StringsDefinedFirst
<1>2. CASE stage = "cells"  BY <1>2 DEF SheetInv, ByCells, CellInv
<1>3. CASE stage = "copying"
  <2>1. ref = [n \in Serials |-> 0] /\ wire \in Seq(SentRow)
    BY <1>3 DEF SheetInv, ByRange, TypeOK
  <2>2. ASSUME NEW i \in DOMAIN wire, NEW c \in Cols, wire[i].vals[c] # 0
        PROVE  ref[wire[i].vals[c]] <= wire[i].defs
    <3>1. wire[i] \in SentRow  BY <2>1, ElementOfSeq, LenProperties
    <3>2. wire[i].vals \in Widths /\ wire[i].defs \in 0..MaxCells  BY <3>1 DEF SentRow
    <3>3. wire[i].vals[c] \in Serials  BY <2>2, <3>2, Bounds DEF Widths, Serials
    <3>4. ref[wire[i].vals[c]] = 0  BY <2>1, <3>3
    <3> QED  BY <3>2, <3>4, Bounds
  <2> QED  BY <2>2 DEF StringsDefinedFirst
<1> QED  BY <1>1, <1>2, <1>3 DEF SheetInv, Stages

-----------------------------------------------------------------------------
(* What a stream of either path shows its client.                          *)

(* run_stream_worksheet_range refuses by status only before RangeStarted   *)
(* and any row, and no stream ends well without a header, for every        *)
(* selector, reader and sheet.                                             *)
THEOREM RefusedCorrect == BodySpec => []RefusedBeforeStarted
BY InvRefused, SheetInvariance, PTL

(* Streamed cell by cell (emit_incremental) or copied from a range         *)
(* (emit_dense), a stream that ends has sent every cell of the sheet at    *)
(* its absolute place and no row that holds nothing.                       *)
THEOREM SameCellsCorrect == BodySpec => []SameCells
BY InvCells, SheetInvariance, PTL

(* RangeStarted counts the cells between its corners, modulo 2^64, and a   *)
(* range's corners hold all its rows (declared_total_cells, range_header). *)
THEOREM HeaderCorrect == BodySpec => []HeaderCounts
BY InvCounts, SheetInvariance, PTL

(* check_dense_range lets a range through if and only if its rows, counted *)
(* from column A, are within the budget.                                   *)
THEOREM DenseBudgetCorrect == BodySpec => []RangeWithinBudget
BY InvBudget, SheetInvariance, PTL

(* On both paths the gap before a row is the unused rows since the last    *)
(* one sent, from the range's first row where the batcher was opened at it *)
(* (open_at), and none before a row that is sent again.                    *)
THEOREM SheetGapsCorrect == BodySpec => []GapsTile
BY InvGaps, SheetInvariance, PTL

(* On both paths the strings a row refers to are defined before it.        *)
THEOREM SheetStringsCorrect == BodySpec => []StringsDefinedFirst
BY InvStrings, SheetInvariance, PTL

-----------------------------------------------------------------------------
(***************************************************************************)
(* BenchWalk beside RowStream: the densifying walk.                        *)
(***************************************************************************)
RowUsed(s, r) == \E c \in Cols : s[r][c] # 0

WalkedRow == [row : Rows, vals : Seq(Nat)]

(* g is what calamine's range has of sheet s above row n, but for rows     *)
(* without a value at its end.                                             *)
RowIs(x, s) ==
    /\ Len(x.vals) \in 1..(MaxCol + 1)
    /\ \A c \in 1..Len(x.vals) : x.vals[c] = s[x.row][c - 1]
GridUpTo(g, s, n) ==
    /\ g \in Seq(WalkedRow)
    /\ \A i \in 1..Len(g) :
        g[i].row < n /\ RowIs(g[i], s) /\ (i > 1 => g[i].row = g[i - 1].row + 1)
    /\ g # <<>> => RowUsed(s, g[1].row) /\ RowUsed(s, g[Len(g)].row)
    /\ \A r \in Rows, c \in Cols :
        r < n /\ s[r][c] # 0 =>
            \E i \in 1..Len(g) : g[i].row = r /\ c < Len(g[i].vals)

(* The row being built is the sheet's, as far as it has values. *)
LineIs(l, s, r) ==
    /\ l \in Seq(Nat) /\ Len(l) \in 1..(MaxCol + 1)
    /\ \A c \in 1..Len(l) : l[c] = s[r][c - 1]
    /\ \A c \in Cols : s[r][c] # 0 => c < Len(l)

(* n rows without a value wait between g and the row. *)
Waits(g, n, row) ==
    IF g = <<>> THEN n = 0 ELSE g[Len(g)].row + n + 1 = row

NoneFrom(s, r) == \A q \in Rows : q >= r => ~RowUsed(s, q)

Standing ==
    /\ at \in Rows
    /\ LineIs(line, sheet, at)
    /\ hasValue <=> RowUsed(sheet, at)
    /\ GridUpTo(grid, sheet, at)
    /\ pendingEmpty \in Nat /\ Waits(grid, pendingEmpty, at)
    /\ started <=> grid # <<>>
    /\ NoneFrom(sheet, at + 1)
    /\ ~began => grid = <<>> /\ NoneFrom(sheet, 0)
WalkInv ==
    inOrder => /\ phase = "reading" => Standing
               /\ phase = "ended" => GridUpTo(grid, sheet, MaxRow + 1)

LEMMA BlankIs ==
  ASSUME NEW n \in Int
  PROVE  /\ Blank(n) \in Seq(Nat) /\ Len(Blank(n)) = (IF n < 0 THEN 0 ELSE n)
         /\ \A i \in 1..Len(Blank(n)) : Blank(n)[i] = 0
<1>1. CASE n >= 0  BY <1>1 DEF Blank
<1>2. CASE n < 0
  <2>1. 1..n = 1..0  BY <1>2
  <2>2. Blank(n) = [i \in 1..0 |-> 0]  BY <2>1, Zenon DEF Blank
  <2>3. Blank(n) = Blank(0)  BY <2>2, Zenon DEF Blank
  <2>4. Blank(0) = <<>>
    <3>1. ~\E i : i \in 1..0  OBVIOUS
    <3> QED  BY <3>1 DEF Blank
  <2>5. Blank(n) = <<>>  BY <2>3, <2>4, Zenon
  <2>6. Len(<<>>) = 0 /\ <<>> \in Seq(Nat) /\ ~\E i : i \in 1..0  OBVIOUS
  <2> QED  BY ONLY <1>2, <2>5, <2>6
<1> QED  BY <1>1, <1>2

LEMMA GridIs ==
  ASSUME NEW g, NEW s, NEW n, GridUpTo(g, s, n)
  PROVE  /\ g \in Seq(WalkedRow) /\ Len(g) \in Nat
         /\ g # <<>> => 1 \in 1..Len(g) /\ Len(g) \in 1..Len(g)
         /\ \A i \in 1..Len(g) :
              g[i].row \in Rows /\ g[i].vals \in Seq(Nat) /\ g[i].row < n
<1>1. g \in Seq(WalkedRow)  BY Zenon DEF GridUpTo
<1>2. \A i \in 1..Len(g) : g[i] \in WalkedRow  BY ONLY <1>1
<1>3. \A i \in 1..Len(g) : g[i].row \in Rows /\ g[i].vals \in Seq(Nat)
  BY ONLY <1>2 DEF WalkedRow
<1>4. \A i \in 1..Len(g) : g[i].row < n  BY Zenon DEF GridUpTo
<1>5. Len(g) \in Nat /\ (g # <<>> => 1 \in 1..Len(g) /\ Len(g) \in 1..Len(g))
  BY ONLY <1>1
<1> QED  BY <1>1, <1>3, <1>4, <1>5, Zenon

LEMMA GridAscends ==
  ASSUME NEW g, NEW s, NEW n, GridUpTo(g, s, n), NEW j \in 1..Len(g)
  PROVE  g[j].row = g[1].row + j - 1
<1> DEFINE L == Len(g)
           S == {k \in 0..L : k > 0 => g[k].row = g[1].row + k - 1}
<1>1. L \in Nat /\ 1 \in 1..L /\ \A i \in 1..L : g[i].row \in Nat
  <2>1. g # <<>> /\ \A i \in 1..L : g[i].row \in Rows  BY GridIs
  <2> QED  BY <2>1, GridIs, SizeAssumption DEF Rows
<1>2. \A i \in 1..L : i > 1 => g[i].row = g[i - 1].row + 1
  BY Zenon DEF GridUpTo
<1> HIDE DEF L
<1>3. 0 \in S  BY <1>1
<1>4. \A k \in 1..L : k - 1 \in S => k \in S
  <2> SUFFICES ASSUME NEW k \in 1..L, k - 1 \in S  PROVE k \in S
    OBVIOUS
  <2>1. k \in 0..L /\ k > 0  BY <1>1
  <2>2. CASE k = 1  BY <1>1, <2>1, <2>2
  <2>3. CASE k # 1
    <3>1. k - 1 \in 1..L /\ k > 1  BY <1>1, <2>1, <2>3
    <3>2. g[k - 1].row = g[1].row + (k - 1) - 1  BY <3>1
    <3>3. g[k].row = g[k - 1].row + 1  BY <1>2, <3>1
    <3>4. g[1].row \in Nat /\ g[k - 1].row \in Nat /\ k \in Nat
      BY <1>1, <2>1, <3>1
    <3>5. g[k].row = g[1].row + k - 1  BY ONLY <3>2, <3>3, <3>4
    <3> QED  BY <2>1, <3>5
  <2> QED  BY <2>2, <2>3
<1> HIDE DEF S
<1>5. j \in S
  <2>1. \A k \in 0..L : k \in S  BY <1>1, <1>3, <1>4, Climbs
  <2>2. j \in 0..L  BY <1>1 DEF L
  <2> QED  BY <2>1, <2>2
<1>6. j > 0  OBVIOUS
<1> QED  BY <1>5, <1>6 DEF S

(* Sheets that are the same above row n have the same grid there. *)
LEMMA GridKept ==
  ASSUME NEW g, NEW s, NEW t, NEW n, GridUpTo(g, s, n),
         \A r \in Rows : r < n => s[r] = t[r]
  PROVE  GridUpTo(g, t, n)
<1>1. g \in Seq(WalkedRow)  BY Zenon DEF GridUpTo
<1>2. \A i \in 1..Len(g) : g[i].row \in Rows /\ g[i].row < n
  BY GridIs, Zenon
<1>3. \A i \in 1..Len(g) : s[g[i].row] = t[g[i].row]  BY <1>2, Zenon
<1>4. \A i \in 1..Len(g) :
        g[i].row < n /\ RowIs(g[i], t) /\ (i > 1 => g[i].row = g[i - 1].row + 1)
  <2>1. \A i \in 1..Len(g) : RowIs(g[i], s)
                         /\ (i > 1 => g[i].row = g[i - 1].row + 1)
    BY Zenon DEF GridUpTo
  <2>2. \A i \in 1..Len(g) : RowIs(g[i], t)
    BY <1>3, <2>1, Zenon DEF RowIs
  <2> QED  BY <1>2, <2>1, <2>2, Zenon
<1>5. g # <<>> => RowUsed(t, g[1].row) /\ RowUsed(t, g[Len(g)].row)
  <2> SUFFICES ASSUME g # <<>>
               PROVE  RowUsed(t, g[1].row) /\ RowUsed(t, g[Len(g)].row)
    OBVIOUS
  <2>1. 1 \in 1..Len(g) /\ Len(g) \in 1..Len(g)  BY GridIs
  <2>2. RowUsed(s, g[1].row) /\ RowUsed(s, g[Len(g)].row)
    BY Zenon DEF GridUpTo
  <2> QED  BY <1>3, <2>1, <2>2, Zenon DEF RowUsed
<1>6. \A r \in Rows, c \in Cols :
        r < n /\ t[r][c] # 0 =>
            \E i \in 1..Len(g) : g[i].row = r /\ c < Len(g[i].vals)
  <2>1. \A r \in Rows, c \in Cols : r < n => s[r][c] = t[r][c]
    BY Zenon
  <2>2. \A r \in Rows, c \in Cols :
          r < n /\ s[r][c] # 0 =>
              \E i \in 1..Len(g) : g[i].row = r /\ c < Len(g[i].vals)
    BY Zenon DEF GridUpTo
  <2> SUFFICES ASSUME NEW r \in Rows, NEW c \in Cols, r < n, t[r][c] # 0
               PROVE  \E i \in 1..Len(g) : g[i].row = r /\ c < Len(g[i].vals)
    BY Zenon
  <2>3. s[r][c] # 0  BY <2>1, Zenon
  <2> QED  BY <2>2, <2>3, Zenon
<1> QED  BY <1>1, <1>4, <1>5, <1>6, Zenon DEF GridUpTo

(* Rows without a value below do not belong to it. *)
LEMMA GridSkips ==
  ASSUME NEW g, NEW s, NEW n \in Nat, NEW m \in Nat, n <= m, GridUpTo(g, s, n),
         \A r \in Rows : n <= r /\ r < m => ~RowUsed(s, r)
  PROVE  GridUpTo(g, s, m)
<1>1. g \in Seq(WalkedRow)  BY Zenon DEF GridUpTo
<1>2. \A i \in 1..Len(g) : g[i].row \in Rows /\ g[i].row < n
  BY GridIs, Zenon
<1>3. \A i \in 1..Len(g) : g[i].row < m
  BY ONLY <1>2, n \in Nat, m \in Nat, n <= m, SizeAssumption DEF Rows
<1>4. \A r \in Rows, c \in Cols :
        r < m /\ s[r][c] # 0 =>
            \E i \in 1..Len(g) : g[i].row = r /\ c < Len(g[i].vals)
  <2> SUFFICES ASSUME NEW r \in Rows, NEW c \in Cols, r < m, s[r][c] # 0
               PROVE  \E i \in 1..Len(g) : g[i].row = r /\ c < Len(g[i].vals)
    BY Zenon
  <2>1. RowUsed(s, r)  BY Zenon DEF RowUsed
  <2>2. ~(n <= r)  BY <2>1
  <2>3. r < n  BY <2>2, SizeAssumption DEF Rows
  <2> QED  BY <2>3, Zenon DEF GridUpTo
<1> QED  BY <1>1, <1>3, <1>4, Zenon DEF GridUpTo

(* A row with a value brings the ones that waited for it. *)
LEMMA GridGrows ==
  ASSUME NEW g, NEW s \in [Rows -> Widths], NEW n \in Rows, NEW k \in Nat,
         NEW l, GridUpTo(g, s, n), Waits(g, k, n), LineIs(l, s, n),
         RowUsed(s, n), NEW rel,
         rel = Append([i \in 1..k |-> [row |-> n - k + i - 1,
                                       vals |-> Blank(Len(l))]],
                      [row |-> n, vals |-> l])
  PROVE  /\ GridUpTo(g \o rel, s, n + 1)
         /\ g \o rel # <<>> /\ Waits(g \o rel, 0, n + 1)
<1> DEFINE L == Len(g)
           b == Blank(Len(l))
           gap(i) == [row |-> n - k + i - 1, vals |-> b]
           x == [row |-> n, vals |-> l]
           h == g \o rel
<1>1. g \in Seq(WalkedRow) /\ L \in Nat /\ n \in Nat
  BY GridIs, SizeAssumption DEF Rows
<1>2. l \in Seq(Nat) /\ Len(l) \in 1..(MaxCol + 1) /\ Len(l) \in Nat
  BY SizeAssumption DEF LineIs
<1>3. b \in Seq(Nat) /\ Len(b) = Len(l) /\ \A c \in 1..Len(b) : b[c] = 0
  BY ONLY <1>2, BlankIs
<1> HIDE DEF b
<1>3a. g # <<>> => \A j \in 1..L : g[j].row \in Nat /\ g[j].row <= g[L].row
  <2> SUFFICES ASSUME g # <<>>, NEW j \in 1..L
               PROVE  g[j].row \in Nat /\ g[j].row <= g[L].row
    OBVIOUS
  <2>1. g[j].row \in Nat /\ g[1].row \in Nat
    BY GridIs, SizeAssumption DEF Rows
  <2>2. g[j].row = g[1].row + j - 1  BY GridAscends
  <2>3. g[L].row = g[1].row + L - 1
    <3>1. L \in 1..Len(g)  BY GridIs
    <3> QED  BY <3>1, GridAscends
  <2> QED  BY <1>1, <2>1, <2>2, <2>3, SMTT(60)
<1>3b. k = 0 \/ (g # <<>> /\ g[L].row \in Nat /\ g[L].row + k + 1 = n)
  BY GridIs, <1>3a DEF Waits
<1>3c. \A r \in Rows, c \in Cols :
         r < n /\ s[r][c] # 0 =>
            \E i \in 1..L : g[i].row = r /\ c < Len(g[i].vals)
  BY Zenon DEF GridUpTo
(* The rows that waited are in the sheet and hold nothing. *)
<1>4. \A i \in 1..k : gap(i) \in WalkedRow /\ gap(i).row < n
                      /\ RowIs(gap(i), s)
  <2> SUFFICES ASSUME NEW i \in 1..k
               PROVE  gap(i) \in WalkedRow /\ gap(i).row < n
                      /\ RowIs(gap(i), s)
    OBVIOUS
  <2> DEFINE r == n - k + i - 1
  <2>1. g # <<>> /\ g[L].row \in Nat /\ g[L].row + k + 1 = n  BY <1>3b
  <2>2. r \in Rows /\ r < n /\ r > g[L].row /\ r \in Nat
    BY <1>1, <2>1, SizeAssumption DEF Rows
  <2>3. gap(i) = [row |-> r, vals |-> b]  OBVIOUS
  <2> HIDE DEF r
  <2>4. ~\E j \in 1..L : g[j].row = r
    <3> SUFFICES ASSUME NEW j \in 1..L, g[j].row = r  PROVE FALSE
      OBVIOUS
    <3> QED  BY <1>3a, <2>1, <2>2
  <2>5. \A c \in Cols : s[r][c] = 0  BY <1>3c, <2>2, <2>4, Zenon
  <2>6. RowIs(gap(i), s)
    <3>1. Len(b) \in 1..(MaxCol + 1) /\ \A c \in 1..Len(b) : c - 1 \in Cols
      BY <1>2, <1>3, SizeAssumption DEF Cols
    <3>2. \A c \in 1..Len(b) : b[c] = s[r][c - 1]  BY <1>3, <2>5, <3>1
    <3> QED  BY <2>3, <3>1, <3>2 DEF RowIs
  <2>7. gap(i) \in WalkedRow  BY <1>3, <2>2, <2>3 DEF WalkedRow
  <2>8. gap(i).row = r  BY <2>3
  <2> QED  BY <2>2, <2>6, <2>7, <2>8
<1>5. x \in WalkedRow /\ RowIs(x, s)
  <2>1. x.row = n /\ x.vals = l  OBVIOUS
  <2>2. RowIs(x, s)  BY <2>1, Zenon DEF RowIs, LineIs
  <2> QED  BY <1>2, <2>2 DEF WalkedRow
<1> DEFINE gaps == [i \in 1..k |-> gap(i)]
<1>6. /\ h \in Seq(WalkedRow) /\ Len(h) = L + k + 1
      /\ \A i \in 1..L : h[i] = g[i]
      /\ \A i \in 1..k : h[L + i] = gap(i)
      /\ h[L + k + 1] = x
  <2>1. rel = Append(gaps, x)  BY DEF b
  <2>2. gaps \in Seq(WalkedRow) /\ Len(gaps) = k
        /\ \A i \in 1..k : gaps[i] = gap(i)
    <3>1. gaps \in [1..k -> WalkedRow]
      <4>1. \A i \in 1..k : gap(i) \in WalkedRow  BY <1>4
      <4> HIDE DEF gap
      <4> QED  BY <4>1
    <3>3. \A i \in 1..k : gaps[i] = gap(i)  BY Zenon
    <3>4. DOMAIN gaps = 1..k  BY Zenon
    <3> HIDE DEF gaps
    <3>2. gaps \in Seq(WalkedRow)  BY ONLY <3>1, k \in Nat
    <3>5. Len(gaps) = k  BY ONLY <3>2, <3>4, k \in Nat
    <3> QED  BY <3>2, <3>3, <3>5
  <2> HIDE DEF gaps, gap, x
  <2>3. /\ rel \in Seq(WalkedRow) /\ Len(rel) = k + 1
        /\ \A i \in 1..k : rel[i] = gaps[i]
        /\ rel[k + 1] = x
    BY ONLY <1>5, <2>1, <2>2, k \in Nat
  <2>4. /\ h \in Seq(WalkedRow) /\ Len(h) = L + (k + 1)
        /\ \A i \in 1..L : h[i] = g[i]
        /\ \A i \in 1..(k + 1) : h[L + i] = rel[i]
    BY ONLY <1>1, <2>3, k \in Nat
  <2>5. L + (k + 1) = L + k + 1 /\ k + 1 \in 1..(k + 1)
        /\ \A i \in 1..k : i \in 1..(k + 1)
    BY ONLY <1>1, k \in Nat
  <2>6. \A i \in 1..k : h[L + i] = gap(i)  BY <2>2, <2>3, <2>4, <2>5,
                                              ZenonT(60)
  <2>7. h[L + k + 1] = x  BY <2>3, <2>4, <2>5, Zenon
  <2> QED  BY <2>4, <2>5, <2>6, <2>7, Zenon
<1> HIDE DEF h, gaps
<1>7. \A i \in 1..Len(h) :
        \/ i \in 1..L /\ h[i] = g[i]
        \/ i - L \in 1..k /\ h[i] = gap(i - L)
        \/ i = L + k + 1 /\ h[i] = x
  <2> SUFFICES ASSUME NEW i \in 1..Len(h)
               PROVE  \/ i \in 1..L /\ h[i] = g[i]
                      \/ i - L \in 1..k /\ h[i] = gap(i - L)
                      \/ i = L + k + 1 /\ h[i] = x
    OBVIOUS
  <2> HIDE DEF L, gap, x
  <2>4. L \in Nat /\ i \in 1..(L + k + 1)
    <3>1. Len(h) = L + k + 1  BY <1>6
    <3> QED  BY <1>1, <3>1
  <2>1. i \in 1..L \/ i - L \in 1..k \/ i = L + k + 1
    BY ONLY <2>4, k \in Nat
  <2>2. L + (i - L) = i  BY ONLY <2>4, k \in Nat
  <2>3. i - L \in 1..k => h[i] = gap(i - L)  BY <1>6, <2>2
  <2> QED  BY <1>6, <2>1, <2>3
<1>8. \A i \in 1..Len(h) : h[i].row < n + 1 /\ RowIs(h[i], s)
  <2> SUFFICES ASSUME NEW i \in 1..Len(h)
               PROVE  h[i].row < n + 1 /\ RowIs(h[i], s)
    OBVIOUS
  <2>1. \A j \in 1..L : g[j].row \in Nat /\ g[j].row < n /\ RowIs(g[j], s)
    <3>1. \A j \in 1..L : RowIs(g[j], s)  BY Zenon DEF GridUpTo
    <3>2. \A j \in 1..L : g[j].row \in Rows /\ g[j].row < n  BY GridIs
    <3> QED  BY <3>1, <3>2, SizeAssumption DEF Rows
  <2>2. CASE i \in 1..L /\ h[i] = g[i]
    <3>1. g[i].row \in Nat /\ g[i].row < n /\ RowIs(g[i], s)  BY <2>1, <2>2
    <3>2. g[i].row < n + 1  BY ONLY <1>1, <3>1
    <3> QED  BY <2>2, <3>1, <3>2
  <2>3. CASE i - L \in 1..k /\ h[i] = gap(i - L)
    <3>1. gap(i - L) \in WalkedRow /\ gap(i - L).row < n
          /\ RowIs(gap(i - L), s)
      BY <1>4, <2>3
    <3>2. gap(i - L).row \in Nat  BY <3>1, SizeAssumption DEF WalkedRow, Rows
    <3> HIDE DEF gap
    <3> QED  BY <1>1, <2>3, <3>1, <3>2
  <2>4. CASE h[i] = x
    <3>1. x.row = n  OBVIOUS
    <3> HIDE DEF x
    <3> QED  BY <1>1, <1>5, <2>4, <3>1
  <2> QED  BY <1>7, <2>2, <2>3, <2>4
<1>9. \A i \in 1..Len(h) : i > 1 => h[i].row = h[i - 1].row + 1
  <2>1. \A i \in 1..Len(h) : h[i].row =
          IF i <= L THEN g[i].row ELSE n - k + (i - L) - 1
    <3> SUFFICES ASSUME NEW i \in 1..Len(h)
                 PROVE  h[i].row = IF i <= L THEN g[i].row
                                   ELSE n - k + (i - L) - 1
      OBVIOUS
    <3>1. CASE i \in 1..L /\ h[i] = g[i]  BY <1>1, <3>1
    <3>2. CASE i - L \in 1..k /\ h[i] = gap(i - L)
      <4>1. ~(i <= L)  BY <1>1, <3>2
      <4> QED  BY <3>2, <4>1
    <3>3. CASE i = L + k + 1 /\ h[i] = x
      <4>1. ~(i <= L) /\ n - k + (i - L) - 1 = n  BY <1>1, <3>3
      <4> QED  BY <3>3, <4>1
    <3> QED  BY <1>7, <3>1, <3>2, <3>3
  <2>2. \A i \in 1..L : i > 1 => g[i].row = g[i - 1].row + 1
    BY Zenon DEF GridUpTo
  <2>3. L = 0 => k = 0  BY <1>1 DEF Waits
  <2>4. L # 0 => g[L].row \in Nat /\ g[L].row + k + 1 = n
    <3>1. L # 0 => g # <<>>  OBVIOUS
    <3> QED  BY <3>1, GridIs, <1>3a DEF Waits
  <2> SUFFICES ASSUME NEW i \in 1..Len(h), i > 1
               PROVE  h[i].row = h[i - 1].row + 1
    OBVIOUS
  <2>5. i - 1 \in 1..Len(h) /\ i \in Nat /\ i <= L + k + 1
    BY ONLY <1>1, <1>6, k \in Nat, i \in 1..Len(h), i > 1
  <2> HIDE DEF L
  <2>6. CASE i <= L
    <3>1. i \in 1..L /\ i - 1 <= L  BY <1>1, <2>5, <2>6
    <3>2. h[i].row = g[i].row /\ h[i - 1].row = g[i - 1].row
      BY <2>1, <2>5, <2>6, <3>1
    <3>3. g[i].row = g[i - 1].row + 1  BY <2>2, <3>1
    <3> QED  BY <3>2, <3>3
  <2>7. CASE i = L + 1
    <3>1. L # 0 /\ i - 1 = L /\ ~(i <= L) /\ L <= L  BY <1>1, <2>5, <2>7
    <3>2. h[i].row = n - k + (i - L) - 1 /\ h[i - 1].row = g[L].row
      <4>1. h[i].row = n - k + (i - L) - 1  BY <2>1, <3>1, Zenon
      <4>2. h[i - 1].row = g[i - 1].row  BY <2>1, <2>5, <3>1, Zenon
      <4> QED  BY <3>1, <4>1, <4>2, Zenon
    <3>3. n - k + (i - L) - 1 = n - k
      BY ONLY <1>1, <2>7, k \in Nat
    <3>4. g[L].row + 1 = n - k
      <4>1. g[L].row \in Nat /\ g[L].row + k + 1 = n  BY <2>4, <3>1
      <4> QED  BY ONLY <1>1, <4>1, k \in Nat, SMTT(60)
    <3> QED  BY <3>2, <3>3, <3>4
  <2>8. CASE i > L + 1
    <3>1. ~(i <= L) /\ ~(i - 1 <= L)  BY <1>1, <2>5, <2>8
    <3>2. h[i].row = n - k + (i - L) - 1
          /\ h[i - 1].row = n - k + ((i - 1) - L) - 1
      BY <2>1, <2>5, <3>1
    <3> QED  BY <1>1, <2>5, <3>2
  <2> QED  BY <1>1, <2>5, <2>6, <2>7, <2>8
<1>10. RowUsed(s, h[1].row) /\ RowUsed(s, h[Len(h)].row)
  <2>1. h[Len(h)].row = n  BY <1>6
  <2>2. CASE g = <<>>
    <3>1. Len(h) = 1  BY <1>6, <2>2 DEF Waits
    <3> QED  BY <2>1, <3>1
  <2>3. CASE g # <<>>
    <3>1. 1 \in 1..L  BY <2>3, GridIs
    <3>2. RowUsed(s, g[1].row)  BY <2>3, Zenon DEF GridUpTo
    <3> QED  BY <1>6, <2>1, <3>1, <3>2
  <2> QED  BY <2>2, <2>3
<1>11. \A r \in Rows, c \in Cols :
        r < n + 1 /\ s[r][c] # 0 =>
            \E i \in 1..Len(h) : h[i].row = r /\ c < Len(h[i].vals)
  <2> SUFFICES ASSUME NEW r \in Rows, NEW c \in Cols, r < n + 1, s[r][c] # 0
               PROVE  \E i \in 1..Len(h) : h[i].row = r /\ c < Len(h[i].vals)
    OBVIOUS
  <2>1. r < n \/ r = n  BY <1>1, SizeAssumption DEF Rows
  <2>2. CASE r < n
    <3>1. PICK i \in 1..L : g[i].row = r /\ c < Len(g[i].vals)
      BY <1>3c, <2>2
    <3>2. i \in 1..Len(h) /\ h[i] = g[i]  BY <1>1, <1>6
    <3> QED  BY <3>1, <3>2
  <2>3. CASE r = n
    <3>1. c < Len(l)  BY <2>3, Zenon DEF LineIs
    <3>2. L + k + 1 \in 1..Len(h)  BY <1>1, <1>6
    <3>3. h[L + k + 1].row = r /\ c < Len(h[L + k + 1].vals)
      BY <1>6, <2>3, <3>1
    <3> QED  BY <3>2, <3>3
  <2> QED  BY <2>1, <2>2, <2>3
<1>12. h # <<>> /\ Waits(h, 0, n + 1)
  <2>1. h # <<>>  BY <1>1, <1>6
  <2>2. h[Len(h)].row = n  BY <1>6
  <2> QED  BY <1>1, <2>1, <2>2 DEF Waits
<1>13. GridUpTo(h, s, n + 1)
  BY <1>6, <1>8, <1>9, <1>10, <1>11, Zenon DEF GridUpTo
<1> QED  BY <1>12, <1>13 DEF h

LEMMA BlankLine ==
  ASSUME NEW n \in 1..(MaxCol + 1), NEW s, NEW r, ~RowUsed(s, r)
  PROVE  LineIs(Blank(n), s, r)
<1>1. n \in Nat /\ n \in Int /\ ~(n < 0)  BY SizeAssumption
<1>2. /\ Blank(n) \in Seq(Nat) /\ Len(Blank(n)) = n
      /\ \A i \in 1..n : Blank(n)[i] = 0
  BY ONLY <1>1, BlankIs
<1>3. \A c \in Cols : s[r][c] = 0  BY Zenon DEF RowUsed
<1>4. \A c \in 1..n : c - 1 \in Cols  BY SizeAssumption DEF Cols
<1>5. \A c \in 1..n : s[r][c - 1] = 0  BY <1>3, <1>4, Zenon
<1> DEFINE b == Blank(n)
<1> HIDE DEF b
<1>6. b \in Seq(Nat) /\ Len(b) = n /\ \A i \in 1..n : b[i] = 0
  BY <1>2 DEF b
<1>7. Len(b) \in 1..(MaxCol + 1) /\ \A c \in 1..Len(b) : b[c] = s[r][c - 1]
  BY <1>5, <1>6
<1>8. LineIs(b, s, r)  BY <1>3, <1>6, <1>7, Zenon DEF LineIs
<1> QED  BY <1>8 DEF b

(* A cell lands in its row, which grows up to it. *)
LEMMA LineGrows ==
  ASSUME NEW s \in [Rows -> Widths], NEW t, NEW row \in Rows, NEW col \in Cols,
         NEW v \in 0..MaxCells, NEW f, LineIs(f, s, row),
         t[row] = [s[row] EXCEPT ![col] = v]
  PROVE  LineIs([(f \o Blank(col + 1 - Len(f))) EXCEPT ![col + 1] = v], t, row)
<1> DEFINE b == Blank(col + 1 - Len(f))
           h == f \o b
           l == [h EXCEPT ![col + 1] = v]
<1>1. /\ f \in Seq(Nat) /\ Len(f) \in Nat /\ Len(f) \in 1..(MaxCol + 1)
      /\ \A c \in 1..Len(f) : f[c] = s[row][c - 1]
      /\ \A c \in Cols : s[row][c] # 0 => c < Len(f)
  BY SizeAssumption DEF LineIs
<1>2. col \in Nat /\ col + 1 - Len(f) \in Int /\ v \in Nat
  BY <1>1, SizeAssumption DEF Cols
<1>3. /\ b \in Seq(Nat)
      /\ Len(b) = (IF col + 1 - Len(f) < 0 THEN 0 ELSE col + 1 - Len(f))
      /\ \A i \in 1..Len(b) : b[i] = 0
  BY ONLY <1>2, BlankIs
<1> HIDE DEF b
<1>4. /\ h \in Seq(Nat) /\ Len(h) = Len(f) + Len(b)
      /\ \A i \in 1..Len(f) : h[i] = f[i]
      /\ \A i \in 1..Len(b) : h[Len(f) + i] = b[i]
  <2>1. f \in Seq(Nat) /\ b \in Seq(Nat)  BY <1>1, <1>3
  <2> QED  BY ONLY <2>1
<1>5. /\ Len(h) = (IF col + 1 > Len(f) THEN col + 1 ELSE Len(f))
      /\ Len(h) \in Nat /\ Len(h) \in 1..(MaxCol + 1) /\ Len(f) <= Len(h)
      /\ col + 1 \in 1..Len(h)
  BY ONLY <1>1, <1>2, <1>3, <1>4, SizeAssumption, col \in Cols DEF Cols
<1>6. \A i \in 1..Len(h) : i \in 1..Len(f) \/ i - Len(f) \in 1..Len(b)
  BY ONLY <1>1, <1>3, <1>4, <1>5
<1>7. \A i \in 1..Len(h) : i - 1 \in Cols
  BY ONLY <1>5, SizeAssumption DEF Cols
<1>8. \A i \in 1..Len(h) : h[i] = s[row][i - 1]
  <2> SUFFICES ASSUME NEW i \in 1..Len(h)  PROVE h[i] = s[row][i - 1]
    OBVIOUS
  <2> HIDE DEF h
  <2>1. CASE i \in 1..Len(f)  BY <1>1, <1>4, <2>1
  <2>2. CASE i - Len(f) \in 1..Len(b)
    <3>1. Len(f) + (i - Len(f)) = i /\ ~(i - 1 < Len(f))
      BY ONLY <1>1, <1>5, <2>2, i \in 1..Len(h)
    <3>2. h[i] = 0  BY <1>3, <1>4, <2>2, <3>1
    <3>3. s[row][i - 1] = 0  BY <1>1, <1>7, <3>1
    <3> QED  BY <3>2, <3>3
  <2> QED  BY <1>6, <2>1, <2>2
<1>9. /\ l \in Seq(Nat) /\ Len(l) = Len(h)
      /\ \A i \in 1..Len(h) : l[i] = IF i = col + 1 THEN v ELSE h[i]
  <2> HIDE DEF h
  <2> QED  BY ONLY <1>2, <1>4, <1>5 DEF l
<1> HIDE DEF h, l
<1>10. s[row] \in Widths  OBVIOUS
<1>11. \A c \in Cols : t[row][c] = IF c = col THEN v ELSE s[row][c]
  BY <1>10 DEF Widths
<1>12. \A i \in 1..Len(l) : l[i] = t[row][i - 1]
  <2> SUFFICES ASSUME NEW i \in 1..Len(h)  PROVE l[i] = t[row][i - 1]
    BY <1>9
  <2>1. i - 1 \in Cols /\ (i = col + 1 <=> i - 1 = col)
    <3>1. i \in Nat  BY ONLY <1>5, i \in 1..Len(h)
    <3> QED  BY ONLY <1>2, <1>7, <3>1, i \in 1..Len(h)
  <2> QED  BY <1>8, <1>9, <1>11, <2>1
<1>13. \A c \in Cols : t[row][c] # 0 => c < Len(l)
  <2> SUFFICES ASSUME NEW c \in Cols, t[row][c] # 0  PROVE c < Len(h)
    BY <1>9
  <2>1. CASE c = col  BY <1>2, <1>5, <2>1
  <2>2. CASE c # col
    <3>1. c < Len(f)  BY <1>1, <1>11, <2>2
    <3>2. c \in Nat  BY SizeAssumption DEF Cols
    <3> QED  BY ONLY <1>1, <1>5, <3>1, <3>2
  <2> QED  BY <2>1, <2>2
<1>14. Len(l) \in 1..(MaxCol + 1)  BY <1>5, <1>9
<1>15. LineIs(l, t, row)  BY <1>9, <1>12, <1>13, <1>14, Zenon DEF LineIs
<1> QED  BY <1>15 DEF l, h, b

LEMMA RowWritten ==
  ASSUME NEW s \in [Rows -> Widths], NEW t, NEW row \in Rows, NEW col \in Cols,
         NEW v, t[row] = [s[row] EXCEPT ![col] = v],
         v = 0 => s[row][col] = 0
  PROVE  RowUsed(t, row) <=> (v # 0 \/ RowUsed(s, row))
<1>1. s[row] \in Widths  OBVIOUS
<1>2. \A c \in Cols : t[row][c] = IF c = col THEN v ELSE s[row][c]
  BY <1>1 DEF Widths
<1> QED  BY <1>2 DEF RowUsed

(* What a cell finds once the rows before its own are completed: f is the  *)
(* row that it lands in.                                                   *)
Ready(f, row) ==
    /\ LineIs(f, sheet, row)
    /\ GridUpTo(grid', sheet, row)
    /\ pendingEmpty' \in Nat /\ Waits(grid', pendingEmpty', row)
    /\ started' <=> grid' # <<>>
    /\ NoneFrom(sheet, row + 1)

LEMMA LaterNone ==
  ASSUME NEW s, NEW m \in Nat, NEW n \in Nat, m <= n, NoneFrom(s, m)
  PROVE  NoneFrom(s, n)
<1> SUFFICES ASSUME NEW q \in Rows, q >= n  PROVE ~RowUsed(s, q)
  BY DEF NoneFrom
<1>1. q >= m  BY SizeAssumption DEF Rows
<1> QED  BY <1>1 DEF NoneFrom

LEMMA ReadyAfterRow ==
  ASSUME sheet \in [Rows -> Widths], Standing, NEW row \in Rows, at < row,
         started' = (started \/ hasValue), pendingEmpty' = EmptyUntil(row),
         grid' = grid \o Released
  PROVE  Ready(Blank(Len(line)), row) /\ ~RowUsed(sheet, row)
<1>1. /\ at \in Rows /\ at \in Nat /\ row \in Nat /\ at + 1 \in Nat
      /\ at + 1 <= row /\ at <= row
  BY SizeAssumption DEF Standing, Rows
<1>2. /\ LineIs(line, sheet, at) /\ NoneFrom(sheet, at + 1)
      /\ hasValue <=> RowUsed(sheet, at)
      /\ GridUpTo(grid, sheet, at)
      /\ pendingEmpty \in Nat /\ Waits(grid, pendingEmpty, at)
      /\ started <=> grid # <<>>
  BY Zenon DEF Standing
<1>3. row + 1 \in Nat /\ at + 1 <= row + 1 /\ row >= at + 1  BY ONLY <1>1
<1>4. ~RowUsed(sheet, row)  BY <1>2, <1>3, Zenon DEF NoneFrom
<1>5. NoneFrom(sheet, row + 1)  BY ONLY <1>1, <1>2, <1>3, LaterNone
<1>6. Len(line) \in 1..(MaxCol + 1)  BY <1>2, Zenon DEF LineIs
<1>7. LineIs(Blank(Len(line)), sheet, row)  BY <1>4, <1>6, BlankLine
<1>8. CASE hasValue
  <2>1. PICK rel : rel = Released  OBVIOUS
  <2>2. rel = Append([i \in 1..pendingEmpty |->
                        [row |-> at - pendingEmpty + i - 1,
                         vals |-> Blank(Len(line))]],
                     [row |-> at, vals |-> line])
    BY <1>8, <2>1, Zenon DEF Released
  <2>3. /\ GridUpTo(grid \o rel, sheet, at + 1)
        /\ grid \o rel # <<>> /\ Waits(grid \o rel, 0, at + 1)
    BY ONLY <1>1, <1>2, <1>8, <2>2, sheet \in [Rows -> Widths], GridGrows
  <2>4. PICK g : g = grid'  OBVIOUS
  <2>5. g = grid \o rel  BY <2>1, <2>4
  <2>6. GridUpTo(g, sheet, at + 1) /\ g # <<>> /\ Waits(g, 0, at + 1)
    BY <2>3, <2>5
  <2>7. \A r \in Rows : at + 1 <= r /\ r < row => ~RowUsed(sheet, r)
    <3> SUFFICES ASSUME NEW r \in Rows, at + 1 <= r
                 PROVE  ~RowUsed(sheet, r)
      OBVIOUS
    <3>1. r >= at + 1  BY <1>1, SizeAssumption DEF Rows
    <3> QED  BY <1>2, <3>1, Zenon DEF NoneFrom
  <2>8. GridUpTo(g, sheet, row)
    BY ONLY <1>1, <2>6, <2>7, GridSkips
  <2>9. pendingEmpty' = row - at - 1  BY <1>8 DEF EmptyUntil
  <2>10. Waits(g, row - at - 1, row) /\ row - at - 1 \in Nat
    <3>1. g[Len(g)].row \in Nat
      <4>1. g[Len(g)].row \in Rows  BY <2>6, GridIs
      <4> QED  BY <4>1, SizeAssumption DEF Rows
    <3>2. g[Len(g)].row + 0 + 1 = at + 1  BY <2>6, Zenon DEF Waits
    <3>3. g[Len(g)].row + (row - at - 1) + 1 = row
      BY ONLY <1>1, <3>1, <3>2
    <3> QED  BY <1>1, <2>6, <3>3 DEF Waits
  <2>11. started'  BY <1>8, Zenon
  <2>12. started' <=> g # <<>>  BY <2>6, <2>11, Zenon
  <2> QED  BY <1>4, <1>5, <1>7, <2>4, <2>8, <2>9, <2>10, <2>12 DEF Ready
<1>9. CASE ~hasValue
  <2>1. Released = <<>>  BY <1>9, Zenon DEF Released
  <2>2. grid \in Seq(WalkedRow)  BY <1>2, Zenon DEF GridUpTo
  <2>3. grid' = grid  BY <2>1, <2>2
  <2>4. \A r \in Rows : at <= r /\ r < row => ~RowUsed(sheet, r)
    <3> SUFFICES ASSUME NEW r \in Rows, at <= r  PROVE ~RowUsed(sheet, r)
      OBVIOUS
    <3>1. r = at \/ r >= at + 1  BY <1>1, SizeAssumption DEF Rows
    <3>2. ~RowUsed(sheet, at)  BY <1>2, <1>9, Zenon
    <3> QED  BY <1>2, <3>1, <3>2, Zenon DEF NoneFrom
  <2>5. GridUpTo(grid, sheet, row)
    BY ONLY <1>1, <1>2, <2>4, GridSkips
  <2>6. started' <=> started  BY <1>9, Zenon
  <2>7. pendingEmpty' \in Nat /\ Waits(grid, pendingEmpty', row)
    <3>1. CASE started
      <4>1. pendingEmpty' = pendingEmpty + row - at
        BY <1>9, <3>1 DEF EmptyUntil
      <4>2. grid # <<>>  BY <1>2, <3>1, Zenon
      <4>3. grid[Len(grid)].row \in Nat
        <5>1. grid[Len(grid)].row \in Rows  BY <1>2, <4>2, GridIs
        <5> QED  BY <5>1, SizeAssumption DEF Rows
      <4>4. grid[Len(grid)].row + pendingEmpty + 1 = at
        BY <1>2, <4>2, Zenon DEF Waits
      <4>5. /\ pendingEmpty + row - at \in Nat
            /\ grid[Len(grid)].row + (pendingEmpty + row - at) + 1 = row
        BY ONLY <1>1, <1>2, <4>3, <4>4
      <4> QED  BY <4>1, <4>2, <4>5 DEF Waits
    <3>2. CASE ~started
      <4>1. pendingEmpty' = 0  BY <1>9, <3>2 DEF EmptyUntil
      <4>2. grid = <<>>  BY <1>2, <3>2, Zenon
      <4> QED  BY <4>1, <4>2 DEF Waits
    <3> QED  BY <3>1, <3>2, Zenon
  <2>8. started' <=> grid' # <<>>  BY <1>2, <2>3, <2>6, Zenon
  <2> QED  BY <1>4, <1>5, <1>7, <2>3, <2>5, <2>7, <2>8 DEF Ready
<1> QED  BY <1>8, <1>9, Zenon

LEMMA ReadyHere ==
  ASSUME sheet \in [Rows -> Widths], Standing, NEW row \in Rows,
         began => at = row, UNCHANGED <<started, pendingEmpty, grid>>
  PROVE  Ready(line, row) /\ (hasValue <=> RowUsed(sheet, row))
<1>1. /\ at \in Rows /\ LineIs(line, sheet, at) /\ NoneFrom(sheet, at + 1)
      /\ hasValue <=> RowUsed(sheet, at)
      /\ GridUpTo(grid, sheet, at)
      /\ pendingEmpty \in Nat /\ Waits(grid, pendingEmpty, at)
      /\ started <=> grid # <<>>
      /\ ~began => grid = <<>> /\ NoneFrom(sheet, 0)
  BY Zenon DEF Standing
<1>2. CASE began
  <2>1. at = row  BY <1>2
  <2> QED  BY <1>1, <2>1, Zenon DEF Ready
<1>3. CASE ~began
  <2>1. grid = <<>> /\ NoneFrom(sheet, 0)  BY <1>1, <1>3, Zenon
  <2>2. \A r \in Rows : ~RowUsed(sheet, r)
    <3> SUFFICES ASSUME NEW r \in Rows  PROVE ~RowUsed(sheet, r)
      OBVIOUS
    <3>1. r >= 0  BY SizeAssumption DEF Rows
    <3> QED  BY <2>1, <3>1, Zenon DEF NoneFrom
  <2>3. \A r \in Rows, c \in Cols : sheet[r][c] = 0
    BY <2>2, Zenon DEF RowUsed
  <2>4. LineIs(line, sheet, row)
    <3>1. /\ line \in Seq(Nat) /\ Len(line) \in 1..(MaxCol + 1)
          /\ \A c \in 1..Len(line) : line[c] = sheet[at][c - 1]
      BY <1>1, Zenon DEF LineIs
    <3>2. \A c \in 1..Len(line) : c - 1 \in Cols
      BY ONLY <3>1, SizeAssumption DEF Cols
    <3>3. \A c \in 1..Len(line) : line[c] = sheet[row][c - 1]
      BY <1>1, <2>3, <3>1, <3>2, Zenon
    <3> QED  BY <2>3, <3>1, <3>3, Zenon DEF LineIs
  <2>5. GridUpTo(grid, sheet, row)
    <3>1. grid \in Seq(WalkedRow) /\ ~\E i : i \in 1..Len(grid)
      BY <2>1
    <3> QED  BY <2>1, <2>3, <3>1, Zenon DEF GridUpTo
  <2>6. Waits(grid, pendingEmpty, row)  BY <1>1, <2>1, Zenon DEF Waits
  <2>7. NoneFrom(sheet, row + 1)  BY <2>2, Zenon DEF NoneFrom
  <2>8. ~RowUsed(sheet, row) /\ ~hasValue  BY <1>1, <2>2, Zenon
  <2> QED  BY <1>1, <2>4, <2>5, <2>6, <2>7, <2>8, Zenon DEF Ready
<1> QED  BY <1>2, <1>3, Zenon

(* One cell in order, with a value or blank. *)
LEMMA WalkKeeps ==
  ASSUME sheet \in [Rows -> Widths], Standing, NEW row \in Rows, NEW col \in Cols,
         NEW v \in 0..MaxCells, Walk(row, col, v), began => at <= row,
         sheet'[row] = [sheet[row] EXCEPT ![col] = v],
         \A r \in Rows : r # row => sheet'[r] = sheet[r],
         v = 0 => sheet[row][col] = 0
  PROVE  Standing'
<1>1. at \in Rows /\ at \in Nat /\ row \in Nat
  BY SizeAssumption DEF Standing, Rows
<1>2. \E f : /\ Ready(f, row)
             /\ line' = [(f \o Blank(col + 1 - Len(f))) EXCEPT ![col + 1] = v]
             /\ hasValue' <=> (v # 0 \/ RowUsed(sheet, row))
  <2>1. CASE began /\ at < row
    <3> DEFINE f == Blank(Len(line))
    <3>1. /\ line' = [(f \o Blank(col + 1 - Len(f))) EXCEPT ![col + 1] = v]
          /\ hasValue' <=> v # 0
          /\ started' = (started \/ hasValue)
          /\ pendingEmpty' = EmptyUntil(row) /\ grid' = grid \o Released
      BY <2>1 DEF Walk
    <3>2. Ready(f, row) /\ ~RowUsed(sheet, row)
      BY ONLY <2>1, <3>1, ReadyAfterRow, sheet \in [Rows -> Widths], Standing
    <3> HIDE DEF f
    <3> QED  BY <3>1, <3>2, Zenon
  <2>2. CASE ~(began /\ at < row)
    <3>1. /\ line' = [(line \o Blank(col + 1 - Len(line))) EXCEPT ![col + 1] = v]
          /\ hasValue' <=> (v # 0 \/ hasValue)
          /\ UNCHANGED <<started, pendingEmpty, grid>>
      BY <2>2 DEF Walk
    <3>2. began => at = row  BY <1>1, <2>2
    <3>3. Ready(line, row) /\ (hasValue <=> RowUsed(sheet, row))
      BY ONLY <3>1, <3>2, ReadyHere, sheet \in [Rows -> Widths], Standing
    <3> QED  BY <3>1, <3>3, Zenon
  <2> QED  BY <2>1, <2>2, Zenon
<1>3. at' = row /\ began' = TRUE  BY <1>1 DEF Walk
<1>4. PICK f : /\ Ready(f, row)
               /\ line' = [(f \o Blank(col + 1 - Len(f))) EXCEPT ![col + 1] = v]
               /\ hasValue' <=> (v # 0 \/ RowUsed(sheet, row))
  BY <1>2
<1>5. PICK t : t = sheet'  OBVIOUS
<1>6. /\ t[row] = [sheet[row] EXCEPT ![col] = v]
      /\ \A r \in Rows : r # row => t[r] = sheet[r]
  BY <1>5, Zenon
<1>7. LineIs(f, sheet, row)  BY <1>4, Zenon DEF Ready
<1>8. LineIs(line', t, row)
  <2>1. LineIs([(f \o Blank(col + 1 - Len(f))) EXCEPT ![col + 1] = v], t, row)
    BY ONLY <1>6, <1>7, LineGrows, sheet \in [Rows -> Widths], row \in Rows,
            col \in Cols, v \in 0..MaxCells
  <2> QED  BY <1>4, <2>1
<1>9. RowUsed(t, row) <=> (v # 0 \/ RowUsed(sheet, row))
  BY ONLY <1>6, RowWritten, sheet \in [Rows -> Widths], row \in Rows,
          col \in Cols, v = 0 => sheet[row][col] = 0
<1>10. GridUpTo(grid', t, row)
  <2>1. PICK g : g = grid'  OBVIOUS
  <2>2. GridUpTo(g, sheet, row)  BY <1>4, <2>1 DEF Ready
  <2>3. \A r \in Rows : r < row => sheet[r] = t[r]  BY <1>1, <1>6
  <2>4. GridUpTo(g, t, row)  BY ONLY <2>2, <2>3, GridKept
  <2> QED  BY <2>1, <2>4
<1>11. NoneFrom(t, row + 1)
  <2>1. NoneFrom(sheet, row + 1)  BY <1>4, Zenon DEF Ready
  <2> SUFFICES ASSUME NEW q \in Rows, q >= row + 1  PROVE ~RowUsed(t, q)
    BY DEF NoneFrom
  <2>2. q # row  BY <1>1
  <2>3. t[q] = sheet[q]  BY <1>6, <2>2
  <2>4. ~RowUsed(sheet, q)  BY <2>1, Zenon DEF NoneFrom
  <2> QED  BY <2>3, <2>4, Zenon DEF RowUsed
<1>12. pendingEmpty' \in Nat /\ Waits(grid', pendingEmpty', row)
       /\ (started' <=> grid' # <<>>)
  BY <1>4, Zenon DEF Ready
<1>13. hasValue' <=> RowUsed(t, row)  BY <1>4, <1>9, Zenon
<1> QED
  BY <1>3, <1>5, <1>8, <1>10, <1>11, <1>12, <1>13, Zenon DEF Standing

LEMMA BlankOver ==
  ASSUME sheet \in [Rows -> Widths], Standing, NEW row \in Rows, NEW col \in Cols,
         began => at < row \/ (at = row /\ (col + 1 \in DOMAIN line =>
                                                line[col + 1] = 0))
  PROVE  sheet[row][col] = 0
<1> SUFFICES ASSUME sheet[row][col] # 0  PROVE FALSE
  OBVIOUS
<1>1. RowUsed(sheet, row)  BY Zenon DEF RowUsed
<1>2. at \in Nat /\ row \in Nat /\ row >= 0 /\ col \in Nat
  BY SizeAssumption DEF Standing, Rows, Cols
<1>3. began  BY <1>1, <1>2, Zenon DEF Standing, NoneFrom
<1>4. ~(row >= at + 1)  BY <1>1, Zenon DEF Standing, NoneFrom
<1>5. at = row /\ (col + 1 \in DOMAIN line => line[col + 1] = 0)
  BY <1>2, <1>3, <1>4
<1>6. /\ line \in Seq(Nat) /\ Len(line) \in Nat
      /\ \A c \in 1..Len(line) : line[c] = sheet[at][c - 1]
      /\ \A c \in Cols : sheet[at][c] # 0 => c < Len(line)
  BY DEF Standing, LineIs
<1>7. col < Len(line)  BY <1>5, <1>6
<1>8. col + 1 \in 1..Len(line) /\ (col + 1) - 1 = col
  BY ONLY <1>2, <1>6, <1>7
<1>9. line[col + 1] = sheet[row][col]  BY <1>5, <1>6, <1>8
<1> QED  BY <1>5, <1>6, <1>8, <1>9

-----------------------------------------------------------------------------
LEMMA InitWalk == BenchInit => IInv /\ WalkInv /\ WalkIsRange
<1> SUFFICES ASSUME BenchInit  PROVE IInv /\ WalkInv /\ WalkIsRange
  OBVIOUS
<1>1. IInv  BY InitHolds DEF BenchInit
<1>2. phase = "reading" /\ sheet = [r \in Rows |-> EmptyRow]
  BY DEF BenchInit, Init
<1>3. \A r \in Rows, c \in Cols : sheet[r][c] = 0  BY <1>2 DEF EmptyRow
<1>4. \A r \in Rows : ~RowUsed(sheet, r)  BY <1>3, Zenon DEF RowUsed
<1>5. /\ declared \in Cols /\ at = 0 /\ began = FALSE
      /\ line = Blank(declared + 1) /\ hasValue = FALSE /\ started = FALSE
      /\ pendingEmpty = 0 /\ grid = <<>>
  BY DEF BenchInit, WalkInit
<1>6. at \in Rows /\ declared + 1 \in 1..(MaxCol + 1)
  BY <1>5, SizeAssumption DEF Rows, Cols
<1>7. LineIs(line, sheet, at)  BY <1>4, <1>5, <1>6, BlankLine
<1>8. GridUpTo(grid, sheet, at)
  <2>1. grid \in Seq(WalkedRow) /\ ~\E i : i \in 1..Len(grid)
    BY <1>5
  <2> QED  BY <1>3, <1>5, <2>1, Zenon DEF GridUpTo
<1>9. NoneFrom(sheet, at + 1) /\ NoneFrom(sheet, 0)
  BY <1>4, Zenon DEF NoneFrom
<1>10. pendingEmpty \in Nat /\ Waits(grid, pendingEmpty, at)
  BY <1>5 DEF Waits
<1>11. Standing
  BY <1>4, <1>5, <1>6, <1>7, <1>8, <1>9, <1>10, Zenon DEF Standing
<1>12. WalkIsRange  BY <1>2, Zenon DEF WalkIsRange
<1> QED  BY <1>1, <1>2, <1>11, <1>12 DEF WalkInv

LEMMA ReadWalks ==
  ASSUME IInv, WalkInv, NEW row \in Rows, NEW col \in Cols,
         NEW id \in 0..Least(interned + 1, MaxCells), BothRead(row, col, id)
  PROVE  WalkInv' /\ WalkIsRange'
<1>1. TypeOK /\ Receive(row, col, id) /\ Walk(row, col, read + 1)
  BY DEF IInv, BothRead, FirstCell, SameRow, NextRow, LateRow, TooLate
<1>2. phase = "reading" /\ phase' \in {"reading", "failed"}
  BY DEF BothRead, FirstCell, SameRow, NextRow, LateRow, TooLate, Receive
<1>3. WalkIsRange'  BY <1>2 DEF WalkIsRange
<1>4. ASSUME inOrder'  PROVE Standing'
  <2>1. inOrder /\ (began => at <= row)  BY <1>1, <1>4 DEF Walk
  <2>2. sheet \in [Rows -> Widths] /\ read + 1 \in 0..MaxCells /\ read + 1 # 0
    BY <1>1, SizeAssumption DEF TypeOK, Receive
  <2>3. sheet' = [sheet EXCEPT ![row][col] = read + 1]  BY <1>1 DEF Receive
  <2>4. /\ sheet'[row] = [sheet[row] EXCEPT ![col] = read + 1]
        /\ \A r \in Rows : r # row => sheet'[r] = sheet[r]
    BY <2>2, <2>3
  <2>5. Standing  BY <1>2, <2>1 DEF WalkInv
  <2> QED  BY ONLY <1>1, <2>1, <2>2, <2>4, <2>5, row \in Rows, col \in Cols,
                   WalkKeeps
<1> QED  BY <1>2, <1>3, <1>4 DEF WalkInv

LEMMA BlankWalks ==
  ASSUME IInv, WalkInv, NEW row \in Rows, NEW col \in Cols,
         BothMeetBlank(row, col)
  PROVE  WalkInv' /\ WalkIsRange'
<1>1. /\ sheet \in [Rows -> Widths] /\ Walk(row, col, 0) /\ phase = "reading"
      /\ phase' = phase /\ sheet' = sheet
      /\ began => at < row \/ (at = row /\ (col + 1 \in DOMAIN line =>
                                                line[col + 1] = 0))
  BY DEF IInv, TypeOK, BothMeetBlank, vars, histVars
<1>2. WalkIsRange'  BY <1>1 DEF WalkIsRange
<1>3. ASSUME inOrder'  PROVE Standing'
  <2>1. inOrder /\ (began => at <= row)  BY <1>1, <1>3 DEF Walk
  <2>2. Standing  BY <1>1, <2>1 DEF WalkInv
  <2>3. sheet[row][col] = 0
    BY ONLY <1>1, <2>2, BlankOver, row \in Rows, col \in Cols
  <2>4. 0 \in 0..MaxCells  BY SizeAssumption
  <2>5. sheet'[row] = [sheet[row] EXCEPT ![col] = 0]
    <3>1. sheet[row] \in Widths  BY <1>1
    <3> QED  BY <1>1, <2>3, <3>1 DEF Widths
  <2>6. \A r \in Rows : r # row => sheet'[r] = sheet[r]  BY <1>1
  <2> QED  BY ONLY <1>1, <2>1, <2>2, <2>3, <2>4, <2>5, <2>6, row \in Rows,
                   col \in Cols, WalkKeeps
<1> QED  BY <1>1, <1>2, <1>3 DEF WalkInv

(* The last row is completed: the grid is whole. *)
LEMMA EndWalks ==
  ASSUME IInv, WalkInv, BothEnd
  PROVE  WalkInv' /\ WalkIsRange'
<1>1. /\ sheet \in [Rows -> Widths] /\ phase = "reading"
      /\ phase' \in {"ended", "failed"} /\ sheet' = sheet
      /\ grid' = grid \o Released /\ inOrder' = inOrder
  BY DEF IInv, TypeOK, BothEnd, EndOfSheet, WalkEnds, histVars
<1>3. ASSUME inOrder  PROVE GridUpTo(grid', sheet, MaxRow + 1)
  <2>1. Standing  BY <1>1, <1>3 DEF WalkInv
  <2>2. /\ at \in Rows /\ at \in Nat /\ MaxRow + 1 \in Nat /\ at + 1 \in Nat
        /\ at + 1 <= MaxRow + 1 /\ at <= MaxRow + 1
    BY <2>1, SizeAssumption DEF Standing, Rows
  <2>3. /\ LineIs(line, sheet, at) /\ NoneFrom(sheet, at + 1)
        /\ hasValue <=> RowUsed(sheet, at)
        /\ GridUpTo(grid, sheet, at)
        /\ pendingEmpty \in Nat /\ Waits(grid, pendingEmpty, at)
    BY <2>1, Zenon DEF Standing
  <2>4. \A r \in Rows : at + 1 <= r => ~RowUsed(sheet, r)
    <3> SUFFICES ASSUME NEW r \in Rows, at + 1 <= r  PROVE ~RowUsed(sheet, r)
      OBVIOUS
    <3>1. r >= at + 1  BY <2>2, SizeAssumption DEF Rows
    <3> QED  BY <2>3, <3>1, Zenon DEF NoneFrom
  <2>7. sheet \in [Rows -> Widths]  BY <1>1
  <2>5. CASE hasValue
    <3>1. PICK rel : rel = Released  OBVIOUS
    <3>2. rel = Append([i \in 1..pendingEmpty |->
                          [row |-> at - pendingEmpty + i - 1,
                           vals |-> Blank(Len(line))]],
                       [row |-> at, vals |-> line])
      BY <2>5, <3>1, Zenon DEF Released
    <3>3. GridUpTo(grid \o rel, sheet, at + 1)
      BY ONLY <2>2, <2>3, <2>5, <3>2, <2>7, GridGrows
    <3>4. PICK g : g = grid'  OBVIOUS
    <3>5. GridUpTo(g, sheet, at + 1)  BY <1>1, <3>1, <3>3, <3>4
    <3>6. GridUpTo(g, sheet, MaxRow + 1)
      BY ONLY <2>2, <2>4, <3>5, GridSkips
    <3> QED  BY <3>4, <3>6
  <2>6. CASE ~hasValue
    <3>1. Released = <<>>  BY <2>6, Zenon DEF Released
    <3>2. grid \in Seq(WalkedRow)  BY <2>3, Zenon DEF GridUpTo
    <3>3. grid' = grid  BY <1>1, <3>1, <3>2
    <3>4. \A r \in Rows : at <= r /\ r < MaxRow + 1 => ~RowUsed(sheet, r)
      <4> SUFFICES ASSUME NEW r \in Rows, at <= r  PROVE ~RowUsed(sheet, r)
        OBVIOUS
      <4>1. r = at \/ at + 1 <= r  BY <2>2, SizeAssumption DEF Rows
      <4>2. ~RowUsed(sheet, at)  BY <2>3, <2>6, Zenon
      <4> QED  BY <2>4, <4>1, <4>2, Zenon
    <3>5. GridUpTo(grid, sheet, MaxRow + 1)
      BY ONLY <2>2, <2>3, <3>4, GridSkips
    <3> QED  BY <3>3, <3>5
  <2> QED  BY <2>5, <2>6, Zenon
<1>4. ASSUME inOrder  PROVE WalkIsRange'
  <2>1. PICK g : g = grid'  OBVIOUS
  <2>2. GridUpTo(g, sheet, MaxRow + 1)  BY <1>3, <1>4, <2>1
  <2>3. \A i \in 1..Len(g) : g[i].row \in Rows  BY <2>2, GridIs
  <2>4. g \in Seq(WalkedRow)  BY <2>2, Zenon DEF GridUpTo
  <2>5. DOMAIN g = 1..Len(g) /\ (g # <<>> => Last(g) = g[Len(g)])
    BY ONLY <2>4 DEF Last
  <2>6. \A i \in DOMAIN g :
          /\ g[i].row \in Rows
          /\ i > 1 => g[i].row = g[i - 1].row + 1
          /\ \A c \in 1..Len(g[i].vals) : g[i].vals[c] = sheet[g[i].row][c - 1]
    BY <2>2, <2>3, <2>5, Zenon DEF GridUpTo, RowIs
  <2>7. g # <<>> => {g[1].row, Last(g).row} \subseteq ValuedRows
    <3> SUFFICES ASSUME g # <<>>
                 PROVE  g[1].row \in ValuedRows /\ g[Len(g)].row \in ValuedRows
      BY <2>5
    <3>1. 1 \in 1..Len(g) /\ Len(g) \in 1..Len(g)  BY <2>2, GridIs
    <3>2. RowUsed(sheet, g[1].row) /\ RowUsed(sheet, g[Len(g)].row)
      BY <2>2, Zenon DEF GridUpTo
    <3> QED  BY <2>3, <3>1, <3>2 DEF ValuedRows, RowUsed
  <2>8. \A r \in ValuedRows, c \in Cols :
          sheet[r][c] # 0 => \E i \in DOMAIN g : g[i].row = r /\ c < Len(g[i].vals)
    <3> SUFFICES ASSUME NEW r \in ValuedRows, NEW c \in Cols, sheet[r][c] # 0
                 PROVE  \E i \in DOMAIN g : g[i].row = r /\ c < Len(g[i].vals)
      OBVIOUS
    <3>1. r \in Rows  BY DEF ValuedRows
    <3>2. r < MaxRow + 1  BY <3>1, SizeAssumption DEF Rows
    <3> QED  BY <2>2, <2>5, <3>1, <3>2, Zenon DEF GridUpTo
  <2>9. ValuedRows' = ValuedRows /\ sheet' = sheet
    BY <1>1, Zenon DEF ValuedRows
  <2>10. /\ \A i \in DOMAIN grid' :
            /\ grid'[i].row \in Rows
            /\ i > 1 => grid'[i].row = grid'[i - 1].row + 1
            /\ \A c \in 1..Len(grid'[i].vals) :
                  grid'[i].vals[c] = sheet'[grid'[i].row][c - 1]
         /\ grid' # <<>> => {grid'[1].row, Last(grid').row} \subseteq ValuedRows
         /\ \A r \in ValuedRows, c \in Cols :
              sheet'[r][c] # 0 =>
                \E i \in DOMAIN grid' : grid'[i].row = r /\ c < Len(grid'[i].vals)
    BY ONLY <2>1, <2>6, <2>7, <2>8, <2>9, Zenon
  <2> QED  BY ONLY <2>9, <2>10, Zenon DEF WalkIsRange, InGrid
<1>5. inOrder' => inOrder  BY <1>1
<1>6. ~inOrder' => WalkIsRange'  BY DEF WalkIsRange
<1>7. WalkInv'
  <2>1. \A g : g = grid' => (inOrder => GridUpTo(g, sheet, MaxRow + 1))
    BY <1>3, Zenon
  <2>2. inOrder => GridUpTo(grid', sheet, MaxRow + 1)  BY <2>1, Zenon
  <2> QED  BY <1>1, <2>2 DEF WalkInv
<1> QED  BY <1>4, <1>5, <1>6, <1>7, Zenon

LEMMA StepWalks ==
  IInv /\ WalkInv /\ WalkIsRange /\ [BenchNext]_<<vars, walkVars>>
    => IInv' /\ WalkInv' /\ WalkIsRange'
<1> SUFFICES ASSUME IInv, WalkInv, WalkIsRange, [BenchNext]_<<vars, walkVars>>
             PROVE  IInv' /\ WalkInv' /\ WalkIsRange'
  OBVIOUS
<1>1. ASSUME NEW row \in Rows, NEW col \in Cols,
             NEW id \in 0..Least(interned + 1, MaxCells), BothRead(row, col, id)
      PROVE  IInv' /\ WalkInv' /\ WalkIsRange'
  <2>1. [Next]_vars  BY <1>1, Zenon DEF BothRead, Next, CellNext
  <2> QED  BY <1>1, <2>1, ReadWalks, StepHolds
<1>2. ASSUME NEW row \in Rows, NEW col \in Cols, BothMeetBlank(row, col)
      PROVE  IInv' /\ WalkInv' /\ WalkIsRange'
  <2>1. [Next]_vars  BY <1>2, Zenon DEF BothMeetBlank
  <2> QED  BY <1>2, <2>1, BlankWalks, StepHolds
<1>3. CASE BothEnd
  <2>1. [Next]_vars  BY <1>3, Zenon DEF BothEnd, Next
  <2> QED  BY <1>3, <2>1, EndWalks, StepHolds
<1>4. CASE (ReadFails \/ ClientGone) /\ UNCHANGED walkVars
  <2>1. [Next]_vars  BY <1>4, Zenon DEF Next
  <2>2. phase' \in {"failed", "gone"}  BY <1>4 DEF ReadFails, ClientGone
  <2>3. WalkInv' /\ WalkIsRange'  BY <2>2 DEF WalkInv, WalkIsRange
  <2> QED  BY <2>1, <2>3, StepHolds
<1>5. CASE UNCHANGED <<vars, walkVars>>
  <2>1. [Next]_vars  BY <1>5
  <2>2. /\ UNCHANGED <<phase, sheet, began, at, line, hasValue, started,
                       pendingEmpty, grid, inOrder>>
    BY <1>5 DEF vars, histVars, walkVars
  <2>3. WalkInv'
    <3>1. Standing => Standing'  BY <2>2, Zenon DEF Standing
    <3> QED  BY <2>2, <3>1, Zenon DEF WalkInv
  <2>4. WalkIsRange'
    BY <2>2 DEF WalkIsRange, ValuedRows, InGrid, Last
  <2> QED  BY <2>1, <2>3, <2>4, StepHolds
<1> QED  BY <1>1, <1>2, <1>3, <1>4, <1>5, Zenon DEF BenchNext

(* In a sheet in order, the walk's grid always is calamine's range of the  *)
(* rows passed, and its line the sheet's of the row it is at.              *)
THEOREM WalkInvariance == BenchSpec => [](IInv /\ WalkInv /\ WalkIsRange)
BY InitWalk, StepWalks, PTL DEF BenchSpec

(* walk_dense of a sheet in order is the range calamine would build: every *)
(* row from the first with a value to the last, whatever blank cells stand *)
(* before, between and after them, each value in its row and column.       *)
THEOREM WalkCorrect == BenchSpec => []WalkIsRange
BY WalkInvariance, PTL

-----------------------------------------------------------------------------
(***************************************************************************)
(* The gate: what is on the wire of a sheet in order.                      *)
(***************************************************************************)
(* The rows of a queue or of the wire are those of the sheet, ascending.   *)
Settled(rows, s) ==
    /\ \A i \in DOMAIN rows :
        rows[i].vals = s[rows[i].row] /\ RowUsed(s, rows[i].row)
    /\ \A i, j \in DOMAIN rows : i < j => rows[i].row < rows[j].row
HasRow(rows, r) == \E i \in DOMAIN rows : rows[i].row = r

Flowing ==
    /\ Settled(queue, sheet) /\ Settled(wire, sheet)
    /\ open => /\ began /\ current <= at
               /\ values = sheet[current] /\ RowUsed(sheet, current)
    /\ \A r \in Rows : RowUsed(sheet, r) =>
        HasRow(wire, r) \/ HasRow(queue, r) \/ (open /\ r = current)
WireWhole ==
    /\ Settled(wire, sheet)
    /\ \A r \in Rows : RowUsed(sheet, r) => HasRow(wire, r)
FlowInv ==
    inOrder => /\ phase = "reading" => Flowing
               /\ phase = "ended" => WireWhole

(* No row is narrower than what the sheet declares, none wider than what   *)
(* the walk has come to.                                                   *)
Between(g, low, high) ==
    \A i \in 1..Len(g) : low <= Len(g[i].vals) /\ Len(g[i].vals) <= high
WidthInv ==
    inOrder /\ phase \in {"reading", "ended"} =>
        /\ declared \in Cols /\ declared + 1 <= Len(line)
        /\ Between(grid, declared + 1, Len(line))

(* Rows of a sheet that another leaves alone. *)
LEMMA SettledStays ==
  ASSUME NEW rows, NEW s, NEW t, Settled(rows, s),
         \A i \in DOMAIN rows : t[rows[i].row] = s[rows[i].row]
  PROVE  Settled(rows, t)
BY Zenon DEF Settled, RowUsed

LEMMA SettledAppended ==
  ASSUME NEW q \in Seq(QueuedRow), NEW s, Settled(q, s), NEW x \in QueuedRow,
         x.vals = s[x.row], RowUsed(s, x.row),
         \A i \in DOMAIN q : q[i].row < x.row
  PROVE  /\ Settled(Append(q, x), s)
         /\ \A r : HasRow(q, r) \/ r = x.row => HasRow(Append(q, x), r)
         /\ \A i \in DOMAIN Append(q, x) : \/ i \in DOMAIN q /\ Append(q, x)[i] = q[i]
                                           \/ Append(q, x)[i] = x
<1> DEFINE h == Append(q, x)
           n == Len(q)
<1>1. /\ n \in Nat /\ DOMAIN q = 1..n /\ DOMAIN h = 1..(n + 1)
      /\ \A i \in 1..n : h[i] = q[i]
      /\ h[n + 1] = x
  BY AppendProperties, LenProperties
<1> HIDE DEF h, n
<1>2. \A i \in 1..(n + 1) : i \in 1..n \/ i = n + 1  BY <1>1
<1>3. \A i \in DOMAIN h : h[i].vals = s[h[i].row] /\ RowUsed(s, h[i].row)
  BY <1>1, <1>2, Zenon DEF Settled
<1>4. ASSUME NEW i \in DOMAIN h, NEW j \in DOMAIN h, i < j
      PROVE  h[i].row < h[j].row
  <2>1. i \in 1..n /\ (j \in 1..n \/ j = n + 1)  BY <1>1, <1>4
  <2>2. CASE j \in 1..n
    <3>1. q[i].row < q[j].row  BY <1>1, <1>4, <2>1, <2>2, Zenon DEF Settled
    <3> QED  BY <1>1, <2>1, <2>2, <3>1
  <2>3. CASE j = n + 1  BY <1>1, <2>1, <2>3
  <2> QED  BY <2>1, <2>2, <2>3
<1>5. ASSUME NEW r, HasRow(q, r) \/ r = x.row  PROVE HasRow(h, r)
  <2>1. \A i \in 1..n : i \in 1..(n + 1)  BY <1>1
  <2>2. n + 1 \in 1..(n + 1)  BY <1>1
  <2> QED  BY <1>1, <1>5, <2>1, <2>2, Zenon DEF HasRow
<1>6. \A i \in DOMAIN h : (i \in DOMAIN q /\ h[i] = q[i]) \/ h[i] = x
  BY <1>1, <1>2, Zenon
<1>7. Settled(h, s)  BY <1>3, <1>4, Zenon DEF Settled
<1> QED  BY <1>5, <1>6, <1>7, Zenon DEF h

(* A row past all that is queued goes to the end of the queue. *)
LEMMA QueuedPast ==
  ASSUME NEW q \in Seq(QueuedRow), NEW row \in Rows, NEW vals,
         \A i \in DOMAIN q : q[i].row < row
  PROVE  Queued(q, row, vals) = Append(q, [row |-> row, vals |-> vals])
<1>1. \A i \in DOMAIN q : q[i].row # row
  <2>1. \A i \in DOMAIN q : q[i] \in QueuedRow  BY LenProperties
  <2>2. \A i \in DOMAIN q : q[i].row \in Nat /\ row \in Nat
    BY <2>1, SizeAssumption DEF QueuedRow, Rows
  <2> QED  BY <2>2
<1> QED  BY <1>1, Zenon DEF Queued

(* Before the rows of a queue stand all the rows of the wire. *)
LEMMA WireBefore ==
  ASSUME TypeOK, Marks, NEW s, Settled(wire, s), NEW i \in DOMAIN wire
  PROVE  wire[i].row \in Rows /\ wire[i].row <= highestSent
<1> DEFINE L == Len(wire)
<1>1. wire \in Seq(SentRow)  BY DEF TypeOK
<1>2. L \in Nat /\ DOMAIN wire = 1..L /\ \A k \in 1..L : wire[k] \in SentRow
  BY <1>1, LenProperties
<1>3. \A k \in 1..L : wire[k].row \in Rows /\ wire[k].row \in Nat
  BY <1>2, SizeAssumption DEF SentRow, Rows
<1>4. wire # <<>>  BY <1>2
<1>5. highestSent = wire[L].row  BY <1>4 DEF Marks
<1>6. L \in 1..L /\ (i = L \/ i < L)  BY <1>2
<1>7. i < L => wire[i].row < wire[L].row
  BY <1>2, <1>6, Zenon DEF Settled
<1> QED  BY <1>2, <1>3, <1>5, <1>6, <1>7

LEMMA FlushSettles ==
  ASSUME TypeOK, Marks, NEW q \in Seq(QueuedRow), q # <<>>, Flush(q), NEW s,
         Settled(q, s), Settled(wire, s),
         \A i \in DOMAIN q : highestSent < q[i].row
  PROVE  /\ queue' = <<>> /\ Settled(wire', s)
         /\ \A r : HasRow(q, r) \/ HasRow(wire, r) => HasRow(wire', r)
         /\ \A i \in DOMAIN wire' : \/ i \in DOMAIN wire /\ wire'[i] = wire[i]
                                    \/ \E j \in DOMAIN q : wire'[i].row = q[j].row
<1> DEFINE n == Len(q)
           L == Len(wire)
<1>0. wire \in Seq(SentRow)  BY DEF TypeOK
<1>1. /\ queue' = <<>> /\ n \in Nat \ {0} /\ L \in Nat
      /\ DOMAIN q = 1..n /\ DOMAIN wire = 1..L /\ DOMAIN wire' = 1..(L + n)
      /\ \A i \in 1..L : wire'[i] = wire[i]
  BY <1>0, FlushSteps
<1>2. PICK p \in Orders(q) : \A i \in 1..n : wire'[L + i] = LeavesAs(q, p, i)
  BY <1>0, FlushSteps, Zenon
<1>3. FromQueue(q) /\ \A r, c, v : HoldsIn(q, r, c, v) \/ HoldsIn(wire, r, c, v)
                                     => HoldsIn(wire', r, c, v)
  BY <1>0, FlushSends
<1>4. /\ \A i \in 1..n : p[i] \in 1..n /\ q[p[i]].row \in Rows
      /\ \A i, j \in 1..n : i < j => q[p[i]].row <= q[p[j]].row
  BY BatchOrder
<1>5. \A i, j \in 1..n : i < j => p[i] # p[j]
  <2>1. \A i, j \in DOMAIN q : i < j => p[i] # p[j]  BY Zenon DEF Orders
  <2> QED  BY <1>1, <2>1
<1>6. \A i \in 1..n : wire'[L + i].row = q[p[i]].row
  <2> SUFFICES ASSUME NEW i \in 1..n  PROVE wire'[L + i].row = q[p[i]].row
    OBVIOUS
  <2>1. wire'[L + i] = LeavesAs(q, p, i)  BY <1>2
  <2> QED  BY <2>1 DEF LeavesAs
<1> HIDE DEF n, L
<1>7. \A i \in 1..n : q[i].row \in Int
  <2>1. \A i \in 1..n : q[i] \in QueuedRow  BY <1>1
  <2> QED  BY <2>1, SizeAssumption DEF QueuedRow, Rows
<1>8. \A i, j \in 1..n : i # j => q[i].row # q[j].row
  <2> SUFFICES ASSUME NEW i \in 1..n, NEW j \in 1..n, i # j
               PROVE  q[i].row # q[j].row
    OBVIOUS
  <2>1. i < j \/ j < i  BY <1>1
  <2>2. q[i].row < q[j].row \/ q[j].row < q[i].row
    BY <1>1, <2>1, Zenon DEF Settled
  <2>3. q[i].row \in Int /\ q[j].row \in Int  BY <1>7
  <2> QED  BY ONLY <2>2, <2>3
<1>9. ASSUME NEW i \in 1..n, NEW j \in 1..n, i < j
      PROVE  wire'[L + i].row < wire'[L + j].row
  <2>1. p[i] \in 1..n /\ p[j] \in 1..n /\ p[i] # p[j]
        /\ q[p[i]].row <= q[p[j]].row
    BY <1>4, <1>5, <1>9
  <2>2. q[p[i]].row \in Int /\ q[p[j]].row \in Int
        /\ q[p[i]].row # q[p[j]].row
    BY <1>7, <1>8, <2>1, Zenon
  <2>3. q[p[i]].row < q[p[j]].row  BY ONLY <2>1, <2>2
  <2> QED  BY <1>6, <2>3
<1>10. ASSUME NEW i \in DOMAIN wire', NEW j \in DOMAIN wire', i < j
       PROVE  wire'[i].row < wire'[j].row
  <2>1. i \in 1..(L + n) /\ j \in 1..(L + n)  BY <1>1
  <2>2. CASE j \in 1..L
    <3>1. i \in 1..L  BY <1>1, <1>10, <2>1, <2>2
    <3>2. wire[i].row < wire[j].row
      BY <1>1, <1>10, <2>2, <3>1, Zenon DEF Settled
    <3> QED  BY <1>1, <2>2, <3>1, <3>2
  <2>3. CASE i \in 1..L /\ j \notin 1..L
    <3>1. PICK k \in 1..n : j = L + k
      <4>1. j - L \in 1..n /\ j = L + (j - L)  BY <1>1, <2>1, <2>3
      <4> QED  BY <4>1
    <3>2. wire'[i] = wire[i] /\ wire[i].row <= highestSent /\ wire[i].row \in Rows
      BY <1>1, <2>3, WireBefore
    <3>3. wire'[j].row = q[p[k]].row /\ p[k] \in 1..n  BY <1>4, <1>6, <3>1
    <3>4. highestSent < q[p[k]].row  BY <1>1, <3>3
    <3>5. highestSent \in Int /\ q[p[k]].row \in Int /\ wire[i].row \in Int
      BY <1>7, <3>2, <3>3, SizeAssumption DEF TypeOK, Rows, NoRow
    <3>6. wire[i].row < q[p[k]].row  BY ONLY <3>2, <3>4, <3>5
    <3> QED  BY <3>2, <3>3, <3>6
  <2>4. CASE i \notin 1..L
    <3>1. /\ i - L \in 1..n /\ i = L + (i - L)
          /\ j - L \in 1..n /\ j = L + (j - L) /\ i - L < j - L
      BY <1>1, <1>10, <2>1, <2>4
    <3>2. wire'[L + (i - L)].row < wire'[L + (j - L)].row  BY <1>9, <3>1
    <3> QED  BY <3>1, <3>2
  <2> QED  BY <2>2, <2>3, <2>4
<1>11. ASSUME NEW i \in DOMAIN wire'
       PROVE  /\ wire'[i].vals = s[wire'[i].row] /\ RowUsed(s, wire'[i].row)
              /\ \/ i \in DOMAIN wire /\ wire'[i] = wire[i]
                 \/ \E j \in DOMAIN q : wire'[i].row = q[j].row
  <2>1. \/ i \in DOMAIN wire /\ wire'[i] = wire[i]
        \/ \E j \in DOMAIN q : wire'[i].row = q[j].row /\ wire'[i].vals = q[j].vals
    BY <1>3, Zenon DEF FromQueue
  <2> QED  BY <2>1, Zenon DEF Settled
<1>12. Settled(wire', s)
  <2>1. PICK w : w = wire'  OBVIOUS
  <2>2. /\ \A i \in DOMAIN w : w[i].vals = s[w[i].row] /\ RowUsed(s, w[i].row)
        /\ \A i, j \in DOMAIN w : i < j => w[i].row < w[j].row
    BY <1>10, <1>11, <2>1, Zenon
  <2>3. Settled(w, s)  BY <2>2, Zenon DEF Settled
  <2> QED  BY <2>1, <2>3
<1>13. ASSUME NEW r, HasRow(q, r) \/ HasRow(wire, r)  PROVE HasRow(wire', r)
  <2>1. \E v : HoldsIn(q, r, 0, v) \/ HoldsIn(wire, r, 0, v)
    BY <1>13, Zenon DEF HasRow, HoldsIn
  <2>2. \E v : HoldsIn(wire', r, 0, v)  BY <1>3, <2>1, Zenon
  <2> QED  BY <2>2, Zenon DEF HasRow, HoldsIn
<1> QED  BY <1>1, <1>11, <1>12, <1>13, Zenon

(* A cell is written into the sheet. *)
LEMMA SheetWritten ==
  ASSUME TypeOK, NEW row \in Rows, NEW col \in Cols,
         NEW id \in 0..Least(interned + 1, MaxCells), Receive(row, col, id)
  PROVE  \E t \in [Rows -> Widths] :
            /\ t = sheet' /\ t[row] = [sheet[row] EXCEPT ![col] = read + 1]
            /\ \A r \in Rows : r # row => t[r] = sheet[r]
            /\ RowUsed(t, row)
            /\ \A r \in Rows : r # row => (RowUsed(t, r) <=> RowUsed(sheet, r))
<1>1. /\ sheet \in [Rows -> Widths] /\ sheet' \in [Rows -> Widths]
      /\ sheet' = [sheet EXCEPT ![row][col] = read + 1] /\ read + 1 # 0
      /\ read + 1 \in Nat
  <2>1. sheet' \in [Rows -> Widths]  BY ReceiveTypes
  <2>2. sheet \in [Rows -> Widths] /\ read + 1 # 0 /\ read + 1 \in Nat
    BY SizeAssumption DEF TypeOK
  <2> QED  BY <2>1, <2>2, Zenon DEF Receive
<1>2. PICK t \in [Rows -> Widths] : t = sheet'  BY <1>1
<1>3. /\ t[row] = [sheet[row] EXCEPT ![col] = read + 1]
      /\ \A r \in Rows : r # row => t[r] = sheet[r]
  BY ONLY <1>1, <1>2, row \in Rows
<1>4. sheet[row] \in Widths  BY <1>1
<1>5. t[row][col] = read + 1  BY ONLY <1>3, <1>4, col \in Cols DEF Widths
<1>6. RowUsed(t, row)  BY <1>1, <1>5, Zenon DEF RowUsed
<1>7. \A r \in Rows : r # row => (RowUsed(t, r) <=> RowUsed(sheet, r))
  BY <1>3, Zenon DEF RowUsed
<1> QED  BY ONLY <1>2, <1>3, <1>6, <1>7

(* A row that held nothing holds the one cell. *)
LEMMA OnlyCell ==
  ASSUME NEW s \in [Rows -> Widths], NEW row \in Rows, NEW col, NEW v,
         ~RowUsed(s, row), NEW x, x = [s[row] EXCEPT ![col] = v]
  PROVE  x = OneCell(col, v)
<1>1. s[row] \in Widths /\ \A c \in Cols : s[row][c] = 0
  BY Zenon DEF RowUsed
<1>2. s[row] = EmptyRow  BY ONLY <1>1 DEF Widths, EmptyRow
<1> QED  BY <1>2 DEF OneCell

(* All that is queued or sent is above the row under construction. *)
LEMMA AllAbove ==
  ASSUME IInv, phase = "reading", open, Settled(wire, sheet)
  PROVE  /\ current \in Rows /\ current \in Nat /\ highestSent \in Int
         /\ highestSent < current
         /\ \A i \in DOMAIN queue : queue[i].row \in Rows /\ queue[i].row < current
                                   /\ highestSent < queue[i].row
         /\ \A i \in DOMAIN wire : wire[i].row \in Rows /\ wire[i].row < current
<1>1. TypeOK /\ Marks /\ QueueAhead /\ CurrentAhead  BY DEF IInv, Order
<1>2. current \in Rows /\ current \in Nat /\ highestSent \in Int
  BY <1>1, SizeAssumption DEF TypeOK, Rows, NoRow
<1>3. highestSent < current /\ \A i \in DOMAIN queue : queue[i].row < current
  BY <1>1 DEF CurrentAhead
<1>4. \A i \in DOMAIN queue : queue[i].row \in Rows
  <2>1. queue \in Seq(QueuedRow)  BY <1>1 DEF TypeOK
  <2>2. \A i \in DOMAIN queue : queue[i] \in QueuedRow  BY <2>1, LenProperties
  <2> QED  BY <2>2 DEF QueuedRow
<1>5. \A i \in DOMAIN queue : highestSent < queue[i].row
  BY <1>1 DEF QueueAhead
<1>6. ASSUME NEW i \in DOMAIN wire
      PROVE  wire[i].row \in Rows /\ wire[i].row < current
  <2>1. wire[i].row \in Rows /\ wire[i].row <= highestSent  BY <1>1, WireBefore
  <2>2. wire[i].row \in Int  BY <2>1, SizeAssumption DEF Rows
  <2> QED  BY <1>2, <1>3, <2>1, <2>2
<1> QED  BY <1>2, <1>3, <1>4, <1>5, <1>6

(* The row under construction is queued. *)
LEMMA CurrentQueued ==
  ASSUME IInv, phase = "reading", open, Flowing
  PROVE  \E q \in Seq(QueuedRow) :
            /\ q = Queued(queue, current, values) /\ q # <<>>
            /\ Settled(q, sheet)
            /\ \A i \in DOMAIN q : q[i].row \in Rows /\ highestSent < q[i].row
                                   /\ q[i].row <= current
            /\ \A r \in Rows : RowUsed(sheet, r) => HasRow(wire, r) \/ HasRow(q, r)
<1> DEFINE x == [row |-> current, vals |-> values]
<1>1. /\ Settled(queue, sheet) /\ Settled(wire, sheet)
      /\ values = sheet[current] /\ RowUsed(sheet, current)
      /\ \A r \in Rows : RowUsed(sheet, r) =>
            HasRow(wire, r) \/ HasRow(queue, r) \/ (open /\ r = current)
  BY Zenon DEF Flowing
<1>2. /\ current \in Rows /\ current \in Nat /\ highestSent \in Int
      /\ highestSent < current
      /\ \A i \in DOMAIN queue : queue[i].row \in Rows /\ queue[i].row < current
                                /\ highestSent < queue[i].row
  BY <1>1, AllAbove
<1>3. queue \in Seq(QueuedRow) /\ values \in Widths  BY DEF IInv, TypeOK
<1>4. x \in QueuedRow /\ x.row = current /\ x.vals = values
  BY <1>2, <1>3 DEF QueuedRow
<1>5. PICK q : q = Append(queue, x)  OBVIOUS
<1>6. q = Queued(queue, current, values)
  <2>1. \A i \in DOMAIN queue : queue[i].row < current  BY <1>2, Zenon
  <2> QED  BY ONLY <1>2, <1>3, <1>5, <2>1, QueuedPast
<1> HIDE DEF x
<1>7. q \in Seq(QueuedRow) /\ q # <<>>  BY ONLY <1>3, <1>4, <1>5
<1>8. /\ Settled(q, sheet)
      /\ \A r : HasRow(queue, r) \/ r = x.row => HasRow(q, r)
      /\ \A i \in DOMAIN q : (i \in DOMAIN queue /\ q[i] = queue[i]) \/ q[i] = x
  <2>1. /\ \A i \in DOMAIN queue : queue[i].row < x.row
        /\ x.vals = sheet[x.row] /\ RowUsed(sheet, x.row)
    BY <1>1, <1>2, <1>4
  <2> QED  BY ONLY <1>1, <1>3, <1>4, <1>5, <2>1, SettledAppended
<1>9. ASSUME NEW i \in DOMAIN q
      PROVE  q[i].row \in Rows /\ highestSent < q[i].row /\ q[i].row <= current
  <2>1. CASE i \in DOMAIN queue /\ q[i] = queue[i]
    <3>1. queue[i].row \in Rows /\ queue[i].row < current
          /\ highestSent < queue[i].row
      BY <1>2, <2>1
    <3>2. queue[i].row \in Nat  BY <3>1, SizeAssumption DEF Rows
    <3> QED  BY <1>2, <2>1, <3>1, <3>2
  <2>2. CASE q[i] = x  BY <1>2, <1>4, <2>2
  <2> QED  BY <1>8, <2>1, <2>2
<1>10. \A r \in Rows : RowUsed(sheet, r) => HasRow(wire, r) \/ HasRow(q, r)
  BY <1>1, <1>4, <1>8, Zenon
<1> QED  BY <1>6, <1>7, <1>8, <1>9, <1>10

LEMMA FirstFlows ==
  ASSUME IInv, Flowing, NEW row \in Rows, NEW col \in Cols,
         NEW id \in 0..Least(interned + 1, MaxCells), FirstCell(row, col, id),
         began' = TRUE, at' = row
  PROVE  Flowing'
<1>1. TypeOK /\ Marks /\ CurrentAhead  BY DEF IInv, Order
<1>2. /\ Receive(row, col, id) /\ phase = "reading" /\ ~open /\ open' = TRUE
      /\ current' = row /\ values' = OneCell(col, read + 1)
      /\ queue' = queue /\ wire' = wire
  BY DEF FirstCell, Receive, batchVars
<1>3. queue = <<>> /\ highestSent = NoRow  BY <1>1, <1>2 DEF CurrentAhead
<1>4. wire = <<>>
  <2> SUFFICES ASSUME wire # <<>>  PROVE FALSE
    OBVIOUS
  <2>1. wire \in Seq(SentRow)  BY <1>1 DEF TypeOK
  <2>2. Len(wire) \in DOMAIN wire  BY <2>1
  <2>3. wire[Len(wire)] \in SentRow  BY <2>1, <2>2
  <2>4. wire[Len(wire)].row \in Rows  BY <2>3 DEF SentRow
  <2>5. wire[Len(wire)].row = NoRow  BY <1>1, <1>3 DEF Marks
  <2> QED  BY <2>4, <2>5, SizeAssumption DEF Rows, NoRow
<1>5. ~\E i : i \in DOMAIN <<>>  OBVIOUS
<1>6. \A r \in Rows : ~RowUsed(sheet, r)
  BY <1>2, <1>3, <1>4, <1>5, Zenon DEF Flowing, HasRow
<1>7. PICK t \in [Rows -> Widths] :
        /\ t = sheet' /\ t[row] = [sheet[row] EXCEPT ![col] = read + 1]
        /\ RowUsed(t, row)
        /\ \A r \in Rows : r # row => (RowUsed(t, r) <=> RowUsed(sheet, r))
  BY <1>1, <1>2, SheetWritten
<1>8. t[row] = OneCell(col, read + 1)
  <2>1. sheet \in [Rows -> Widths] /\ ~RowUsed(sheet, row)  BY <1>1, <1>6 DEF TypeOK
  <2>2. PICK n : n = read + 1  OBVIOUS
  <2>3. PICK x : x = t[row]  OBVIOUS
  <2>4. x = [sheet[row] EXCEPT ![col] = n] /\ ~RowUsed(sheet, row)
    BY <1>7, <1>6, <2>2, <2>3
  <2>5. x = OneCell(col, n)
    BY ONLY <2>1, <2>4, row \in Rows, OnlyCell
  <2> QED  BY <2>2, <2>3, <2>5
<1>9. Settled(queue', t) /\ Settled(wire', t)
  <2>1. Settled(<<>>, t)  BY <1>5, Zenon DEF Settled
  <2> QED  BY <1>2, <1>3, <1>4, <2>1
<1>10. began' /\ current' <= at'  BY <1>2, SizeAssumption DEF Rows
<1>11. values' = t[current'] /\ RowUsed(t, current')  BY <1>2, <1>7, <1>8
<1>12. \A r \in Rows : RowUsed(t, r) => r = current'
  BY <1>2, <1>6, <1>7
<1> QED  BY <1>2, <1>7, <1>9, <1>10, <1>11, <1>12, Zenon DEF Flowing

LEMMA SameFlows ==
  ASSUME IInv, Flowing, NEW row \in Rows, NEW col \in Cols,
         NEW id \in 0..Least(interned + 1, MaxCells), SameRow(row, col, id),
         began' = TRUE, at' = row
  PROVE  Flowing'
<1>1. TypeOK  BY DEF IInv
<1>2. /\ Receive(row, col, id) /\ phase = "reading" /\ open /\ open' = open
      /\ row = current /\ current' = current
      /\ values' = [values EXCEPT ![col] = read + 1]
      /\ queue' = queue /\ wire' = wire
  BY DEF SameRow, Receive, batchVars
<1>3. /\ Settled(queue, sheet) /\ Settled(wire, sheet)
      /\ values = sheet[current]
      /\ \A r \in Rows : RowUsed(sheet, r) =>
            HasRow(wire, r) \/ HasRow(queue, r) \/ (open /\ r = current)
  BY <1>2, Zenon DEF Flowing
<1>4. PICK t \in [Rows -> Widths] :
        /\ t = sheet' /\ t[row] = [sheet[row] EXCEPT ![col] = read + 1]
        /\ \A r \in Rows : r # row => t[r] = sheet[r]
        /\ RowUsed(t, row)
        /\ \A r \in Rows : r # row => (RowUsed(t, r) <=> RowUsed(sheet, r))
  BY <1>1, <1>2, SheetWritten
<1>5. /\ current \in Nat
      /\ \A i \in DOMAIN queue : queue[i].row \in Rows /\ queue[i].row < current
      /\ \A i \in DOMAIN wire : wire[i].row \in Rows /\ wire[i].row < current
  BY <1>2, <1>3, AllAbove
<1>6. Settled(queue, t)
  <2>1. \A i \in DOMAIN queue : t[queue[i].row] = sheet[queue[i].row]
    BY <1>2, <1>4, <1>5
  <2> QED  BY ONLY <1>3, <2>1, SettledStays
<1>7. Settled(wire, t)
  <2>1. \A i \in DOMAIN wire : t[wire[i].row] = sheet[wire[i].row]
    BY <1>2, <1>4, <1>5
  <2> QED  BY ONLY <1>3, <2>1, SettledStays
<1>8. began' /\ current' <= at'  BY <1>2, SizeAssumption DEF Rows
<1>9. values' = t[current'] /\ RowUsed(t, current')  BY <1>2, <1>3, <1>4
<1>10. \A r \in Rows : RowUsed(t, r) =>
          HasRow(wire', r) \/ HasRow(queue', r) \/ (open' /\ r = current')
  BY <1>2, <1>3, <1>4, Zenon
<1>11. Settled(queue', t) /\ Settled(wire', t)  BY <1>2, <1>6, <1>7
<1> QED  BY <1>4, <1>8, <1>9, <1>10, <1>11, Zenon DEF Flowing

LEMMA NextFlows ==
  ASSUME IInv, Flowing, NEW row \in Rows, NEW col \in Cols,
         NEW id \in 0..Least(interned + 1, MaxCells), NextRow(row, col, id),
         began' = TRUE, at' = row, phase' = "reading"
  PROVE  Flowing'
<1>1. TypeOK /\ Marks  BY DEF IInv, Order
<1>2. /\ Receive(row, col, id) /\ phase = "reading" /\ open /\ open' = open
      /\ row > current /\ current' = row
      /\ values' = OneCell(col, read + 1) /\ Push(current, values)
  BY DEF NextRow, Receive
<1>3. PICK q \in Seq(QueuedRow) :
        /\ q = Queued(queue, current, values) /\ q # <<>>
        /\ Settled(q, sheet)
        /\ \A i \in DOMAIN q : q[i].row \in Rows /\ highestSent < q[i].row
                               /\ q[i].row <= current
        /\ \A r \in Rows : RowUsed(sheet, r) => HasRow(wire, r) \/ HasRow(q, r)
  BY <1>2, CurrentQueued
<1>4. Settled(wire, sheet)  BY Zenon DEF Flowing
<1>5. PICK t \in [Rows -> Widths] :
        /\ t = sheet' /\ t[row] = [sheet[row] EXCEPT ![col] = read + 1]
        /\ \A r \in Rows : r # row => t[r] = sheet[r]
        /\ RowUsed(t, row)
        /\ \A r \in Rows : r # row => (RowUsed(t, r) <=> RowUsed(sheet, r))
  BY <1>1, <1>2, SheetWritten
<1>6. \A i \in DOMAIN wire : wire[i].row \in Rows /\ wire[i].row < current
  BY <1>2, <1>4, AllAbove
<1>7. current \in Nat /\ row \in Nat
  BY <1>1, SizeAssumption DEF TypeOK, Rows
<1>8. /\ \A i \in DOMAIN q : q[i].row # row
      /\ \A i \in DOMAIN wire : wire[i].row # row
  <2>1. \A i \in DOMAIN q : q[i].row \in Nat /\ q[i].row <= current
    BY <1>3, SizeAssumption DEF Rows
  <2>2. \A i \in DOMAIN wire : wire[i].row \in Nat /\ wire[i].row < current
    BY <1>6, SizeAssumption DEF Rows
  <2> QED  BY <1>2, <1>7, <2>1, <2>2
<1>9. ~RowUsed(sheet, row)  BY <1>3, <1>8, Zenon DEF HasRow
<1>10. t[row] = OneCell(col, read + 1)
  <2>1. sheet \in [Rows -> Widths]  BY <1>1 DEF TypeOK
  <2>2. PICK n : n = read + 1  OBVIOUS
  <2>3. PICK x : x = t[row]  OBVIOUS
  <2>4. x = [sheet[row] EXCEPT ![col] = n] /\ ~RowUsed(sheet, row)
    BY <1>5, <1>9, <2>2, <2>3
  <2>5. x = OneCell(col, n)
    BY ONLY <2>1, <2>4, row \in Rows, OnlyCell
  <2> QED  BY <2>2, <2>3, <2>5
<1>11. Settled(q, t)
  <2>1. \A i \in DOMAIN q : t[q[i].row] = sheet[q[i].row]
    BY <1>3, <1>5, <1>8
  <2> QED  BY ONLY <1>3, <2>1, SettledStays
<1>12. Settled(wire, t)
  <2>1. \A i \in DOMAIN wire : t[wire[i].row] = sheet[wire[i].row]
    BY <1>5, <1>6, <1>8
  <2> QED  BY ONLY <1>4, <2>1, SettledStays
<1>13. /\ Settled(queue', t) /\ Settled(wire', t)
       /\ \A r : HasRow(wire, r) \/ HasRow(q, r)
                  => HasRow(wire', r) \/ HasRow(queue', r)
  <2>1. CASE queue' = q /\ wire' = wire  BY <1>11, <1>12, <2>1
  <2>2. CASE Flush(q)
    <3>1. \A i \in DOMAIN q : highestSent < q[i].row  BY <1>3, Zenon
    <3>2. /\ queue' = <<>> /\ Settled(wire', t)
          /\ \A r : HasRow(q, r) \/ HasRow(wire, r) => HasRow(wire', r)
      BY ONLY <1>1, <1>3, <1>11, <1>12, <2>2, <3>1, FlushSettles
    <3>3. Settled(<<>>, t)
      <4>1. ~\E i : i \in DOMAIN <<>>  OBVIOUS
      <4> QED  BY <4>1, Zenon DEF Settled
    <3> QED  BY <3>2, <3>3, Zenon
  <2> QED  BY <1>2, <1>3, <2>1, <2>2 DEF Push
<1>14. began' /\ current' <= at'  BY <1>2, <1>7
<1>15. values' = t[current'] /\ RowUsed(t, current')  BY <1>2, <1>5, <1>10
<1>16. \A r \in Rows : RowUsed(t, r) =>
          HasRow(wire', r) \/ HasRow(queue', r) \/ (open' /\ r = current')
  BY <1>2, <1>3, <1>5, <1>13, Zenon
<1> QED  BY <1>5, <1>13, <1>14, <1>15, <1>16, Zenon DEF Flowing

LEMMA ReadFlows ==
  ASSUME IInv, WalkInv, FlowInv, NEW row \in Rows, NEW col \in Cols,
         NEW id \in 0..Least(interned + 1, MaxCells), BothRead(row, col, id)
  PROVE  FlowInv'
<1>1. /\ phase = "reading" /\ phase' \in {"reading", "failed"}
      /\ Walk(row, col, read + 1)
  BY DEF BothRead, FirstCell, SameRow, NextRow, LateRow, TooLate, Receive
<1>2. ASSUME inOrder', phase' = "reading"  PROVE Flowing'
  <2>1. inOrder /\ (began => at <= row) /\ began' = TRUE
    BY <1>1, <1>2 DEF Walk
  <2>2. Flowing /\ Standing  BY <1>1, <2>1 DEF FlowInv, WalkInv
  <2>3. at \in Nat /\ row \in Nat /\ current \in Nat
    BY <2>2, SizeAssumption DEF Standing, IInv, TypeOK, Rows
  <2>4. at' = row  BY <1>1, <2>1, <2>3 DEF Walk
  <2>5. open => current <= at /\ at <= row  BY <2>1, <2>2 DEF Flowing
  <2>6. ~(LateRow(row, col, id) \/ TooLate(row, col, id))
    BY <2>3, <2>5 DEF LateRow, TooLate
  <2>7. FirstCell(row, col, id) \/ SameRow(row, col, id) \/ NextRow(row, col, id)
    BY <2>6, Zenon DEF BothRead
  <2> QED
    BY <1>2, <2>1, <2>2, <2>4, <2>7, FirstFlows, SameFlows, NextFlows
<1> QED  BY <1>1, <1>2 DEF FlowInv

LEMMA BlankFlows ==
  ASSUME IInv, WalkInv, FlowInv, NEW row \in Rows, NEW col \in Cols,
         BothMeetBlank(row, col)
  PROVE  FlowInv'
<1>1. phase = "reading" /\ Walk(row, col, 0) /\ UNCHANGED vars
  BY DEF BothMeetBlank
<1>2. ASSUME inOrder'  PROVE Flowing'
  <2>1. inOrder /\ (began => at <= row) /\ began' = TRUE
    BY <1>1, <1>2 DEF Walk
  <2>2. Flowing /\ Standing  BY <1>1, <2>1 DEF FlowInv, WalkInv
  <2>3. at \in Nat /\ row \in Nat /\ current \in Nat
    BY <2>2, SizeAssumption DEF Standing, IInv, TypeOK, Rows
  <2>4. at' = row  BY <1>1, <2>1, <2>3 DEF Walk
  <2>5. UNCHANGED <<queue, wire, sheet, open, current, values>>
    BY <1>1 DEF vars, rowVars, batchVars, histVars
  <2>6. open' => began' /\ current' <= at'
    <3>1. open => current <= row  BY <2>1, <2>2, <2>3 DEF Flowing
    <3> QED  BY <2>1, <2>4, <2>5, <3>1
  <2> QED  BY <2>2, <2>5, <2>6, Zenon DEF Flowing
<1>3. phase' = "reading"  BY <1>1 DEF vars
<1> QED  BY <1>2, <1>3 DEF FlowInv

LEMMA EndFlows ==
  ASSUME IInv, FlowInv, BothEnd
  PROVE  FlowInv'
<1>1. /\ phase = "reading" /\ phase' \in {"failed", "ended"}
      /\ inOrder' = inOrder /\ sheet' = sheet /\ EndOfSheet
  BY DEF BothEnd, EndOfSheet, WalkEnds, histVars
<1>2. TypeOK /\ Marks /\ CurrentAhead  BY DEF IInv, Order
<1>3. ASSUME inOrder, phase' = "ended"  PROVE WireWhole'
  <2>1. Flowing  BY <1>1, <1>3 DEF FlowInv
  <2>2. Settled(wire, sheet)  BY <2>1, Zenon DEF Flowing
  <2>3. CASE open
    <3>1. PICK q \in Seq(QueuedRow) :
        /\ q = Queued(queue, current, values) /\ q # <<>>
        /\ Settled(q, sheet)
        /\ \A i \in DOMAIN q : q[i].row \in Rows /\ highestSent < q[i].row
                               /\ q[i].row <= current
        /\ \A r \in Rows : RowUsed(sheet, r) => HasRow(wire, r) \/ HasRow(q, r)
      BY <1>1, <2>1, <2>3, CurrentQueued
    <3>2. Flush(q)  BY <1>1, <1>3, <2>3, <3>1 DEF EndOfSheet
    <3>3. \A i \in DOMAIN q : highestSent < q[i].row  BY <3>1, Zenon
    <3>4. /\ Settled(wire', sheet)
          /\ \A r : HasRow(q, r) \/ HasRow(wire, r) => HasRow(wire', r)
      BY ONLY <1>2, <2>2, <3>1, <3>2, <3>3, FlushSettles
    <3> QED  BY <1>1, <3>1, <3>4, Zenon DEF WireWhole
  <2>4. CASE ~open
    <3>1. queue = <<>>  BY <1>1, <1>2, <2>4 DEF CurrentAhead
    <3>2. wire' = wire  BY <1>1, <1>3, <2>4, <3>1 DEF EndOfSheet, Flush, batchVars
    <3>3. ~\E i : i \in DOMAIN <<>>  OBVIOUS
    <3>4. \A r \in Rows : RowUsed(sheet, r) => HasRow(wire, r)
      BY <2>1, <2>4, <3>1, <3>3, Zenon DEF Flowing, HasRow
    <3> QED  BY <1>1, <2>2, <3>2, <3>4, Zenon DEF WireWhole
  <2> QED  BY <2>3, <2>4
<1> QED  BY <1>1, <1>3 DEF FlowInv

-----------------------------------------------------------------------------
(* Widths of the walk's rows.                                              *)

LEMMA WiderStill ==
  ASSUME NEW g \in Seq(WalkedRow), NEW low \in Nat, NEW m \in Nat, NEW n \in Nat,
         m <= n, Between(g, low, m)
  PROVE  Between(g, low, n)
<1>1. \A i \in 1..Len(g) : Len(g[i].vals) \in Nat
  <2>1. \A i \in 1..Len(g) : g[i] \in WalkedRow  OBVIOUS
  <2> QED  BY <2>1 DEF WalkedRow
<1> QED  BY <1>1 DEF Between

LEMMA ReleasedBetween ==
  ASSUME Standing, declared \in Cols, declared + 1 <= Len(line),
         Between(grid, declared + 1, Len(line))
  PROVE  /\ grid \o Released \in Seq(WalkedRow)
         /\ Between(grid \o Released, declared + 1, Len(line))
<1> DEFINE L == Len(grid)
           W == Len(line)
           low == declared + 1
           b == Blank(W)
           gap(i) == [row |-> at - pendingEmpty + i - 1, vals |-> b]
           x == [row |-> at, vals |-> line]
           k == pendingEmpty
<1>1. /\ grid \in Seq(WalkedRow) /\ L \in Nat /\ k \in Nat /\ at \in Nat
      /\ line \in Seq(Nat) /\ W \in Nat /\ at \in Rows /\ GridUpTo(grid, sheet, at)
      /\ Waits(grid, k, at)
  BY GridIs, SizeAssumption DEF Standing, LineIs, Rows, GridUpTo
<1>2. b \in Seq(Nat) /\ Len(b) = W  BY <1>1, BlankIs
<1>3. CASE ~hasValue
  <2>1. Released = <<>>  BY <1>3, Zenon DEF Released
  <2>2. grid \o <<>> = grid  BY <1>1
  <2> QED  BY <1>1, <2>1, <2>2
<1>4. CASE hasValue
  <2>1. PICK rel : rel = Released  OBVIOUS
  <2>2. rel = Append([i \in 1..k |-> gap(i)], x)
    BY <1>4, <2>1, Zenon DEF Released
  <2>3. \A i \in 1..k : gap(i) \in WalkedRow
    <3> SUFFICES ASSUME NEW i \in 1..k  PROVE gap(i) \in WalkedRow
      OBVIOUS
    <3>1. grid # <<>> => grid[L].row \in Rows
      BY <1>1, GridIs
    <3>2. grid # <<>> /\ grid[L].row + k + 1 = at  BY <1>1 DEF Waits
    <3>3. at - k + i - 1 \in Rows
      BY <1>1, <3>1, <3>2, SizeAssumption DEF Rows
    <3> HIDE DEF b
    <3> QED  BY <1>2, <3>3 DEF WalkedRow
  <2>4. x \in WalkedRow  BY <1>1 DEF WalkedRow
  <2>5. /\ \A i \in 1..k : Len(gap(i).vals) = W
        /\ Len(x.vals) = W
    BY <1>2
  <2> DEFINE gaps == [i \in 1..k |-> gap(i)]
  <2>6. gaps \in [1..k -> WalkedRow] /\ \A i \in 1..k : gaps[i] = gap(i)
    <3> HIDE DEF gap
    <3> QED  BY <2>3
  <2>7. rel = Append(gaps, x)  BY <2>2
  <2> HIDE DEF gaps, gap, x
  <2>8. gaps \in Seq(WalkedRow) /\ Len(gaps) = k
    <3>1. gaps \in Seq(WalkedRow)  BY ONLY <1>1, <2>6
    <3>2. DOMAIN gaps = 1..k  BY <2>6
    <3> QED  BY ONLY <1>1, <3>1, <3>2
  <2>9. /\ rel \in Seq(WalkedRow) /\ Len(rel) = k + 1
        /\ \A i \in 1..k : rel[i] = gaps[i]
        /\ rel[k + 1] = x
    BY ONLY <1>1, <2>4, <2>7, <2>8, SMTT(60)
  <2>10. /\ grid \o rel \in Seq(WalkedRow) /\ Len(grid \o rel) = L + (k + 1)
         /\ \A i \in 1..L : (grid \o rel)[i] = grid[i]
         /\ \A i \in 1..(k + 1) : (grid \o rel)[L + i] = rel[i]
    BY ONLY <1>1, <2>9, SMTT(60)
  <2>11. \A i \in 1..(k + 1) : Len(rel[i].vals) = W
    <3> SUFFICES ASSUME NEW i \in 1..(k + 1)  PROVE Len(rel[i].vals) = W
      OBVIOUS
    <3>1. i \in 1..k \/ i = k + 1  BY <1>1
    <3> QED  BY <2>5, <2>6, <2>9, <3>1
  <2>12. PICK h : h = grid \o rel  OBVIOUS
  <2>13. ASSUME NEW i \in 1..Len(h)
         PROVE  low <= Len(h[i].vals) /\ Len(h[i].vals) <= W
    <3>1. Len(h) = L + (k + 1)  BY <2>10, <2>12
    <3>2. i \in 1..L \/ (i - L \in 1..(k + 1) /\ L + (i - L) = i)
      BY <1>1, <3>1
    <3>3. CASE i \in 1..L
      <4>1. h[i] = grid[i]  BY <2>10, <2>12, <3>3
      <4> QED  BY <3>3, <4>1 DEF Between
    <3>4. CASE i - L \in 1..(k + 1) /\ L + (i - L) = i
      <4>1. h[i] = rel[i - L]  BY <2>10, <2>12, <3>4
      <4> QED  BY <1>1, <2>11, <3>4, <4>1
    <3> QED  BY <3>2, <3>3, <3>4
  <2>14. Between(h, low, W)  BY <2>13, Zenon DEF Between
  <2> QED  BY <2>1, <2>10, <2>12, <2>14
<1> QED  BY <1>3, <1>4

(* The line a cell leaves is no narrower than the one it met. *)
LEMMA LineWidens ==
  ASSUME Standing, NEW row \in Rows, NEW col \in Cols, NEW v \in 0..MaxCells,
         Walk(row, col, v)
  PROVE  Len(line') \in Nat /\ Len(line) \in Nat /\ Len(line) <= Len(line')
<1>1. line \in Seq(Nat) /\ Len(line) \in Nat /\ col \in Nat /\ v \in Nat
  BY SizeAssumption DEF Standing, LineIs, Cols
<1>2. \E f \in Seq(Nat) :
        /\ Len(f) = Len(line)
        /\ line' = [(f \o Blank(col + 1 - Len(f))) EXCEPT ![col + 1] = v]
  <2>1. Blank(Len(line)) \in Seq(Nat) /\ Len(Blank(Len(line))) = Len(line)
    BY ONLY <1>1, BlankIs
  <2>2. CASE began /\ at < row
    <3>1. PICK f : f = Blank(Len(line))  OBVIOUS
    <3>2. line' = [(f \o Blank(col + 1 - Len(f))) EXCEPT ![col + 1] = v]
      BY <2>2, <3>1 DEF Walk
    <3> QED  BY ONLY <2>1, <3>1, <3>2
  <2>3. CASE ~(began /\ at < row)
    <3>1. line' = [(line \o Blank(col + 1 - Len(line))) EXCEPT ![col + 1] = v]
      BY <2>3 DEF Walk
    <3> QED  BY <1>1, <3>1
  <2> QED  BY <2>2, <2>3
<1>3. PICK f \in Seq(Nat) :
        /\ Len(f) = Len(line)
        /\ line' = [(f \o Blank(col + 1 - Len(f))) EXCEPT ![col + 1] = v]
  BY <1>2
<1>4. PICK b : b = Blank(col + 1 - Len(f))  OBVIOUS
<1>5. b \in Seq(Nat) /\ Len(b) = (IF col + 1 - Len(f) < 0 THEN 0 ELSE col + 1 - Len(f))
  <2>1. col + 1 - Len(f) \in Int  BY <1>1
  <2> QED  BY ONLY <1>4, <2>1, BlankIs
<1>6. PICK h : h = f \o b  OBVIOUS
<1>7. h \in Seq(Nat) /\ Len(h) = Len(f) + Len(b)
  <2>1. f \in Seq(Nat) /\ b \in Seq(Nat)  BY <1>5
  <2> QED  BY ONLY <1>6, <2>1
<1>8. line' = [h EXCEPT ![col + 1] = v]  BY <1>3, <1>4, <1>6
<1>9. PICK l : l = line'  OBVIOUS
<1>10. Len(l) = Len(h)
  <2>1. l = [h EXCEPT ![col + 1] = v]  BY <1>8, <1>9
  <2> QED  BY ONLY <1>1, <1>7, <2>1
<1>11. Len(f) \in Nat /\ Len(b) \in Nat  BY ONLY <1>3, <1>5
<1> QED  BY <1>1, <1>3, <1>7, <1>9, <1>10, <1>11

LEMMA WalkWidens ==
  ASSUME WalkInv, WidthInv, phase = "reading", NEW row \in Rows, NEW col \in Cols,
         NEW v \in 0..MaxCells, Walk(row, col, v)
  PROVE  WidthInv'
<1> SUFFICES ASSUME inOrder'
             PROVE  /\ declared' \in Cols /\ declared' + 1 <= Len(line')
                    /\ Between(grid', declared' + 1, Len(line'))
  BY DEF WidthInv
<1>1. inOrder /\ declared' = declared  BY DEF Walk
<1>2. Standing  BY <1>1 DEF WalkInv
<1>3. /\ declared \in Cols /\ declared + 1 <= Len(line)
      /\ Between(grid, declared + 1, Len(line))
  BY <1>1 DEF WidthInv
<1>4. PICK m \in Nat, n \in Nat : m = Len(line) /\ n = Len(line') /\ m <= n
  <2>1. Len(line') \in Nat /\ Len(line) \in Nat /\ Len(line) <= Len(line')
    BY <1>2, LineWidens
  <2> QED  BY <2>1
<1>5. declared + 1 \in Nat  BY <1>3, SizeAssumption DEF Cols
<1>6. PICK g \in Seq(WalkedRow) : g = grid' /\ Between(g, declared + 1, m)
  <2>1. /\ grid \o Released \in Seq(WalkedRow)
        /\ Between(grid \o Released, declared + 1, Len(line))
    BY <1>2, <1>3, ReleasedBetween
  <2>2. grid \in Seq(WalkedRow)  BY <1>2, Zenon DEF Standing, GridUpTo
  <2>3. grid' = grid \o Released \/ grid' = grid  BY DEF Walk
  <2> QED  BY <1>3, <1>4, <2>1, <2>2, <2>3
<1>7. Between(g, declared + 1, n)  BY ONLY <1>4, <1>5, <1>6, WiderStill
<1>8. declared + 1 <= n  BY <1>3, <1>4, <1>5
<1> QED  BY <1>1, <1>3, <1>4, <1>6, <1>7, <1>8

LEMMA InitGate == BenchInit => FlowInv /\ WidthInv /\ CellInv
<1> SUFFICES ASSUME BenchInit  PROVE FlowInv /\ WidthInv /\ CellInv
  OBVIOUS
<1>1. /\ phase = "reading" /\ sheet = [r \in Rows |-> EmptyRow]
      /\ queue = <<>> /\ wire = <<>> /\ open = FALSE
      /\ declared \in Cols /\ line = Blank(declared + 1) /\ grid = <<>>
  BY DEF BenchInit, Init, WalkInit
<1>2. \A r \in Rows, c \in Cols : sheet[r][c] = 0  BY <1>1 DEF EmptyRow
<1>3. \A r \in Rows : ~RowUsed(sheet, r)  BY <1>2, Zenon DEF RowUsed
<1>4. ~\E i : i \in DOMAIN <<>>  OBVIOUS
<1>5. Settled(<<>>, sheet)  BY <1>4, Zenon DEF Settled
<1>6. Flowing  BY <1>1, <1>3, <1>5, Zenon DEF Flowing
<1>7. WidthInv
  <2>1. declared + 1 \in Nat  BY <1>1, SizeAssumption DEF Cols
  <2>2. Len(line) = declared + 1
    BY ONLY <1>1, <2>1, BlankIs
  <2>3. ~\E i : i \in 1..Len(<<>>)  OBVIOUS
  <2>4. Between(grid, declared + 1, Len(line))  BY <1>1, <2>3, Zenon DEF Between
  <2> QED  BY <1>1, <2>1, <2>2, <2>4 DEF WidthInv
<1> QED  BY <1>1, <1>6, <1>7, InitCells DEF FlowInv, BenchInit

LEMMA StepGate ==
  IInv /\ WalkInv /\ FlowInv /\ WidthInv /\ CellInv /\ [BenchNext]_<<vars, walkVars>>
    => FlowInv' /\ WidthInv' /\ CellInv'
<1> SUFFICES ASSUME IInv, WalkInv, FlowInv, WidthInv, CellInv,
                    [BenchNext]_<<vars, walkVars>>
             PROVE  FlowInv' /\ WidthInv' /\ CellInv'
  OBVIOUS
<1>1. ASSUME NEW row \in Rows, NEW col \in Cols,
             NEW id \in 0..Least(interned + 1, MaxCells), BothRead(row, col, id)
      PROVE  FlowInv' /\ WidthInv' /\ CellInv'
  <2>1. [Next]_vars  BY <1>1, Zenon DEF BothRead, Next, CellNext
  <2>2. phase = "reading" /\ Walk(row, col, read + 1) /\ read + 1 \in 0..MaxCells
    BY <1>1, SizeAssumption
       DEF BothRead, FirstCell, SameRow, NextRow, LateRow, TooLate, Receive,
           IInv, TypeOK
  <2> QED  BY <1>1, <2>1, <2>2, ReadFlows, WalkWidens, StepCells
<1>2. ASSUME NEW row \in Rows, NEW col \in Cols, BothMeetBlank(row, col)
      PROVE  FlowInv' /\ WidthInv' /\ CellInv'
  <2>1. [Next]_vars  BY <1>2, Zenon DEF BothMeetBlank
  <2>2. phase = "reading" /\ Walk(row, col, 0) /\ 0 \in 0..MaxCells
    BY <1>2, SizeAssumption DEF BothMeetBlank
  <2> QED  BY <1>2, <2>1, <2>2, BlankFlows, WalkWidens, StepCells
<1>3. CASE BothEnd
  <2>1. [Next]_vars  BY <1>3, Zenon DEF BothEnd, Next
  <2>2. /\ phase = "reading" /\ grid' = grid \o Released
        /\ inOrder' = inOrder /\ line' = line /\ declared' = declared
    BY <1>3 DEF BothEnd, EndOfSheet, WalkEnds
  <2>3. ASSUME inOrder
        PROVE  /\ declared \in Cols /\ declared + 1 <= Len(line)
               /\ Between(grid \o Released, declared + 1, Len(line))
    <3>1. Standing  BY <2>2, <2>3 DEF WalkInv
    <3>2. /\ declared \in Cols /\ declared + 1 <= Len(line)
          /\ Between(grid, declared + 1, Len(line))
      BY <2>2, <2>3 DEF WidthInv
    <3> QED  BY <3>1, <3>2, ReleasedBetween
  <2>4. WidthInv'  BY <2>2, <2>3 DEF WidthInv
  <2> QED  BY <1>3, <2>1, <2>4, EndFlows, StepCells
<1>4. CASE (ReadFails \/ ClientGone) /\ UNCHANGED walkVars
  <2>1. [Next]_vars  BY <1>4, Zenon DEF Next
  <2>2. phase' \in {"failed", "gone"}  BY <1>4 DEF ReadFails, ClientGone
  <2>3. FlowInv' /\ WidthInv'  BY <2>2 DEF FlowInv, WidthInv
  <2> QED  BY <2>1, <2>3, StepCells
<1>5. CASE UNCHANGED <<vars, walkVars>>
  <2>1. [Next]_vars  BY <1>5
  <2>2. UNCHANGED <<phase, sheet, queue, wire, open, current, values, began, at,
                    line, grid, declared, inOrder>>
    BY <1>5 DEF vars, histVars, rowVars, batchVars, walkVars
  <2>3. FlowInv'
    <3>1. (Flowing => Flowing') /\ (WireWhole => WireWhole')
      BY <2>2, Zenon DEF Flowing, WireWhole
    <3> QED  BY <2>2, <3>1, Zenon DEF FlowInv
  <2>4. WidthInv'  BY <2>2 DEF WidthInv
  <2> QED  BY <2>1, <2>3, <2>4, StepCells
<1> QED  BY <1>1, <1>2, <1>3, <1>4, <1>5, Zenon DEF BenchNext

(* What both sides of the gate hold of a sheet in order. *)
THEOREM GateInvariance ==
  BenchSpec => [](IInv /\ WalkInv /\ FlowInv /\ WidthInv /\ CellInv)
<1>1. BenchInit => IInv /\ WalkInv /\ WalkIsRange /\ FlowInv /\ WidthInv /\ CellInv
  BY InitWalk, InitGate
<1>2. /\ IInv /\ WalkInv /\ WalkIsRange /\ FlowInv /\ WidthInv /\ CellInv
      /\ [BenchNext]_<<vars, walkVars>>
      => (IInv /\ WalkInv /\ WalkIsRange /\ FlowInv /\ WidthInv /\ CellInv)'
  BY StepWalks, StepGate
<1> QED  BY <1>1, <1>2, PTL DEF BenchSpec

-----------------------------------------------------------------------------
(***************************************************************************)
(* What the arms are fed.                                                  *)
(***************************************************************************)
Tokens == {RowMark(r) : r \in Int} \cup {FromValue(n) : n \in 0..MaxCells}
Told(x) ==
    <<RowMark(x.row)>> \o [k \in DOMAIN x.vals |-> FromValue(x.vals[k])]

(* Both sides give every variant the same tag. *)
LEMMA TagsAgree ==
  ASSUME NEW kind \in Variants \cup {"Empty", "SharedString"}
  PROVE  TagOfRef[kind] = TagOfValue[data_ref_value[kind]]
<1>1. \/ kind = "Int" \/ kind = "Float" \/ kind = "String" \/ kind = "Bool"
      \/ kind = "DateTime" \/ kind = "DateTimeIso" \/ kind = "DurationIso"
      \/ kind = "Error" \/ kind = "Empty" \/ kind = "SharedString"
  BY DEF Variants
<1> QED  BY <1>1 DEF TagOfRef, TagOfValue, data_ref_value

LEMMA ValueSame ==
  ASSUME ref \in [Serials -> 0..MaxCells], NEW n \in 0..MaxCells
  PROVE  FromRef(n) = FromValue(n)
<1>1. KindOf(n) \in Variants \cup {"Empty", "SharedString"}
  <2>1. CASE n # 0 /\ ref[n] = 0
    <3>1. n \in 1..Len(Kinds) /\ Kinds \in Seq(Variants)
      BY <2>1, SizeAssumption, WalkAssumption
    <3>2. Kinds[n] \in Variants  BY ONLY <3>1
    <3> QED  BY <2>1, <3>2 DEF KindOf
  <2> QED  BY <2>1 DEF KindOf
<1>2. PICK kind : kind = KindOf(n)  OBVIOUS
<1>3. TagOfRef[kind] = TagOfValue[data_ref_value[kind]]
  BY ONLY <1>1, <1>2, TagsAgree
<1> QED  BY <1>2, <1>3, Zenon DEF FromRef, FromValue

(* An id that is defined is looked up as what it stands for. *)
LEMMA ValueResolved ==
  ASSUME NEW n \in 0..MaxCells, NEW defs, n # 0 => ref[n] <= defs
  PROVE  Resolved(n, defs) = FromValue(n)
<1>1. CASE n # 0 /\ ref[n] # 0
  <2>1. KindOf(n) = "SharedString"  BY <1>1, Zenon DEF KindOf
  <2>2. TagOfValue[data_ref_value["SharedString"]] = 4
    BY DEF TagOfValue, data_ref_value
  <2> QED  BY <1>1, <2>1, <2>2, Zenon DEF Resolved, FromValue
<1>2. CASE ~(n # 0 /\ ref[n] # 0)  BY <1>2, Zenon DEF Resolved
<1> QED  BY <1>1, <1>2

LEMMA ToldTyped ==
  ASSUME NEW x, x.row \in Int, NEW n \in Nat, DOMAIN x.vals = 1..n,
         \A k \in 1..n : x.vals[k] \in 0..MaxCells
  PROVE  Told(x) \in Seq(Tokens)
<1>1. PICK a : a = RowMark(x.row)  OBVIOUS
<1>2. PICK c : c = [k \in DOMAIN x.vals |-> FromValue(x.vals[k])]  OBVIOUS
<1>3. a \in Tokens  BY <1>1, Zenon DEF Tokens
<1>4. c \in [1..n -> Tokens]
  <2>1. \A k \in 1..n : FromValue(x.vals[k]) \in Tokens  BY Zenon DEF Tokens
  <2> QED  BY <1>2, <2>1, Zenon
<1>5. c \in Seq(Tokens)  BY ONLY <1>4, n \in Nat
<1>6. <<a>> \o c \in Seq(Tokens)  BY ONLY <1>3, <1>5
<1> QED  BY <1>1, <1>2, <1>6 DEF Told

LEMMA OfRowsIs ==
  ASSUME NEW rows
  PROVE  OfRows(rows, FALSE) = FlattenSeq([i \in DOMAIN rows |-> Told(rows[i])])
BY Zenon DEF OfRows, Told

LEMMA ArmsAgree ==
  ASSUME ref \in [Serials -> 0..MaxCells],
         \A i \in DOMAIN grid : \A k \in DOMAIN grid[i].vals :
            grid[i].vals[k] \in 0..MaxCells
  PROVE  Arm1 = Arm2
<1> DEFINE R(i) == [k \in DOMAIN grid[i].vals |-> FromRef(grid[i].vals[k])]
           V(i) == [k \in DOMAIN grid[i].vals |-> FromValue(grid[i].vals[k])]
<1>1. \A i \in DOMAIN grid : R(i) = V(i)
  <2> SUFFICES ASSUME NEW i \in DOMAIN grid  PROVE R(i) = V(i)
    OBVIOUS
  <2>1. \A k \in DOMAIN grid[i].vals :
          FromRef(grid[i].vals[k]) = FromValue(grid[i].vals[k])
    BY ValueSame, Zenon
  <2> QED  BY <2>1, Zenon
<1>2. [i \in DOMAIN grid |-> <<RowMark(grid[i].row)>> \o R(i)]
        = [i \in DOMAIN grid |-> <<RowMark(grid[i].row)>> \o V(i)]
  <2> HIDE DEF R, V
  <2> QED  BY <1>1, Zenon
<1>3. Arm1 = FlattenSeq([i \in DOMAIN grid |-> <<RowMark(grid[i].row)>> \o R(i)])
  BY Zenon DEF Arm1, OfRows
<1>4. Arm2 = FlattenSeq([i \in DOMAIN grid |-> <<RowMark(grid[i].row)>> \o V(i)])
  BY Zenon DEF Arm2, OfRows
<1> HIDE DEF R, V
<1> QED  BY <1>2, <1>3, <1>4

(* A sheet in order at its end, whose rows all end where it declares.      *)
Gated ==
    /\ TypeOK /\ StringsDefinedFirst /\ GapsTile /\ HeaderRow = NoRow
    /\ WireWhole /\ GridUpTo(grid, sheet, MaxRow + 1)
    /\ declared \in Cols
    /\ \A i \in 1..Len(grid) : Len(grid[i].vals) = declared + 1
    /\ \A i \in DOMAIN wire : LastCol(wire[i].vals) = declared
Place(i) == wire[i].row - grid[1].row + 1

(* The rows of the grid and of the wire. *)
LEMMA GatedRows ==
  ASSUME Gated
  PROVE  /\ Len(grid) \in Nat /\ DOMAIN grid = 1..Len(grid)
         /\ Len(wire) \in Nat /\ DOMAIN wire = 1..Len(wire)
         /\ declared + 1 \in Nat /\ declared + 1 \in 1..(MaxCol + 1)
         /\ \A i \in 1..Len(grid) :
              /\ grid[i].row \in Rows /\ grid[i].row \in Nat
              /\ grid[i].row = grid[1].row + i - 1
              /\ grid[i].vals \in Seq(Nat) /\ Len(grid[i].vals) = declared + 1
              /\ \A c \in 1..(declared + 1) :
                   /\ c - 1 \in Cols
                   /\ grid[i].vals[c] = sheet[grid[i].row][c - 1]
                   /\ grid[i].vals[c] \in 0..MaxCells
         /\ \A i \in 1..Len(wire) :
              /\ wire[i].row \in Rows /\ wire[i].row \in Nat
              /\ wire[i].vals = sheet[wire[i].row]
              /\ RowUsed(sheet, wire[i].row)
         /\ \A i, j \in 1..Len(wire) : i < j => wire[i].row < wire[j].row
<1>1. /\ GridUpTo(grid, sheet, MaxRow + 1) /\ Settled(wire, sheet)
      /\ sheet \in [Rows -> Widths] /\ wire \in Seq(SentRow)
      /\ declared \in Cols
      /\ \A i \in 1..Len(grid) : Len(grid[i].vals) = declared + 1
  BY DEF Gated, TypeOK, WireWhole
<1>2. grid \in Seq(WalkedRow)  BY <1>1, Zenon DEF GridUpTo
<1>3. /\ Len(grid) \in Nat /\ DOMAIN grid = 1..Len(grid)
      /\ Len(wire) \in Nat /\ DOMAIN wire = 1..Len(wire)
      /\ \A i \in 1..Len(wire) : wire[i] \in SentRow
  BY ONLY <1>1, <1>2
<1>4. declared + 1 \in Nat /\ declared + 1 \in 1..(MaxCol + 1)
      /\ \A c \in 1..(declared + 1) : c - 1 \in Cols
  BY ONLY <1>1, SizeAssumption DEF Cols
<1>5. ASSUME NEW i \in 1..Len(grid)
      PROVE  /\ grid[i].row \in Rows /\ grid[i].row \in Nat
             /\ grid[i].row = grid[1].row + i - 1
             /\ grid[i].vals \in Seq(Nat) /\ Len(grid[i].vals) = declared + 1
             /\ \A c \in 1..(declared + 1) :
                   /\ c - 1 \in Cols
                   /\ grid[i].vals[c] = sheet[grid[i].row][c - 1]
                   /\ grid[i].vals[c] \in 0..MaxCells
  <2>1. grid[i].row \in Rows /\ grid[i].vals \in Seq(Nat)  BY <1>1, GridIs
  <2>2. grid[i].row = grid[1].row + i - 1  BY <1>1, GridAscends
  <2>3. RowIs(grid[i], sheet) /\ Len(grid[i].vals) = declared + 1
    BY <1>1, Zenon DEF GridUpTo
  <2>4. \A c \in 1..(declared + 1) : grid[i].vals[c] = sheet[grid[i].row][c - 1]
    BY <2>3, Zenon DEF RowIs
  <2>5. \A c \in Cols : sheet[grid[i].row][c] \in 0..MaxCells
    <3>1. sheet[grid[i].row] \in Widths  BY <1>1, <2>1
    <3> QED  BY ONLY <3>1 DEF Widths
  <2>6. \A c \in 1..(declared + 1) : grid[i].vals[c] \in 0..MaxCells
    BY <1>4, <2>4, <2>5, Zenon
  <2>7. grid[i].row \in Nat  BY ONLY <2>1, SizeAssumption DEF Rows
  <2> QED  BY <1>4, <2>1, <2>2, <2>3, <2>4, <2>6, <2>7, Zenon
<1>6. \A i \in 1..Len(wire) :
        /\ wire[i].row \in Rows /\ wire[i].row \in Nat
        /\ wire[i].vals = sheet[wire[i].row] /\ RowUsed(sheet, wire[i].row)
  <2>1. \A i \in 1..Len(wire) : wire[i].row \in Rows /\ wire[i].row \in Nat
    BY ONLY <1>3, SizeAssumption DEF SentRow, Rows
  <2>2. \A i \in DOMAIN wire :
          wire[i].vals = sheet[wire[i].row] /\ RowUsed(sheet, wire[i].row)
    BY <1>1, Zenon DEF Settled
  <2> QED  BY <1>3, <2>1, <2>2, Zenon
<1>7. \A i, j \in 1..Len(wire) : i < j => wire[i].row < wire[j].row
  <2>1. \A i, j \in DOMAIN wire : i < j => wire[i].row < wire[j].row
    BY <1>1, Zenon DEF Settled
  <2> QED  BY <1>3, <2>1, Zenon
<1> QED  BY ONLY <1>3, <1>4, <1>5, <1>6, <1>7, Zenon

(* A row with a value has its place in the grid and on the wire. *)
LEMMA PlaceIs ==
  ASSUME Gated, NEW i \in DOMAIN wire
  PROVE  Place(i) \in 1..Len(grid) /\ grid[Place(i)].row = wire[i].row
<1>1. i \in 1..Len(wire) /\ wire[i].row \in Rows /\ wire[i].row \in Nat
      /\ RowUsed(sheet, wire[i].row)
  BY GatedRows
<1>2. PICK r \in Nat : r = wire[i].row  BY <1>1
<1>3. PICK c \in Cols : sheet[r][c] # 0  BY <1>1, <1>2, Zenon DEF RowUsed
<1>4. r \in Rows /\ r < MaxRow + 1  BY <1>1, <1>2, SizeAssumption DEF Rows
<1>5. PICK j \in 1..Len(grid) : grid[j].row = r
  BY <1>3, <1>4, Zenon DEF Gated, GridUpTo
<1>6. Len(grid) \in Nat /\ grid[j].row = grid[1].row + j - 1 /\ grid[1].row \in Nat
  <2>1. 1 \in 1..Len(grid) /\ Len(grid) \in Nat  BY GatedRows
  <2> QED  BY <2>1, GatedRows, Zenon
<1>7. j = Place(i)
  <2>1. j \in Nat  BY <1>6
  <2> QED  BY <1>2, <1>5, <1>6, <2>1 DEF Place
<1> QED  BY <1>2, <1>5, <1>7

LEMMA PlaceOf ==
  ASSUME Gated, NEW k \in 1..Len(grid), RowUsed(sheet, grid[k].row)
  PROVE  \E i \in DOMAIN wire : Place(i) = k /\ wire[i].row = grid[k].row
<1>1. /\ 1 \in 1..Len(grid) /\ grid[k].row \in Rows /\ grid[k].row \in Nat
      /\ grid[k].row = grid[1].row + k - 1
  BY GatedRows
<1>2. grid[1].row \in Nat  BY <1>1, GatedRows
<1>3. PICK i \in DOMAIN wire : wire[i].row = grid[k].row
  BY <1>1, Zenon DEF Gated, WireWhole, HasRow
<1>4. Place(i) = k  BY <1>1, <1>2, <1>3 DEF Place
<1> QED  BY <1>3, <1>4

(* The first row of the wire is the grid's first, its last the last. *)
LEMMA PlaceEnds ==
  ASSUME Gated
  PROVE  /\ wire = <<>> <=> grid = <<>>
         /\ wire # <<>> => /\ 1 \in DOMAIN wire /\ Place(1) = 1
                          /\ Len(wire) \in DOMAIN wire /\ Place(Len(wire)) = Len(grid)
<1> DEFINE G == Len(grid)
           L == Len(wire)
<1>1. G \in Nat /\ L \in Nat /\ DOMAIN wire = 1..L /\ DOMAIN grid = 1..G
  BY GatedRows
<1>2. /\ wire \in Seq(SentRow) /\ grid \in Seq(WalkedRow)
      /\ grid # <<>> => RowUsed(sheet, grid[1].row) /\ RowUsed(sheet, grid[G].row)
  BY DEF Gated, TypeOK, GridUpTo
<1>3. (wire = <<>> <=> L = 0) /\ (grid = <<>> <=> G = 0)  BY <1>2
<1>4. \A i, j \in 1..L : i < j => wire[i].row < wire[j].row  BY GatedRows, Zenon
<1>5. \A i \in 1..L : wire[i].row \in Nat  BY GatedRows, Zenon
<1>6. \A i \in 1..L : Place(i) \in 1..G  BY <1>1, PlaceIs
<1>7. G # 0 => grid[1].row \in Nat
  <2>1. G # 0 => 1 \in 1..G  BY <1>1
  <2> QED  BY <2>1, GatedRows, Zenon
<1>8. G # 0 => \E i, j \in 1..L : Place(i) = 1 /\ Place(j) = G
  <2> SUFFICES ASSUME G # 0  PROVE \E i, j \in 1..L : Place(i) = 1 /\ Place(j) = G
    OBVIOUS
  <2>1. 1 \in 1..G /\ G \in 1..G  BY <1>1
  <2>2. RowUsed(sheet, grid[1].row) /\ RowUsed(sheet, grid[G].row)  BY <1>2, <1>3
  <2>3. \E i \in DOMAIN wire : Place(i) = 1  BY <2>1, <2>2, PlaceOf
  <2>4. \E j \in DOMAIN wire : Place(j) = G  BY <2>1, <2>2, PlaceOf
  <2> QED  BY <1>1, <2>3, <2>4
<1>9. L # 0 => G # 0
  <2>1. L # 0 => 1 \in 1..L  BY <1>1
  <2> QED  BY <1>1, <1>6, <2>1
<1> HIDE DEF G, L
<1>10. ASSUME L # 0  PROVE 1 \in 1..L /\ Place(1) = 1 /\ L \in 1..L /\ Place(L) = G
  <2>1. 1 \in 1..L /\ L \in 1..L  BY <1>1, <1>10
  <2>2. PICK i \in 1..L, j \in 1..L : Place(i) = 1 /\ Place(j) = G
    BY <1>8, <1>9, <1>10
  <2>3. PICK g \in Nat : g = grid[1].row  BY <1>7, <1>9, <1>10
  <2>4. PICK a \in Nat, b \in Nat, x \in Nat, y \in Nat :
          a = wire[1].row /\ b = wire[L].row /\ x = wire[i].row /\ y = wire[j].row
    BY <1>5, <2>1
  <2>5. a <= x /\ y <= b
    <3>1. (1 = i \/ 1 < i) /\ (j = L \/ j < L)  BY <1>1
    <3>2. (1 < i => wire[1].row < wire[i].row) /\ (j < L => wire[j].row < wire[L].row)
      BY <1>4, <2>1, Zenon
    <3> QED  BY <2>4, <3>1, <3>2
  <2>6. /\ Place(1) = a - g + 1 /\ Place(L) = b - g + 1
        /\ Place(i) = x - g + 1 /\ Place(j) = y - g + 1
    BY <2>3, <2>4, Zenon DEF Place
  <2>7. Place(1) \in 1..G /\ Place(L) \in 1..G  BY <1>6, <2>1, Zenon
  <2> QED  BY ONLY <1>1, <2>1, <2>2, <2>5, <2>6, <2>7
<1> QED  BY <1>1, <1>3, <1>8, <1>9, <1>10 DEF G, L

(* A row as arm_grpc reads it off the wire is the grid's row. *)
LEMMA ToldFromWire ==
  ASSUME Gated, NEW i \in DOMAIN wire
  PROVE  LET cells == [k \in 1..(LastCol(wire[i].vals) + 1) |->
                        Resolved(wire[i].vals[k - 1], wire[i].defs)] IN
         /\ cells \in Seq(Tokens)
         /\ <<RowMark(wire[i].row)>> \o cells = Told(grid[Place(i)])
<1>1. PICK p \in 1..Len(grid) : p = Place(i) /\ grid[p].row = wire[i].row
  BY PlaceIs
<1>2. PICK W \in Nat : W = declared + 1  BY GatedRows
<1>3. LastCol(wire[i].vals) + 1 = W  BY <1>2 DEF Gated
<1>4. /\ grid[p].vals \in Seq(Nat) /\ Len(grid[p].vals) = W
      /\ \A c \in 1..W :
            /\ c - 1 \in Cols
            /\ grid[p].vals[c] = sheet[grid[p].row][c - 1]
            /\ grid[p].vals[c] \in 0..MaxCells
  BY <1>2, GatedRows, Zenon
<1>5. DOMAIN grid[p].vals = 1..W  BY ONLY <1>4
<1>6. wire[i].vals = sheet[wire[i].row]  BY GatedRows
<1>7. ASSUME NEW k \in 1..W
      PROVE  Resolved(wire[i].vals[k - 1], wire[i].defs) = FromValue(grid[p].vals[k])
  <2>1. PICK n \in 0..MaxCells : n = grid[p].vals[k]  BY <1>4
  <2>2. wire[i].vals[k - 1] = n /\ k - 1 \in Cols  BY <1>1, <1>4, <1>6, <2>1
  <2>3. n # 0 => ref[n] <= wire[i].defs
    BY <2>2, Zenon DEF Gated, StringsDefinedFirst
  <2>4. Resolved(n, wire[i].defs) = FromValue(n)  BY <2>3, ValueResolved
  <2> QED  BY <2>1, <2>2, <2>4
<1>8. [k \in 1..W |-> Resolved(wire[i].vals[k - 1], wire[i].defs)]
      = [k \in 1..W |-> FromValue(grid[p].vals[k])]
  BY <1>7, Zenon
<1>9. Told(grid[p]) = <<RowMark(wire[i].row)>> \o
                        [k \in 1..W |-> FromValue(grid[p].vals[k])]
  BY <1>1, <1>5, Zenon DEF Told
<1>10. [k \in 1..W |-> FromValue(grid[p].vals[k])] \in Seq(Tokens)
  <2>1. \A k \in 1..W : FromValue(grid[p].vals[k]) \in Tokens
    BY <1>4, Zenon DEF Tokens
  <2>2. PICK c : c = [k \in 1..W |-> FromValue(grid[p].vals[k])]  OBVIOUS
  <2>3. c \in [1..W -> Tokens]  BY <2>1, <2>2, Zenon
  <2>4. W \in Nat  OBVIOUS
  <2>5. c \in Seq(Tokens)  BY ONLY <2>3, <2>4
  <2> QED  BY <2>2, <2>5
<1> QED  BY <1>1, <1>3, <1>8, <1>9, <1>10, Zenon

(* A row of a gap, as wide as the row before it, is the grid's row. *)
LEMMA ToldFromGap ==
  ASSUME Gated, NEW i \in DOMAIN wire, i > 1, NEW k \in 1..wire[i].gap
  PROVE  /\ wire[i].gap \in Nat /\ Place(i) = Place(i - 1) + wire[i].gap + 1
         /\ i - 1 \in DOMAIN wire /\ Place(i - 1) + k \in 1..Len(grid)
         /\ Told([row |-> wire[i].row - wire[i].gap + k - 1,
                  vals |-> Blank(declared + 1)])
            = Told(grid[Place(i - 1) + k])
<1>1. /\ DOMAIN wire = 1..Len(wire) /\ Len(wire) \in Nat /\ Len(grid) \in Nat
      /\ \A j \in 1..Len(wire) : wire[j].row \in Nat
      /\ \A j, m \in 1..Len(wire) : j < m => wire[j].row < wire[m].row
  BY GatedRows, Zenon
<1>2. i - 1 \in DOMAIN wire /\ i - 1 < i  BY <1>1
<1>3. PICK a \in Nat, b \in Nat : a = wire[i - 1].row /\ b = wire[i].row /\ a < b
  BY <1>1, <1>2
<1>4. wire[i].gap = b - a - 1  BY <1>3 DEF Gated, GapsTile
<1>5. PICK m \in Nat : m = wire[i].gap /\ m = b - a - 1  BY <1>3, <1>4
<1>6. PICK p \in 1..Len(grid), q \in 1..Len(grid) :
        /\ p = Place(i - 1) /\ grid[p].row = a /\ q = Place(i) /\ grid[q].row = b
  BY <1>2, <1>3, PlaceIs
<1>7. PICK g \in Nat : g = grid[1].row
  <2>1. 1 \in 1..Len(grid)  BY <1>1
  <2> QED  BY <2>1, GatedRows
<1>8. a = g + p - 1 /\ b = g + q - 1
  BY <1>6, <1>7, GatedRows, Zenon
<1>9. /\ p \in Nat /\ q \in Nat /\ k \in Nat /\ k \in 1..m /\ a \in Nat
      /\ b \in Nat /\ g \in Nat /\ m \in Nat /\ Len(grid) \in Nat
      /\ p \in 1..Len(grid) /\ q \in 1..Len(grid)
  BY <1>1, <1>5
<1>10. q = p + m + 1 /\ p + k \in 1..Len(grid) /\ p < p + k /\ p + k < q
       /\ b - m + k - 1 = g + (p + k) - 1
  BY ONLY <1>5, <1>8, <1>9
<1>11. PICK y \in 1..Len(grid) : y = p + k  BY <1>10
<1>12. PICK W \in Nat : W = declared + 1  BY GatedRows
<1>13. /\ grid[y].row \in Rows /\ grid[y].row = g + y - 1
       /\ grid[y].vals \in Seq(Nat) /\ Len(grid[y].vals) = W
       /\ \A c \in 1..W :
            c - 1 \in Cols /\ grid[y].vals[c] = sheet[grid[y].row][c - 1]
  BY <1>7, <1>12, GatedRows, Zenon
<1>14. PICK r \in Rows : r = grid[y].row /\ r = g + y - 1  BY <1>13
<1>15. ~RowUsed(sheet, r)
  <2> SUFFICES ASSUME RowUsed(sheet, r)  PROVE FALSE
    OBVIOUS
  <2>1. PICK j \in DOMAIN wire : Place(j) = y /\ wire[j].row = r
    BY <1>14, PlaceOf
  <2>2. a < r /\ r < b /\ r \in Nat
    BY ONLY <1>8, <1>9, <1>10, <1>11, <1>14
  <2>3. j \in 1..Len(wire) /\ i \in 1..Len(wire) /\ i - 1 \in 1..Len(wire)
    BY <1>1, <1>2
  <2>4. j = i \/ j = i - 1 \/ j < i - 1 \/ i < j  BY <1>1, <2>3
  <2>5. (j < i - 1 => r < a) /\ (i < j => b < r)
    BY <1>1, <1>3, <2>1, <2>3, Zenon
  <2> QED  BY <1>3, <2>1, <2>2, <2>4, <2>5
<1>16. \A c \in 1..W : grid[y].vals[c] = 0
  BY <1>13, <1>14, <1>15, Zenon DEF RowUsed
<1>17. PICK v : v = Blank(W)  OBVIOUS
<1>18. DOMAIN v = 1..W /\ \A c \in 1..W : v[c] = 0
  BY <1>17, Zenon DEF Blank
<1>19. DOMAIN grid[y].vals = 1..W  BY ONLY <1>13
<1>20. [c \in 1..W |-> FromValue(v[c])] = [c \in 1..W |-> FromValue(grid[y].vals[c])]
  BY <1>16, <1>18, Zenon
<1>21. PICK x : x = [row |-> b - m + k - 1, vals |-> v]  OBVIOUS
<1>22. x.row = grid[y].row /\ x.vals = v  BY <1>10, <1>11, <1>13, <1>21
<1>23. Told(x) = Told(grid[y])
  BY <1>18, <1>19, <1>20, <1>22, Zenon DEF Told
<1>24. [row |-> wire[i].row - wire[i].gap + k - 1, vals |-> Blank(declared + 1)] = x
  BY <1>3, <1>5, <1>12, <1>17, <1>21
<1> QED  BY <1>2, <1>5, <1>6, <1>10, <1>11, <1>23, <1>24

(* So a row that is fed, with its gap, carries arm_grpc on in the grid. *)
LEMMA FeedIs ==
  ASSUME Gated, NEW ss, ss = [j \in 1..Len(grid) |-> Told(grid[j])],
         ss \in [1..Len(grid) -> Seq(Tokens)],
         NEW f \in [0..Len(grid) -> Seq(Tokens)], Runs(f, ss, Len(grid)),
         NEW i \in DOMAIN wire, NEW d,
         d.fed = f[IF i = 1 THEN 0 ELSE Place(i - 1)],
         i > 1 => d.width = declared + 1
  PROVE  Feed(d, wire[i]) = [fed |-> f[Place(i)], width |-> declared + 1]
<1> DEFINE row(k) == [row |-> wire[i].row - wire[i].gap + k - 1, vals |-> Blank(d.width)]
           cells == [k \in 1..(LastCol(wire[i].vals) + 1) |->
                        Resolved(wire[i].vals[k - 1], wire[i].defs)]
           rows == [k \in 1..wire[i].gap |-> row(k)]
<1>1. PICK G \in Nat : G = Len(grid) /\ DOMAIN wire = 1..Len(wire) /\ Len(wire) \in Nat
  BY GatedRows
<1>2. PICK a : a = IF i = 1 THEN 0 ELSE Place(i - 1)  OBVIOUS
<1>3. PICK p \in 1..G : p = Place(i)  BY <1>1, PlaceIs
<1>4. wire[i].gap \in Nat
  <2>1. wire \in Seq(SentRow)  BY DEF Gated, TypeOK
  <2>2. wire[i] \in SentRow  BY <1>1, <2>1
  <2> QED  BY <2>2, SizeAssumption DEF SentRow
<1>5. PICK m \in Nat : m = wire[i].gap  BY <1>4
<1>6. a \in 0..G /\ p = a + m + 1
  <2>1. CASE i = 1
    <3>1. m = 0  BY <1>5, <2>1 DEF Gated, GapsTile
    <3>2. wire # <<>>  BY <1>1
    <3>3. p = 1  BY <1>3, <2>1, <3>2, PlaceEnds
    <3> QED  BY <1>1, <1>2, <2>1, <3>1, <3>3
  <2>2. CASE i # 1
    <3>1. i > 1 /\ i - 1 \in 1..Len(wire)  BY <1>1, <2>2
    <3>2. a = Place(i - 1) /\ a \in 1..G  BY <1>1, <1>2, <2>2, <3>1, PlaceIs
    <3>3. wire[i].gap = wire[i].row - wire[i - 1].row - 1
          /\ wire[i].row \in Nat /\ wire[i - 1].row \in Nat
      <4>1. wire[i].row \in Nat /\ wire[i - 1].row \in Nat
            /\ wire[i - 1].row < wire[i].row
        BY <1>1, <3>1, GatedRows
      <4> QED  BY <3>1, <4>1 DEF Gated, GapsTile
    <3>4. grid[1].row \in Nat
      <4>1. 1 \in 1..Len(grid)  BY <1>1, <1>3
      <4> QED  BY <4>1, GatedRows
    <3>5. p = wire[i].row - grid[1].row + 1 /\ a = wire[i - 1].row - grid[1].row + 1
      BY <1>3, <3>2, Zenon DEF Place
    <3>6. p = a + m + 1
      <4>1. PICK x \in Nat, y \in Nat, g \in Nat :
              x = wire[i].row /\ y = wire[i - 1].row /\ g = grid[1].row
        BY <3>3, <3>4
      <4>2. m = x - y - 1 /\ p = x - g + 1 /\ a = y - g + 1
        BY <1>5, <3>3, <3>5, <4>1
      <4>3. x \in Nat /\ y \in Nat /\ g \in Nat  BY <4>1
      <4> QED  BY ONLY <4>2, <4>3
    <3> QED  BY <1>1, <3>2, <3>6
  <2> QED  BY <2>1, <2>2
<1>7. \A k \in 1..m : a + k \in 1..G /\ Told(row(k)) = ss[a + k]
  <2> SUFFICES ASSUME NEW k \in 1..m  PROVE a + k \in 1..G /\ Told(row(k)) = ss[a + k]
    OBVIOUS
  <2>1. i # 1 /\ i > 1
    <3>1. i = 1 => m = 0  BY <1>5 DEF Gated, GapsTile
    <3> QED  BY <1>1, <3>1
  <2>2. k \in 1..wire[i].gap /\ a = Place(i - 1) /\ d.width = declared + 1
    BY <1>2, <1>5, <2>1
  <2>3. a + k \in 1..G
        /\ Told([row |-> wire[i].row - wire[i].gap + k - 1,
                 vals |-> Blank(declared + 1)]) = Told(grid[a + k])
    BY <1>1, <2>1, <2>2, ToldFromGap
  <2>4. ss[a + k] = Told(grid[a + k])  BY <1>1, <2>3
  <2> QED  BY <2>2, <2>3, <2>4
<1>8. PICK tt : tt = [k \in 1..m |-> Told(row(k))]  OBVIOUS
<1>9. tt \in [1..m -> Seq(Tokens)] /\ \A k \in 1..m : tt[k] = ss[a + k]
  <2>1. \A k \in 1..m : ss[a + k] \in Seq(Tokens)  BY <1>1, <1>7
  <2> HIDE DEF row
  <2> QED  BY <1>7, <1>8, <2>1, Zenon
<1>10. OfRows(rows, FALSE) = FlattenSeq(tt)
  <2>1. DOMAIN rows = 1..m /\ \A k \in 1..m : rows[k] = row(k)
    <3> HIDE DEF row
    <3> QED  BY <1>5
  <2> HIDE DEF rows, row
  <2>2. [k \in DOMAIN rows |-> Told(rows[k])] = tt  BY <1>8, <2>1, Zenon
  <2> QED  BY <2>2, OfRowsIs
<1> HIDE DEF row, rows
<1>11. f[a] \o FlattenSeq(tt) = f[a + m] /\ a + m \in 0..G
  <2>1. a + m <= G /\ a + m \in 0..G  BY <1>6
  <2>2. /\ ss \in [1..G -> Seq(Tokens)] /\ f \in [0..G -> Seq(Tokens)]
        /\ Runs(f, ss, G) /\ G \in Nat /\ m \in Nat
    BY <1>1
  <2>3. a \in 0..G /\ tt \in [1..m -> Seq(Tokens)]  BY <1>6, <1>9
  <2>5. PartOf(tt, ss, a, m)  BY <1>9, Zenon DEF PartOf
  <2>4. Carries(f, a, m, tt)
    BY ONLY <2>1, <2>2, <2>3, <2>5, RunsOn
  <2> QED  BY <2>1, <2>4 DEF Carries
<1>12. cells \in Seq(Tokens)
       /\ <<RowMark(wire[i].row)>> \o cells = Told(grid[p])
  BY <1>3, ToldFromWire, Zenon
<1>13. LastCol(wire[i].vals) + 1 = declared + 1  BY DEF Gated
<1>14. Feed(d, wire[i]) =
         [fed |-> d.fed \o OfRows(rows, FALSE) \o <<RowMark(wire[i].row)>> \o cells,
          width |-> declared + 1]
  BY <1>13, Zenon DEF Feed, rows, row
<1> HIDE DEF cells
<1>15. PICK mark : mark = RowMark(wire[i].row)  OBVIOUS
<1>16. mark \in Tokens
  <2>1. wire[i].row \in Int  BY <1>1, GatedRows
  <2> QED  BY <1>15, <2>1, Zenon DEF Tokens
<1>17. PICK u \in Seq(Tokens) : u = f[a + m]  BY <1>1, <1>11
<1>18. (u \o <<mark>>) \o cells = u \o (<<mark>> \o cells)
  <2>1. u \in Seq(Tokens) /\ <<mark>> \in Seq(Tokens)  BY <1>16
  <2>2. PICK w : w = <<mark>>  OBVIOUS
  <2>3. (u \o w) \o cells = u \o (w \o cells)
    BY ONLY <1>12, <2>1, <2>2, ConcatAssociative
  <2> QED  BY <2>2, <2>3
<1>19. f[p] = f[a + m] \o ss[p]
  <2>1. p - 1 = a + m  BY <1>6
  <2>2. f[p] = f[p - 1] \o ss[p]  BY <1>1, Zenon DEF Runs
  <2> QED  BY <2>1, <2>2
<1>20. ss[p] = Told(grid[p])  BY <1>1
<1>21. d.fed \o OfRows(rows, FALSE) = u  BY <1>2, <1>10, <1>11, <1>17
<1>22. d.fed \o OfRows(rows, FALSE) \o <<RowMark(wire[i].row)>> \o cells = f[p]
  BY <1>12, <1>15, <1>17, <1>18, <1>19, <1>20, <1>21, Zenon
<1> QED  BY <1>3, <1>14, <1>22, ZenonT(60)

(* Row after row, arm_grpc comes to all of the grid. *)
LEMMA ArmsMeet ==
  ASSUME Gated
  PROVE  Arm2 = Arm3
<1> DEFINE L == Len(wire)
           G == Len(grid)
           W == declared + 1
           ss == [j \in 1..G |-> Told(grid[j])]
           zero == [fed |-> <<>>, width |-> 0]
           Rec(u) == u = [i \in 0..L |-> IF i = 0 THEN zero
                                         ELSE Feed(u[i - 1], wire[i])]
           h == CHOOSE u : Rec(u)
<1>1. /\ G \in Nat /\ L \in Nat /\ DOMAIN wire = 1..L /\ DOMAIN grid = 1..G
      /\ \A i \in 1..L : Place(i) \in 1..G
  BY GatedRows, PlaceIs
<1>2. ss \in [1..G -> Seq(Tokens)]
  <2> SUFFICES ASSUME NEW j \in 1..G  PROVE Told(grid[j]) \in Seq(Tokens)
    BY Zenon
  <2>1. PICK n \in Nat : n = W  BY GatedRows
  <2>2. /\ grid[j].row \in Nat /\ grid[j].vals \in Seq(Nat)
        /\ Len(grid[j].vals) = n
        /\ \A k \in 1..n : grid[j].vals[k] \in 0..MaxCells
    BY <2>1, GatedRows, Zenon
  <2>3. DOMAIN grid[j].vals = 1..n  BY ONLY <2>2
  <2>4. grid[j].row \in Int  BY <2>2
  <2> QED  BY <2>2, <2>3, <2>4, ToldTyped
<1>3. \E f \in [0..G -> Seq(Tokens)] : Runs(f, ss, G) /\ FlattenSeq(ss) = f[G]
  <2> HIDE DEF ss, G
  <2> QED  BY ONLY <1>1, <1>2, FlattenRuns
<1>4. PICK f \in [0..G -> Seq(Tokens)] : Runs(f, ss, G) /\ FlattenSeq(ss) = f[G]
  BY <1>3
<1>5. Arm2 = f[G]
  <2>1. [i \in DOMAIN grid |-> Told(grid[i])] = ss  BY <1>1, Zenon
  <2>2. OfRows(grid, FALSE) = FlattenSeq(ss)  BY <2>1, OfRowsIs
  <2> HIDE DEF ss
  <2> QED  BY <1>4, <2>2 DEF Arm2
<1>6. Arm3 = h[L].fed  BY Zenon DEF Arm3
<1> DEFINE e == [i \in 0..L |-> IF i = 0 THEN zero
                               ELSE [fed |-> f[Place(i)], width |-> W]]
<1>7. ASSUME NEW i \in 1..L
      PROVE  Feed(e[i - 1], wire[i]) = [fed |-> f[Place(i)], width |-> W]
  <2>1. i - 1 \in 0..L /\ (i = 1 <=> i - 1 = 0) /\ (i > 1 => i - 1 # 0)
    BY <1>1
  <2>2. PICK d : d = e[i - 1]  OBVIOUS
  <2>3. i = 1 => d.fed = f[0]
    <3>1. i = 1 => d = zero  BY <2>1, <2>2
    <3>2. f[0] = <<>>  BY <1>4, Zenon DEF Runs
    <3> QED  BY <3>1, <3>2
  <2>4. i # 1 => d = [fed |-> f[Place(i - 1)], width |-> W]  BY <2>1, <2>2
  <2>5. d.fed = f[IF i = 1 THEN 0 ELSE Place(i - 1)]  BY <2>3, <2>4
  <2>6. i > 1 => d.width = declared + 1  BY <2>4
  <2>7. i \in DOMAIN wire  BY <1>1
  <2>8. Feed(d, wire[i]) = [fed |-> f[Place(i)], width |-> declared + 1]
    BY <1>2, <1>4, <2>5, <2>6, <2>7, FeedIs
  <2> QED  BY <2>2, <2>8
<1>8. e[0] = zero /\ \A i \in 1..L : e[i] = [fed |-> f[Place(i)], width |-> W]
  BY <1>1
<1>9. Rec(e)
  <2>1. ASSUME NEW i \in 0..L
        PROVE  e[i] = IF i = 0 THEN zero ELSE Feed(e[i - 1], wire[i])
    <3>1. i # 0 => i \in 1..L  BY <1>1
    <3> HIDE DEF e
    <3> QED  BY <1>7, <1>8, <3>1
  <2>2. e = [i \in 0..L |-> e[i]]  OBVIOUS
  <2> HIDE DEF e
  <2> QED  BY <2>1, <2>2, Zenon
<1> HIDE DEF e
<1>10. Rec(h)  BY <1>9
<1> HIDE DEF h
<1>11. h[0] = zero /\ \A i \in 1..L : h[i] = Feed(h[i - 1], wire[i])
  <2>1. \A i \in 0..L : h[i] = IF i = 0 THEN zero ELSE Feed(h[i - 1], wire[i])
    BY <1>10, Zenon
  <2>2. 0 \in 0..L /\ \A i \in 1..L : i \in 0..L /\ i # 0  BY <1>1
  <2> HIDE DEF zero
  <2> QED  BY <2>1, <2>2, Zenon
<1> DEFINE S == {i \in 0..L : h[i] = e[i]}
<1>12. 0 \in S
  <2>1. 0 \in 0..L  BY <1>1
  <2> QED  BY <1>8, <1>11, <2>1
<1>13. \A i \in 1..L : i - 1 \in S => i \in S
  <2> SUFFICES ASSUME NEW i \in 1..L, i - 1 \in S  PROVE i \in S
    OBVIOUS
  <2>1. i \in 0..L /\ h[i - 1] = e[i - 1]  BY <1>1
  <2>2. h[i] = e[i]  BY <1>7, <1>8, <1>11, <2>1
  <2> QED  BY <2>1, <2>2
<1> HIDE DEF S
<1>14. h[L] = e[L]
  <2>1. L \in 0..L  BY <1>1
  <2>2. L \in S  BY <1>1, <1>12, <1>13, <2>1, Climbs
  <2> QED  BY <2>2 DEF S
<1>15. CASE wire = <<>>
  <2>1. L = 0 /\ G = 0  BY <1>15, PlaceEnds
  <2>2. h[L] = zero  BY ONLY <1>8, <1>14, <2>1
  <2>3. h[L].fed = <<>>  BY ONLY <2>2
  <2>4. f[0] = <<>>  BY <1>4, Zenon DEF Runs
  <2> HIDE DEF L, G
  <2> QED  BY ONLY <1>5, <1>6, <2>1, <2>3, <2>4
<1>16. CASE wire # <<>>
  <2>1. L \in 1..L /\ Place(L) = G  BY <1>1, <1>16, PlaceEnds
  <2> HIDE DEF L, G, W
  <2>2. h[L] = [fed |-> f[Place(L)], width |-> W]
    BY ONLY <1>8, <1>14, <2>1
  <2>3. h[L].fed = f[G]  BY ONLY <2>1, <2>2
  <2> QED  BY ONLY <1>5, <1>6, <2>3
<1> QED  BY <1>15, <1>16

LEMMA InvGate ==
  ASSUME IInv, WalkInv, FlowInv, WidthInv, CellInv
  PROVE  GateHolds
<1> SUFFICES ASSUME phase = "ended", inOrder, HeaderRow = NoRow,
                    Len(line) = declared + 1,
                    \A i \in DOMAIN wire : LastCol(wire[i].vals) = declared
             PROVE  Arm1 = Arm2 /\ Arm2 = Arm3
  BY DEF GateHolds
<1>1. Gated
  <2>1. TypeOK /\ GapsTile /\ StringsDefinedFirst  BY DEF IInv, Order, CellInv
  <2>2. GridUpTo(grid, sheet, MaxRow + 1) /\ WireWhole  BY DEF WalkInv, FlowInv
  <2>3. declared \in Cols /\ Between(grid, declared + 1, declared + 1)
    BY DEF WidthInv
  <2>4. grid \in Seq(WalkedRow)  BY <2>2, Zenon DEF GridUpTo
  <2>5. \A i \in 1..Len(grid) : Len(grid[i].vals) = declared + 1
    <3> SUFFICES ASSUME NEW i \in 1..Len(grid)
                 PROVE  Len(grid[i].vals) = declared + 1
      OBVIOUS
    <3>1. Len(grid[i].vals) \in Nat
      <4>1. grid[i].vals \in Seq(Nat)  BY <2>2, GridIs
      <4> QED  BY ONLY <4>1
    <3>2. declared + 1 \in Nat  BY <2>3, SizeAssumption DEF Cols
    <3>3. declared + 1 <= Len(grid[i].vals) /\ Len(grid[i].vals) <= declared + 1
      BY <2>3, Zenon DEF Between
    <3> QED  BY ONLY <3>1, <3>2, <3>3
  <2> QED  BY <2>1, <2>2, <2>3, <2>5 DEF Gated
<1>2. Arm1 = Arm2
  <2>1. ref \in [Serials -> 0..MaxCells]  BY <1>1 DEF Gated, TypeOK
  <2>2. ASSUME NEW i \in DOMAIN grid, NEW k \in DOMAIN grid[i].vals
        PROVE  grid[i].vals[k] \in 0..MaxCells
    <3>1. /\ i \in 1..Len(grid) /\ grid[i].vals \in Seq(Nat)
          /\ Len(grid[i].vals) = declared + 1
      BY <1>1, GatedRows
    <3>2. k \in 1..(declared + 1)  BY <3>1
    <3> QED  BY <1>1, <3>1, <3>2, GatedRows, Zenon
  <2> QED  BY <2>1, <2>2, ArmsAgree
<1> QED  BY <1>1, <1>2, ArmsMeet

(* The digest gate of main.rs: of a sheet in order whose rows all end at   *)
(* the declared last column, the direct walk, its protobuf values and the  *)
(* server's stream (its gaps filled, its ids looked up) feed the digest    *)
(* the same, wherever batches close and whatever the cells hold.           *)
THEOREM GateCorrect == BenchSpec => []GateHolds
BY GateInvariance, InvGate, PTL

-----------------------------------------------------------------------------
(***************************************************************************)
(* packed.rs: what the encodings of a batch decode to.                     *)
(***************************************************************************)
(* A batch of h full rows. *)
Rect(b, h) ==
    /\ h \in Nat /\ b.width \in Nat \ {0} /\ b.first \in Nat
    /\ b.cells \in Seq(0..MaxCells) /\ Len(b.cells) = h * b.width

LEMMA RectIs ==
  ASSUME NEW b, NEW h, Rect(b, h)
  PROVE  /\ Height(b) = h /\ Len(b.cells) % b.width = 0
         /\ DOMAIN b.cells = 1..(h * b.width) /\ h * b.width \in Nat
         /\ \A i \in 1..(h * b.width) : b.cells[i] \in 0..MaxCells
<1>1. /\ h \in Nat /\ b.width \in Nat \ {0} /\ 0 \in 0..(b.width - 1)
      /\ b.cells \in Seq(0..MaxCells) /\ Len(b.cells) = h * b.width
  BY DEF Rect
<1>2. PICK w \in Nat \ {0} : w = b.width  BY <1>1
<1>3. PICK z \in 0..(w - 1) : z = 0  BY <1>1, <1>2
<1>4. PICK a \in Nat : a = h * w  BY <1>1, Product
<1>5. DOMAIN b.cells = 1..Len(b.cells)
      /\ \A i \in 1..Len(b.cells) : b.cells[i] \in 0..MaxCells
  <2>1. PICK T : T = 0..MaxCells  OBVIOUS
  <2>2. PICK s \in Seq(T) : s = b.cells  BY <1>1, <2>1
  <2>3. DOMAIN s = 1..Len(s) /\ \A i \in 1..Len(s) : s[i] \in T
    BY ONLY s \in Seq(T)
  <2> QED  BY ONLY <2>1, <2>2, <2>3, Zenon
<1>6. Len(b.cells) = a  BY ONLY <1>1, <1>2, <1>4
<1>7. Len(b.cells) \div w = h /\ Len(b.cells) % w = 0
  <2>1. (h * w + z) \div w = h /\ (h * w + z) % w = z  BY <1>1, CellOfRow
  <2>2. h * w + z = a  BY ONLY <1>3, <1>4
  <2>3. a \div w = h /\ a % w = z  BY ONLY <2>1, <2>2, Zenon
  <2> QED  BY ONLY <1>3, <1>6, <2>3, Zenon
<1>8. Height(b) = h /\ Len(b.cells) % b.width = 0
  BY ONLY <1>2, <1>7, Zenon DEF Height
<1>9. h * b.width \in Nat  BY ONLY <1>2, <1>4
<1> QED  BY <1>1, <1>5, <1>8, <1>9, Zenon

LEMMA MarkedIs ==
  ASSUME NEW b, NEW h, Rect(b, h), NEW r \in 1..h, NEW c \in 1..b.width
  PROVE  Marked(b, (r - 1) * b.width + c)
           = IF c = 1 THEN <<RowMark(b.first + (r - 1))>> ELSE <<>>
<1>1. h \in Nat /\ b.width \in Nat \ {0} /\ b.first \in Nat  BY DEF Rect
<1>2. PICK w \in Nat \ {0} : w = b.width  BY <1>1
<1>3. r - 1 \in Nat /\ c - 1 \in 0..(w - 1)  BY <1>1, <1>2
<1>4. PICK q \in Nat : q = r - 1  BY <1>3
<1>5. (q * w + (c - 1)) \div w = q /\ (q * w + (c - 1)) % w = c - 1
  BY <1>3, CellOfRow
<1>6. (q * w + c) - 1 = q * w + (c - 1)
  <2>1. q * w \in Nat  BY Product
  <2> QED  BY ONLY <1>1, <1>2, <2>1, c \in 1..b.width
<1>7. c - 1 = 0 <=> c = 1  BY <1>1
<1>8. Marked(b, q * w + c)
        = IF ((q * w + c) - 1) % w = 0
          THEN <<RowMark(b.first + ((q * w + c) - 1) \div w)>> ELSE <<>>
  BY <1>2, Zenon DEF Marked
<1>9. Marked(b, q * w + c) = IF c = 1 THEN <<RowMark(b.first + q)>> ELSE <<>>
  BY <1>5, <1>6, <1>7, <1>8, Zenon
<1> QED  BY <1>2, <1>4, <1>9, Zenon

(* The kinds a value can be of. *)
LEMMA KindIs ==
  ASSUME ref \in [Serials -> 0..MaxCells], NEW n \in 0..MaxCells
  PROVE  KindOf(n) \in Variants \cup {"Empty", "SharedString"}
<1>1. CASE n # 0 /\ ref[n] = 0
  <2>1. n \in 1..Len(Kinds) /\ Kinds \in Seq(Variants)
    BY <1>1, SizeAssumption, WalkAssumption
  <2>2. Kinds[n] \in Variants  BY ONLY <2>1
  <2> QED  BY <1>1, <2>2 DEF KindOf
<1> QED  BY <1>1 DEF KindOf

-----------------------------------------------------------------------------
(* What the source's digest is fed: a cell, with its row's mark before the *)
(* first; and a row as the contract's decoder has it.                      *)
SourceCell(b, i) == Append(Marked(b, i), FromRef(b.cells[i]))
ContractRow(b, r, n) ==
    <<RowMark(b.first + (r - 1))>> \o
    [c \in 1..n |-> FromValue(b.cells[(r - 1) * b.width + c])]

LEMMA SourceTyped ==
  ASSUME NEW b, NEW h, Rect(b, h), NEW i \in 1..(h * b.width),
         ref \in [Serials -> 0..MaxCells]
  PROVE  /\ Marked(b, i) \in Seq(Tokens) /\ FromRef(b.cells[i]) \in Tokens
         /\ FromRef(b.cells[i]) = FromValue(b.cells[i])
         /\ SourceCell(b, i) \in Seq(Tokens)
<1>1. b.cells[i] \in 0..MaxCells  BY RectIs
<1>2. FromRef(b.cells[i]) = FromValue(b.cells[i])  BY <1>1, ValueSame
<1>3. FromRef(b.cells[i]) \in Tokens  BY <1>1, <1>2, Zenon DEF Tokens
<1>4. h \in Nat /\ b.width \in Nat \ {0} /\ b.first \in Nat  BY DEF Rect
<1>5. PICK w \in Nat \ {0} : w = b.width  BY <1>4
<1>6. PICK r \in 1..h, c \in 1..w : i = (r - 1) * w + c
  BY <1>4, <1>5, RowOfCell, ZenonT(60)
<1>7. Marked(b, i) = IF c = 1 THEN <<RowMark(b.first + (r - 1))>> ELSE <<>>
  BY <1>5, <1>6, MarkedIs
<1>8. b.first + (r - 1) \in Int  BY <1>4
<1>9. RowMark(b.first + (r - 1)) \in Tokens  BY <1>8, Zenon DEF Tokens
<1>10. Marked(b, i) \in Seq(Tokens)
  <2>1. PICK t \in Tokens : t = RowMark(b.first + (r - 1))  BY <1>9
  <2>2. <<t>> \in Seq(Tokens) /\ <<>> \in Seq(Tokens)  BY ONLY t \in Tokens
  <2> QED  BY <1>7, <2>1, <2>2, Zenon
<1>11. SourceCell(b, i) \in Seq(Tokens)
  <2>1. PICK t \in Tokens : t = FromRef(b.cells[i])  BY <1>3
  <2>2. PICK m \in Seq(Tokens) : m = Marked(b, i)  BY <1>10
  <2>3. Append(m, t) \in Seq(Tokens)
    BY ONLY t \in Tokens, m \in Seq(Tokens)
  <2> QED  BY <2>1, <2>2, <2>3, Zenon DEF SourceCell
<1> QED  BY <1>2, <1>3, <1>10, <1>11

LEMMA SourceRuns ==
  ASSUME NEW b, NEW h, Rect(b, h), ref \in [Serials -> 0..MaxCells]
  PROVE  \E f \in [0..(h * b.width) -> Seq(Tokens)] :
            /\ f[0] = <<>>
            /\ \A i \in 1..(h * b.width) : f[i] = f[i - 1] \o SourceCell(b, i)
            /\ SourceGrid(b) = f[h * b.width]
<1>1. PICK n \in Nat : n = h * b.width  BY RectIs
<1> DEFINE ss == [i \in 1..n |-> SourceCell(b, i)]
<1>2. ss \in [1..n -> Seq(Tokens)]
  <2>1. \A i \in 1..n : SourceCell(b, i) \in Seq(Tokens)  BY <1>1, SourceTyped
  <2> QED  BY <2>1, Zenon
<1>3. SourceGrid(b) = FlattenSeq(ss)
  <2>1. DOMAIN b.cells = 1..n  BY <1>1, RectIs
  <2> QED  BY <2>1, Zenon DEF SourceGrid, SourceCell
<1>4. \A i \in 1..n : ss[i] = SourceCell(b, i)  BY Zenon
<1> HIDE DEF ss
<1>5. PICK f \in [0..n -> Seq(Tokens)] : Runs(f, ss, n) /\ FlattenSeq(ss) = f[n]
  BY <1>2, FlattenRuns
<1>6. f[0] = <<>> /\ \A i \in 1..n : f[i] = f[i - 1] \o SourceCell(b, i)
  BY <1>4, <1>5, Zenon DEF Runs
<1> QED  BY <1>1, <1>3, <1>5, <1>6

(* A row's cells, one by one, are the row as the contract has it. *)
LEMMA RowFromCells ==
  ASSUME NEW b, NEW h, Rect(b, h), ref \in [Serials -> 0..MaxCells],
         NEW f \in [0..(h * b.width) -> Seq(Tokens)],
         \A i \in 1..(h * b.width) : f[i] = f[i - 1] \o SourceCell(b, i),
         NEW r \in 1..h
  PROVE  /\ ContractRow(b, r, b.width) \in Seq(Tokens)
         /\ (r - 1) * b.width \in 0..(h * b.width) /\ r * b.width \in 0..(h * b.width)
         /\ f[r * b.width] = f[(r - 1) * b.width] \o ContractRow(b, r, b.width)
<1>1. h \in Nat /\ b.width \in Nat \ {0} /\ b.first \in Nat  BY DEF Rect
<1>2. PICK w \in Nat \ {0} : w = b.width  BY <1>1
<1>3. PICK a \in Nat, n \in Nat :
        /\ a = (r - 1) * w /\ a + w = r * w /\ n = h * w /\ a + w <= n
  <2>1. PICK q \in Nat, e \in Nat : q = r - 1 /\ h = r + e  BY <1>1
  <2>2. q * w \in Nat /\ (q + 1) * w = q * w + w /\ q + 1 = r
    BY <1>1, <2>1, Product
  <2>3. h * w = r * w + e * w /\ e * w \in Nat /\ h * w \in Nat
    <3>1. r \in Nat /\ h \in Nat /\ w \in Nat  BY <1>1
    <3>2. \A x, y, z \in Nat : (x + y) * z = x * z + y * z /\ y * z \in Nat
      BY ONLY TRUE
    <3>3. (r + e) * w = r * w + e * w /\ e * w \in Nat /\ h * w \in Nat
      BY ONLY <3>1, <3>2, e \in Nat
    <3> QED  BY ONLY <2>1, <3>3, Zenon
  <2> QED  BY ONLY <2>1, <2>2, <2>3, w \in Nat \ {0}
<1>4. \A c \in 1..w : a + c \in 1..n /\ (a + c) - 1 = a + (c - 1)
  <2>1. a + w <= n  BY ONLY <1>3
  <2> QED  BY ONLY <2>1, a \in Nat, n \in Nat, w \in Nat \ {0}
<1>5. \A c \in 1..w :
        /\ b.cells[a + c] \in 0..MaxCells
        /\ FromValue(b.cells[a + c]) \in Tokens
        /\ SourceCell(b, a + c) =
              Append(IF c = 1 THEN <<RowMark(b.first + (r - 1))>> ELSE <<>>,
                     FromValue(b.cells[a + c]))
  <2> SUFFICES ASSUME NEW c \in 1..w
               PROVE  /\ b.cells[a + c] \in 0..MaxCells
                      /\ FromValue(b.cells[a + c]) \in Tokens
                      /\ SourceCell(b, a + c) =
                          Append(IF c = 1 THEN <<RowMark(b.first + (r - 1))>> ELSE <<>>,
                                 FromValue(b.cells[a + c]))
    OBVIOUS
  <2>1. a + c \in 1..(h * b.width)  BY <1>2, <1>3, <1>4
  <2>2. Marked(b, a + c) = IF c = 1 THEN <<RowMark(b.first + (r - 1))>> ELSE <<>>
    BY <1>2, <1>3, MarkedIs
  <2>3. b.cells[a + c] \in 0..MaxCells  BY <2>1, RectIs
  <2>4. /\ FromRef(b.cells[a + c]) \in Tokens
        /\ FromRef(b.cells[a + c]) = FromValue(b.cells[a + c])
    BY <2>1, SourceTyped
  <2> QED  BY <2>2, <2>3, <2>4, Zenon DEF SourceCell
<1>6. PICK mark \in Tokens : mark = RowMark(b.first + (r - 1))
  <2>1. b.first + (r - 1) \in Int  BY <1>1
  <2> QED  BY <2>1, Zenon DEF Tokens
<1>7. PICK tok \in [1..w -> Tokens] :
        tok = [c \in 1..w |-> FromValue(b.cells[a + c])]
  BY <1>5, Zenon
<1> DEFINE Row(c) == <<mark>> \o [k \in 1..c |-> tok[k]]
           S == {c \in 0..w : c # 0 => f[a + c] = f[a] \o Row(c)}
<1>8. f[a] \in Seq(Tokens) /\ \A c \in 1..w : f[a + (c - 1)] \in Seq(Tokens)
  <2>1. a \in 0..n /\ \A c \in 1..w : a + (c - 1) \in 0..n  BY <1>3
  <2> QED  BY <1>2, <1>3, <2>1
<1>9. \A c \in 1..w : c - 1 \in S => c \in S
  <2>0. \A c \in 1..w : c \in 0..w  BY ONLY w \in Nat \ {0}
  <2> SUFFICES ASSUME NEW c \in 1..w, c - 1 \in S  PROVE f[a + c] = f[a] \o Row(c)
    BY <2>0, Zenon
  <2>1. f[a + c] = f[a + (c - 1)] \o SourceCell(b, a + c)
    <3>1. a + c \in 1..(h * b.width)
      <4>1. h * b.width = n  BY ONLY <1>2, <1>3
      <4> QED  BY ONLY <1>4, <4>1, c \in 1..w, Zenon
    <3>2. (a + c) - 1 = a + (c - 1)  BY <1>4
    <3>3. PICK k \in 1..(h * b.width) : k = a + c  BY ONLY <3>1
    <3>4. f[k] = f[k - 1] \o SourceCell(b, k)  BY Zenon
    <3>5. f[a + c] = f[(a + c) - 1] \o SourceCell(b, a + c)  BY ONLY <3>3, <3>4, Zenon
    <3> QED  BY ONLY <3>2, <3>5, Zenon
  <2>2. SourceCell(b, a + c) = Append(IF c = 1 THEN <<mark>> ELSE <<>>, tok[c])
    BY <1>5, <1>6, <1>7
  <2>3. PICK t \in Tokens : t = tok[c]  BY <1>7
  <2>4. PICK u \in Seq(Tokens) : u = f[a]  BY <1>8
  <2>5. CASE c = 1
    <3>1. Row(c) = <<mark>> \o <<t>>
      <4>1. [k \in 1..1 |-> tok[k]] = <<tok[1]>>  OBVIOUS
      <4> QED  BY <2>3, <2>5, <4>1
    <3>2. SourceCell(b, a + c) = Append(<<mark>>, t)  BY <2>2, <2>3, <2>5
    <3>3. Append(<<mark>>, t) = <<mark>> \o <<t>>  BY ONLY mark \in Tokens, t \in Tokens
    <3>4. f[a + (c - 1)] = u
      <4>1. a + (c - 1) = a  BY <2>5
      <4> QED  BY <2>4, <4>1
    <3> HIDE DEF Row
    <3> QED  BY ONLY <2>1, <2>4, <3>1, <3>2, <3>3, <3>4
  <2>6. CASE c # 1
    <3>1. c - 1 \in Nat /\ c - 1 # 0  BY <2>6
    <3>2. f[a + (c - 1)] = u \o Row(c - 1)  BY <2>4, <3>1
    <3>3. PICK v \in Seq(Tokens) : v = [k \in 1..(c - 1) |-> tok[k]]
      <4>1. \A k \in 1..(c - 1) : tok[k] \in Tokens
        <5>1. \A k \in 1..(c - 1) : k \in 1..w  OBVIOUS
        <5> QED  BY <5>1
      <4>2. [k \in 1..(c - 1) |-> tok[k]] \in [1..(c - 1) -> Tokens]
        BY ONLY <4>1, Zenon
      <4>3. [k \in 1..(c - 1) |-> tok[k]] \in Seq(Tokens)  BY ONLY <3>1, <4>2
      <4> QED  BY <4>3
    <3>4. [k \in 1..c |-> tok[k]] = v \o <<t>>
      <4>1. /\ Len(v) = c - 1 /\ v \o <<t>> \in Seq(Tokens)
            /\ \A k \in 1..(c - 1) : v[k] = tok[k]
        BY ONLY <3>1, <3>3, t \in Tokens, v \in Seq(Tokens)
      <4>2. /\ Len(v \o <<t>>) = c /\ DOMAIN (v \o <<t>>) = 1..c
            /\ \A k \in 1..c : (v \o <<t>>)[k] = IF k = c THEN t ELSE v[k]
        BY ONLY <3>1, <4>1, t \in Tokens, v \in Seq(Tokens)
      <4>3. \A k \in 1..c : (v \o <<t>>)[k] = tok[k]
        <5>1. \A k \in 1..c : k # c => k \in 1..(c - 1)  BY ONLY <3>1
        <5> QED  BY ONLY <2>3, <4>1, <4>2, <5>1
      <4>4. v \o <<t>> = [k \in 1..c |-> (v \o <<t>>)[k]]
        BY ONLY <4>1, <4>2
      <4> QED  BY ONLY <4>3, <4>4, Zenon
    <3>5. SourceCell(b, a + c) = <<t>>
      <4>1. Append(<<>>, t) = <<t>>  BY ONLY t \in Tokens
      <4> QED  BY ONLY <2>2, <2>3, <2>6, <4>1
    <3>6. Row(c - 1) = <<mark>> \o v /\ Row(c) = <<mark>> \o (v \o <<t>>)
      BY ONLY <3>3, <3>4, Zenon
    <3>7. (u \o (<<mark>> \o v)) \o <<t>> = u \o (<<mark>> \o (v \o <<t>>))
      BY ONLY u \in Seq(Tokens), v \in Seq(Tokens), t \in Tokens, mark \in Tokens
    <3> HIDE DEF Row
    <3> QED  BY ONLY <2>1, <2>4, <3>2, <3>5, <3>6, <3>7
  <2> QED  BY <2>5, <2>6
<1>10. 0 \in S  BY <1>2
<1> HIDE DEF S
<1>11. w \in S
  <2>1. w \in 0..w /\ w \in Nat  BY <1>2
  <2> QED  BY <1>9, <1>10, <2>1, Climbs
<1>12. f[a + w] = f[a] \o Row(w)  BY <1>2, <1>11 DEF S
<1>13. ContractRow(b, r, b.width) = Row(w)
  <2>1. [c \in 1..w |-> FromValue(b.cells[(r - 1) * b.width + c])] = tok
    BY <1>2, <1>3, <1>7
  <2>2. [k \in 1..w |-> tok[k]] = tok  BY <1>7
  <2> QED  BY ONLY <1>2, <1>6, <2>1, <2>2, Zenon DEF ContractRow
<1>14. Row(w) \in Seq(Tokens)
  <2>1. [k \in 1..w |-> tok[k]] \in Seq(Tokens)  BY ONLY tok \in [1..w -> Tokens], w \in Nat \ {0}
  <2> QED  BY ONLY <2>1, mark \in Tokens
<1>15. a \in 0..n /\ a + w \in 0..n  BY <1>3
<1> HIDE DEF Row
<1> QED  BY ONLY <1>2, <1>3, <1>12, <1>13, <1>14, <1>15

(* The messages of the contract decode to the batch. *)
LEMMA ContractDecodes ==
  ASSUME NEW b, NEW h, Rect(b, h), ref \in [Serials -> 0..MaxCells]
  PROVE  decode_contract(encode_contract(b)) = SourceGrid(b)
<1>1. h \in Nat /\ b.width \in Nat \ {0} /\ b.first \in Nat  BY DEF Rect
<1>2. PICK w \in Nat \ {0} : w = b.width  BY <1>1
<1> DEFINE rows == [r \in 1..h |-> ContractRow(b, r, w)]
           Item(r, c) == LET n == b.cells[(r - 1) * b.width + c] IN
                         [value |-> data_ref_value[KindOf(n)], bytes |-> Payload(n)]
           Line(r) == [row_index |-> b.first + r - 1,
                       values |-> [c \in 1..w |-> Item(r, c)]]
           OfLine(x) == <<RowMark(x.row_index)>> \o
                        [c \in DOMAIN x.values |->
                            <<TagOfValue[x.values[c].value], x.values[c].bytes>>]
<1>3. encode_contract(b) = [r \in 1..h |-> Line(r)]
  <2>1. Height(b) = h  BY RectIs
  <2> QED  BY <1>2, <2>1, Zenon DEF encode_contract
<1>4. ASSUME NEW r \in 1..h
      PROVE  OfLine(Line(r)) = ContractRow(b, r, w)
  <2>1. Line(r).row_index = b.first + (r - 1)  BY <1>1
  <2>2. Line(r).values = [c \in 1..w |-> Item(r, c)]  OBVIOUS
  <2>3. DOMAIN Line(r).values = 1..w
        /\ \A c \in 1..w : Line(r).values[c] = Item(r, c)
    BY ONLY <2>2, Zenon
  <2>4. \A c \in 1..w :
          <<TagOfValue[Item(r, c).value], Item(r, c).bytes>>
            = FromValue(b.cells[(r - 1) * b.width + c])
    BY SMT DEF FromValue
  <2> HIDE DEF Line, Item
  <2>5. PICK x : x = Line(r)  OBVIOUS
  <2>6. \A c \in DOMAIN x.values :
          <<TagOfValue[x.values[c].value], x.values[c].bytes>>
            = FromValue(b.cells[(r - 1) * b.width + c])
    BY ONLY <2>3, <2>4, <2>5, Zenon
  <2>7. [c \in DOMAIN x.values |-> <<TagOfValue[x.values[c].value], x.values[c].bytes>>]
          = [c \in 1..w |-> FromValue(b.cells[(r - 1) * b.width + c])]
    BY ONLY <2>3, <2>5, <2>6, Zenon
  <2>8. x.row_index = b.first + (r - 1)  BY ONLY <2>1, <2>5
  <2> QED  BY ONLY <2>5, <2>7, <2>8, Zenon DEF ContractRow, OfLine
<1>5. decode_contract(encode_contract(b)) = FlattenSeq(rows)
  <2>1. decode_contract(encode_contract(b))
          = FlattenSeq([r \in DOMAIN encode_contract(b) |-> OfLine(encode_contract(b)[r])])
    BY Zenon DEF decode_contract
  <2> HIDE DEF Line, OfLine
  <2>2. DOMAIN encode_contract(b) = 1..h
        /\ \A r \in 1..h : encode_contract(b)[r] = Line(r)
    BY ONLY <1>3, Zenon
  <2>3. [r \in DOMAIN encode_contract(b) |-> OfLine(encode_contract(b)[r])] = rows
    BY ONLY <1>4, <2>2, Zenon
  <2> QED  BY ONLY <2>1, <2>3, Zenon
<1> HIDE DEF Line, Item, OfLine
<1>6. PICK f \in [0..(h * b.width) -> Seq(Tokens)] :
        /\ f[0] = <<>>
        /\ \A i \in 1..(h * b.width) : f[i] = f[i - 1] \o SourceCell(b, i)
        /\ SourceGrid(b) = f[h * b.width]
  BY SourceRuns, Zenon
<1>7. \A r \in 1..h :
        /\ ContractRow(b, r, w) \in Seq(Tokens)
        /\ f[r * w] = f[(r - 1) * w] \o ContractRow(b, r, w)
  BY <1>2, <1>6, RowFromCells, ZenonT(60)
<1> DEFINE e == [r \in 0..h |-> f[r * w]]
<1>8. rows \in [1..h -> Seq(Tokens)]  BY <1>7, Zenon
<1>9. \A r \in 1..h : rows[r] = ContractRow(b, r, w)  BY Zenon
<1>10. /\ e[0] = f[0 * w] /\ e[h] = f[h * w]
       /\ \A r \in 1..h : e[r] = f[r * w] /\ e[r - 1] = f[(r - 1) * w]
  <2>1. 0 \in 0..h /\ h \in 0..h /\ \A r \in 1..h : r \in 0..h /\ r - 1 \in 0..h
    BY ONLY <1>1
  <2> QED  BY <2>1, Zenon
<1> HIDE DEF rows, e
<1>11. Runs(e, rows, h)
  <2>1. 0 * w = 0  BY Product
  <2> QED  BY ONLY <1>6, <1>7, <1>9, <1>10, <2>1, Zenon DEF Runs
<1>12. PICK g \in [0..h -> Seq(Tokens)] : Runs(g, rows, h) /\ FlattenSeq(rows) = g[h]
  BY <1>1, <1>8, FlattenRuns
<1>13. g[h] = e[h]
  <2>1. h \in 0..h  BY ONLY <1>1
  <2> QED  BY <1>1, <1>11, <1>12, <2>1, RunsSame
<1> QED  BY ONLY <1>2, <1>5, <1>6, <1>10, <1>12, <1>13, Zenon

-----------------------------------------------------------------------------
(***************************************************************************)
(* The cursor of decode_packed stands where the parts of a cell stand.     *)
(***************************************************************************)
(* The sub-sequence that stands where a part of it was appended. *)
LEMMA SubSeqAt ==
  ASSUME NEW T, NEW v \in Seq(T), NEW a \in Nat, NEW s \in Seq(T), StandsAt(v, a, s)
  PROVE  SubSeq(v, a + 1, a + Len(s)) = s
<1>1. a + Len(s) <= Len(v) /\ \A j \in 1..Len(s) : v[a + j] = s[j]
  BY DEF StandsAt
<1>2. Len(s) \in Nat /\ Len(v) \in Nat /\ s = [j \in 1..Len(s) |-> s[j]]
  BY ONLY s \in Seq(T), v \in Seq(T)
<1>3. PICK m \in Nat : m = Len(s)  BY <1>2
<1>4. SubSeq(v, a + 1, a + m) \in Seq(T) /\ Len(SubSeq(v, a + 1, a + m)) = m
      /\ \A j \in 1..m : SubSeq(v, a + 1, a + m)[j] = v[a + j]
  <2>1. PICK x \in Int, y \in Int : x = a + 1 /\ y = a + m
    BY ONLY a \in Nat, m \in Nat
  <2>2. \A i \in x..y : v[i] \in T
    <3>1. \A i \in x..y : i \in 1..Len(v)
      BY ONLY <1>1, <1>2, <1>3, <2>1, a \in Nat, m \in Nat
    <3> QED  BY ONLY <3>1, v \in Seq(T)
  <2>3. /\ SubSeq(v, x, y) \in Seq(T)
        /\ Len(SubSeq(v, x, y)) = IF x <= y THEN y - x + 1 ELSE 0
        /\ \A i \in 1..(y - x + 1) : SubSeq(v, x, y)[i] = v[x + i - 1]
    BY ONLY <2>2, SubSeqProperties, x \in Int, y \in Int
  <2>4. (IF x <= y THEN y - x + 1 ELSE 0) = m /\ y - x + 1 = m
        /\ \A i \in 1..m : x + i - 1 = a + i
    BY ONLY <2>1, a \in Nat, m \in Nat
  <2> QED  BY ONLY <2>1, <2>3, <2>4, Zenon
<1>5. PICK u \in Seq(T) : u = SubSeq(v, a + 1, a + m)  BY <1>4
<1>6. u = [j \in 1..m |-> u[j]]
  <2>1. Len(u) = m  BY ONLY <1>4, <1>5
  <2>2. u = [j \in 1..Len(u) |-> u[j]]  BY ONLY u \in Seq(T)
  <2> QED  BY ONLY <2>1, <2>2, Zenon
<1>7. \A j \in 1..m : u[j] = s[j]  BY ONLY <1>1, <1>3, <1>4, <1>5, Zenon
<1> QED  BY ONLY <1>2, <1>3, <1>5, <1>6, <1>7, Zenon

(* The tag says how a cell is decoded. *)
LEMMA TagIs ==
  ASSUME NEW kind \in Variants \cup {"Empty", "SharedString"}, NEW tag,
         tag = TagOfRef[kind]
  PROVE  /\ kind \in {"Empty", "Error"} <=> tag \in {0, 9}
         /\ kind \in Fixed <=> tag \in {1, 2, 5, 6}
         /\ kind = "SharedString" <=> tag = 4
         /\ kind \in {"Empty", "Error"} \cup Fixed \cup Text
         /\ kind \in Text => kind \notin {"Empty", "Error"} \cup Fixed
<1>1. \/ kind = "Int" \/ kind = "Float" \/ kind = "String" \/ kind = "Bool"
      \/ kind = "DateTime" \/ kind = "DateTimeIso" \/ kind = "DurationIso"
      \/ kind = "Error" \/ kind = "Empty" \/ kind = "SharedString"
  BY DEF Variants
<1> QED  BY <1>1 DEF TagOfRef, Fixed, Text

LEMMA PayloadIs ==
  ASSUME ref \in [Serials -> 0..MaxCells], NEW n \in 0..MaxCells
  PROVE  /\ KindOf(n) \in {"Empty", "Error"} => Payload(n) = <<>>
         /\ KindOf(n) = "SharedString" => ref[n] \in Nat /\ Payload(n) = DictGet(ref[n])
         /\ KindOf(n) \in Text => Payload(n) \in Seq(Int)
         /\ KindOf(n) \in Fixed => Payload(n) = <<n>>
<1>1. PICK kind \in Variants \cup {"Empty", "SharedString"} : kind = KindOf(n)
  BY KindIs
<1>2. n \in Int /\ n \in Nat  BY SizeAssumption
<1>3. ASSUME kind = "SharedString"
      PROVE  ref[n] \in Nat /\ Payload(n) = DictGet(ref[n]) /\ Payload(n) \in Seq(Int)
  <2>1. n # 0 /\ ref[n] # 0
    <3>1. kind # "Empty"  BY <1>3
    <3>2. n # 0  BY <1>1, <3>1 DEF KindOf
    <3>3. ref[n] # 0
      <4>1. ASSUME ref[n] = 0  PROVE FALSE
        <5>1. n \in 1..Len(Kinds) /\ Kinds \in Seq(Variants)
          BY <3>2, SizeAssumption, WalkAssumption
        <5>2. Kinds[n] \in Variants  BY ONLY <5>1
        <5>3. "SharedString" \notin Variants  BY DEF Variants
        <5>4. KindOf(n) = Kinds[n]  BY <3>2, <4>1 DEF KindOf
        <5> QED  BY <1>1, <1>3, <5>2, <5>3, <5>4
      <4> QED  BY <4>1
    <3> QED  BY <3>2, <3>3
  <2>2. n \in Serials  BY <1>2, <2>1 DEF Serials
  <2>3. ref[n] \in Nat  BY <2>2, SizeAssumption
  <2>4. kind \notin {"Empty", "Error"}  BY <1>3
  <2>5. Payload(n) = [i \in 1..ref[n] |-> -ref[n]]
    BY <1>1, <1>3, <2>4 DEF Payload
  <2>6. PICK q \in Nat : q = ref[n]  BY <2>3
  <2>7. [i \in 1..q |-> -q] \in Seq(Int)  BY ONLY q \in Nat
  <2>8. Payload(n) = [i \in 1..q |-> -q]  BY <2>5, <2>6, Zenon
  <2> QED  BY <2>3, <2>6, <2>7, <2>8, Zenon DEF DictGet
<1>4. ASSUME kind \in Text, kind # "SharedString"
      PROVE  Payload(n) \in Seq(Int)
  <2>1. kind \notin {"Empty", "Error"}  BY <1>4 DEF Text
  <2>2. Payload(n) = [i \in 1..(n % 3) |-> n]
    BY <1>1, <1>4, <2>1 DEF Payload
  <2>3. n % 3 \in Nat  BY <1>2
  <2>4. PICK q \in Nat : q = n % 3  BY <2>3
  <2>5. [i \in 1..q |-> n] \in Seq(Int)  BY ONLY q \in Nat, n \in Int, <1>2
  <2> QED  BY <2>2, <2>4, <2>5, Zenon
<1>5. ASSUME kind \in Fixed  PROVE Payload(n) = <<n>>
  <2>1. kind \notin {"Empty", "Error"} /\ kind # "SharedString" /\ kind \notin Text
    BY <1>5 DEF Fixed, Text
  <2> QED  BY <1>1, <2>1 DEF Payload
<1>6. ASSUME kind \in {"Empty", "Error"}  PROVE Payload(n) = <<>>
  <2>1. kind # "SharedString" /\ kind \notin Text  BY <1>6 DEF Text
  <2> QED  BY <1>1, <1>6, <2>1 DEF Payload
<1> QED  BY <1>1, <1>3, <1>4, <1>5, <1>6, Zenon

(* What a cell adds to the three columns. *)
LEMMA PartsAre ==
  ASSUME ref \in [Serials -> 0..MaxCells], NEW n \in 0..MaxCells, NEW useDict \in BOOLEAN
  PROVE  /\ FixedOf(n, useDict) \in Seq(Nat)
         /\ LensOf(n, useDict) \in Seq(Nat)
         /\ TextOf(n, useDict) \in Seq(Int)
         /\ InText(n, useDict) => /\ FixedOf(n, useDict) = <<>>
                                  /\ LensOf(n, useDict) = <<Len(Payload(n))>>
                                  /\ TextOf(n, useDict) = Payload(n)
                                  /\ Payload(n) \in Seq(Int)
         /\ ~InText(n, useDict) => LensOf(n, useDict) = <<>> /\ TextOf(n, useDict) = <<>>
         /\ ById(n, useDict) => FixedOf(n, useDict) = <<ref[n]>>
         /\ ~ById(n, useDict) /\ KindOf(n) \in Fixed => FixedOf(n, useDict) = <<n>>
         /\ ~ById(n, useDict) /\ KindOf(n) \notin Fixed => FixedOf(n, useDict) = <<>>
<1>1. n \in Nat  BY SizeAssumption
<1>2. /\ KindOf(n) = "SharedString" => ref[n] \in Nat
      /\ KindOf(n) \in Text => Payload(n) \in Seq(Int)
  BY PayloadIs
<1>3. KindOf(n) \in Text => KindOf(n) \notin Fixed  BY DEF Text, Fixed
<1>4. InText(n, useDict) => KindOf(n) \in Text /\ ~ById(n, useDict)  BY DEF InText
<1>5. ById(n, useDict) => KindOf(n) = "SharedString"  BY DEF ById
<1>6. /\ <<n>> \in Seq(Nat) /\ <<>> \in Seq(Nat) /\ <<>> \in Seq(Int)
      /\ ById(n, useDict) => <<ref[n]>> \in Seq(Nat)
      /\ InText(n, useDict) => <<Len(Payload(n))>> \in Seq(Nat)
  <2>1. ASSUME InText(n, useDict)  PROVE <<Len(Payload(n))>> \in Seq(Nat)
    <3>1. PICK s \in Seq(Int) : s = Payload(n)  BY <1>2, <1>4, <2>1
    <3>2. <<Len(s)>> \in Seq(Nat)  BY ONLY s \in Seq(Int)
    <3> QED  BY ONLY <3>1, <3>2, Zenon
  <2>2. ASSUME ById(n, useDict)  PROVE <<ref[n]>> \in Seq(Nat)
    <3>1. PICK q \in Nat : q = ref[n]  BY <1>2, <1>5, <2>2
    <3>2. <<q>> \in Seq(Nat)  BY ONLY q \in Nat
    <3> QED  BY ONLY <3>1, <3>2, Zenon
  <2>3. /\ <<n>> \in Seq(Nat) /\ <<>> \in Seq(Nat) /\ <<>> \in Seq(Int)
    BY ONLY <1>1
  <2> QED  BY <2>1, <2>2, <2>3
<1>7. FixedOf(n, useDict) \in Seq(Nat)  BY <1>6, Zenon DEF FixedOf
<1>8. LensOf(n, useDict) \in Seq(Nat)  BY <1>6, Zenon DEF LensOf
<1>9. TextOf(n, useDict) \in Seq(Int)  BY <1>2, <1>4, <1>6, Zenon DEF TextOf
<1>10. InText(n, useDict) => /\ FixedOf(n, useDict) = <<>>
                             /\ LensOf(n, useDict) = <<Len(Payload(n))>>
                             /\ TextOf(n, useDict) = Payload(n)
                             /\ Payload(n) \in Seq(Int)
  BY <1>2, <1>3, <1>4, Zenon DEF FixedOf, LensOf, TextOf
<1>11. ~InText(n, useDict) => LensOf(n, useDict) = <<>> /\ TextOf(n, useDict) = <<>>
  BY Zenon DEF LensOf, TextOf
<1>12. /\ ById(n, useDict) => FixedOf(n, useDict) = <<ref[n]>>
       /\ ~ById(n, useDict) /\ KindOf(n) \in Fixed => FixedOf(n, useDict) = <<n>>
       /\ ~ById(n, useDict) /\ KindOf(n) \notin Fixed => FixedOf(n, useDict) = <<>>
  BY Zenon DEF FixedOf
<1> QED  BY <1>7, <1>8, <1>9, <1>10, <1>11, <1>12, Zenon

(* The cursor of the decoder: what it took of each column, and the cells. *)
Cursor(a, t, x, o) == [numbers |-> a, texts |-> t, bytes |-> x, out |-> o]

LEMMA CursorHas ==
  ASSUME NEW a, NEW t, NEW x, NEW o, NEW d, d = Cursor(a, t, x, o)
  PROVE  d.numbers = a /\ d.texts = t /\ d.bytes = x /\ d.out = o
BY DEF Cursor

LEMMA CursorOut ==
  ASSUME NEW a, NEW t, NEW x, NEW o, NEW o2, NEW d, d = Cursor(a, t, x, o)
  PROVE  [d EXCEPT !.out = o2] = Cursor(a, t, x, o2)
BY DEF Cursor

NumberPut(d, k, o) == [d EXCEPT !.numbers = k, !.out = o]
LEMMA CursorNumber ==
  ASSUME NEW a, NEW t, NEW x, NEW o, NEW a2, NEW o2, NEW d, d = Cursor(a, t, x, o)
  PROVE  NumberPut(d, a2, o2) = Cursor(a2, t, x, o2)
<1>1. PICK e : e = [d EXCEPT !.numbers = a2]  OBVIOUS
<1>2. e = Cursor(a2, t, x, o)  BY <1>1 DEF Cursor
<1>3. [e EXCEPT !.out = o2] = Cursor(a2, t, x, o2)  BY <1>2 DEF Cursor
<1>4. [[d EXCEPT !.numbers = a2] EXCEPT !.out = o2] = NumberPut(d, a2, o2)
  BY DEF NumberPut
<1> QED  BY <1>1, <1>3, <1>4

TextPut(d, k, y, o) == [d EXCEPT !.texts = k, !.bytes = y, !.out = o]
LEMMA CursorText ==
  ASSUME NEW a, NEW t, NEW x, NEW o, NEW t2, NEW x2, NEW o2,
         NEW d, d = Cursor(a, t, x, o)
  PROVE  TextPut(d, t2, x2, o2) = Cursor(a, t2, x2, o2)
<1>1. PICK e : e = [d EXCEPT !.texts = t2]  OBVIOUS
<1>2. e = Cursor(a, t2, x, o)  BY <1>1 DEF Cursor
<1>3. PICK k : k = [e EXCEPT !.bytes = x2]  OBVIOUS
<1>4. k = Cursor(a, t2, x2, o)  BY <1>2, <1>3 DEF Cursor
<1>5. [k EXCEPT !.out = o2] = Cursor(a, t2, x2, o2)  BY <1>4 DEF Cursor
<1>6. [[[d EXCEPT !.texts = t2] EXCEPT !.bytes = x2] EXCEPT !.out = o2]
        = TextPut(d, t2, x2, o2)
  BY DEF TextPut
<1> QED  BY <1>1, <1>3, <1>5, <1>6

(* Where a cell's parts stand next, the decoder takes exactly them.        *)
PartsNext(p, i, n, useDict, a, t, x) ==
    /\ p.tags[i] = TagOfRef[KindOf(n)]
    /\ Marked(p, i) \in Seq(Tokens) /\ FromRef(n) \in Tokens /\ p.text \in Seq(Int)
    /\ StandsAt(p.fixed, a, FixedOf(n, useDict))
    /\ StandsAt(p.lens, t, LensOf(n, useDict))
    /\ StandsAt(p.text, x, TextOf(n, useDict))
Taking(p, i, n, useDict, a, t, x, o) ==
    TakeCell(p, Cursor(a, t, x, o), i, useDict)
      = Cursor(a + Len(FixedOf(n, useDict)), t + Len(LensOf(n, useDict)),
               x + Len(TextOf(n, useDict)), o \o Append(Marked(p, i), FromRef(n)))

LEMMA CellTaken ==
  ASSUME ref \in [Serials -> 0..MaxCells], NEW n \in 0..MaxCells,
         NEW useDict \in BOOLEAN, NEW p, NEW i,
         NEW a \in Nat, NEW t \in Nat, NEW x \in Nat, NEW o \in Seq(Tokens),
         PartsNext(p, i, n, useDict, a, t, x)
  PROVE  Taking(p, i, n, useDict, a, t, x, o)
<1> USE DEF PartsNext
<1> SUFFICES TakeCell(p, Cursor(a, t, x, o), i, useDict)
               = Cursor(a + Len(FixedOf(n, useDict)), t + Len(LensOf(n, useDict)),
                        x + Len(TextOf(n, useDict)),
                        o \o Append(Marked(p, i), FromRef(n)))
  BY Zenon DEF Taking
<1>0. PICK kind \in Variants \cup {"Empty", "SharedString"} : kind = KindOf(n)
  BY KindIs
<1>1. PICK tag : kind = KindOf(n) /\ tag = TagOfRef[kind] /\ p.tags[i] = tag
  BY <1>0
<1>2. /\ kind \in {"Empty", "Error"} <=> tag \in {0, 9}
      /\ kind \in Fixed <=> tag \in {1, 2, 5, 6}
      /\ kind = "SharedString" <=> tag = 4
      /\ kind \in {"Empty", "Error"} \cup Fixed \cup Text
      /\ kind \in Text => kind \notin {"Empty", "Error"} \cup Fixed
  BY <1>1, TagIs
<1>3. PICK pay : pay = Payload(n) /\ FromRef(n) = <<tag, pay>>
  BY <1>1, Zenon DEF FromRef
<1>4. /\ kind \in {"Empty", "Error"} => pay = <<>>
      /\ kind = "SharedString" => ref[n] \in Nat /\ pay = DictGet(ref[n])
      /\ kind \in Text => pay \in Seq(Int)
      /\ kind \in Fixed => pay = <<n>>
  BY <1>1, <1>3, PayloadIs
<1>5. PICK m \in Seq(Tokens) : m = Marked(p, i)  OBVIOUS
<1>6. PICK tok \in Tokens : tok = <<tag, pay>> /\ tok = FromRef(n)  BY <1>3
<1>7. Append(o \o m, tok) = o \o Append(m, tok)
  <2>1. PICK T : T = Tokens  OBVIOUS
  <2>2. o \in Seq(T) /\ m \in Seq(T) /\ tok \in T  BY <2>1
  <2> QED  BY ONLY <2>2, AppendedLast
<1> DEFINE M == Cursor(a, t, x, o \o m)
           Goal(y) == y = Cursor(a + Len(FixedOf(n, useDict)), t + Len(LensOf(n, useDict)),
                                 x + Len(TextOf(n, useDict)), Append(o \o m, tok))
<1>8. [Cursor(a, t, x, o) EXCEPT !.out = @ \o m] = M
  <2>1. PICK d : d = Cursor(a, t, x, o)  OBVIOUS
  <2>2. d.out = o  BY ONLY <2>1, CursorHas
  <2>3. PICK e : e = o \o m  OBVIOUS
  <2>4. [d EXCEPT !.out = e] = Cursor(a, t, x, e)  BY ONLY <2>1, CursorOut
  <2> QED  BY ONLY <2>1, <2>2, <2>3, <2>4, Zenon
<1>9. TakeCell(p, Cursor(a, t, x, o), i, useDict)
        = CASE tag \in {0, 9} -> [M EXCEPT !.out = Append(@, <<tag, <<>> >>)]
            [] tag \in {1, 2, 5, 6} \/ (tag = 4 /\ useDict) -> TakeFixed(p, M, tag, useDict)
            [] OTHER -> TakeText(p, M, tag)
  BY <1>1, <1>5, <1>8, Zenon DEF TakeCell
<1>10. InText(n, useDict) <=> kind \in Text /\ ~(kind = "SharedString" /\ useDict)
  BY <1>1, Zenon DEF InText, ById
<1>11. ById(n, useDict) <=> kind = "SharedString" /\ useDict
  BY <1>1, Zenon DEF ById
<1>12. a + 0 = a /\ t + 0 = t /\ x + 0 = x /\ Len(<<>>) = 0  OBVIOUS
<1>13. CASE kind \in {"Empty", "Error"}
  <2>1. ~InText(n, useDict) /\ ~ById(n, useDict) /\ kind \notin Fixed
    BY <1>10, <1>11, <1>13 DEF Text, Fixed
  <2>2. FixedOf(n, useDict) = <<>> /\ LensOf(n, useDict) = <<>> /\ TextOf(n, useDict) = <<>>
    BY <1>1, <2>1, PartsAre
  <2>3. TakeCell(p, Cursor(a, t, x, o), i, useDict)
          = [M EXCEPT !.out = Append(@, <<tag, <<>> >>)]
    BY ONLY <1>2, <1>9, <1>13
  <2>4. [M EXCEPT !.out = Append(@, <<tag, <<>> >>)] = Cursor(a, t, x, Append(o \o m, tok))
    <3>1. tok = <<tag, <<>> >>  BY ONLY <1>4, <1>6, <1>13
    <3>2. PICK g : g = o \o m  OBVIOUS
    <3>3. PICK e : e = Append(g, tok)  OBVIOUS
    <3>4. PICK d : d = Cursor(a, t, x, g)  OBVIOUS
    <3>5. d.out = g  BY ONLY <3>4, CursorHas
    <3>6. [d EXCEPT !.out = e] = Cursor(a, t, x, e)  BY ONLY <3>4, CursorOut
    <3> QED  BY ONLY <3>1, <3>2, <3>3, <3>4, <3>5, <3>6, Zenon
  <2>5. Goal(Cursor(a, t, x, Append(o \o m, tok)))
    BY ONLY <1>12, <2>2, Zenon
  <2> HIDE DEF M, Goal
  <2>6. Goal(TakeCell(p, Cursor(a, t, x, o), i, useDict))
    BY ONLY <2>3, <2>4, <2>5, Zenon
  <2> QED  BY ONLY <1>5, <1>6, <1>7, <2>6, Zenon DEF Goal
<1>14. CASE kind \in Fixed \/ (kind = "SharedString" /\ useDict)
  <2>1. /\ ~InText(n, useDict) /\ tag \notin {0, 9}
        /\ tag \in {1, 2, 5, 6} \/ (tag = 4 /\ useDict)
    BY <1>2, <1>10, <1>14 DEF Text, Fixed
  <2>2. PICK v : /\ v = IF kind \in Fixed THEN n ELSE ref[n]
                 /\ FixedOf(n, useDict) = <<v>>
    <3>1. kind \in Fixed => ~ById(n, useDict)  BY <1>11 DEF Fixed
    <3> QED  BY <1>1, <1>11, <1>14, <3>1, PartsAre
  <2>3. LensOf(n, useDict) = <<>> /\ TextOf(n, useDict) = <<>>
    BY <2>1, PartsAre
  <2>4. p.fixed[a + 1] = v  BY <2>2, OneStands
  <2>5. TakeCell(p, Cursor(a, t, x, o), i, useDict) = TakeFixed(p, M, tag, useDict)
    BY ONLY <1>9, <2>1
  <2>6. (IF tag = 4 /\ useDict THEN DictGet(v) ELSE <<v>>) = pay
    <3>1. kind \in Fixed => tag # 4  BY ONLY <1>2
    <3>2. kind \in Fixed \/ (tag = 4 /\ useDict /\ kind \notin Fixed)
      BY <1>2, <1>14, <3>1
    <3> QED  BY ONLY <1>2, <1>4, <2>2, <3>1, <3>2
  <2>7. M.numbers = a /\ M.texts = t /\ M.bytes = x /\ M.out = o \o m  BY DEF Cursor
  <2>8. TakeFixed(p, M, tag, useDict)
          = [M EXCEPT !.numbers = @ + 1, !.out = Append(@, tok)]
    <3> HIDE DEF M
    <3> QED  BY <1>6, <2>4, <2>6, <2>7, Zenon DEF TakeFixed
  <2>9. [M EXCEPT !.numbers = @ + 1, !.out = Append(@, tok)]
          = Cursor(a + 1, t, x, Append(o \o m, tok))
    <3>1. PICK g : g = o \o m  OBVIOUS
    <3>2. PICK e, k : e = Append(g, tok) /\ k = a + 1  OBVIOUS
    <3>3. PICK d : d = Cursor(a, t, x, g)  OBVIOUS
    <3>4. d.numbers = a /\ d.out = g  BY ONLY <3>3, CursorHas
    <3>5. NumberPut(d, k, e) = Cursor(k, t, x, e)  BY ONLY <3>3, CursorNumber
    <3> QED  BY ONLY <3>1, <3>2, <3>3, <3>4, <3>5, Zenon DEF NumberPut
  <2>10. Len(<<v>>) = 1  OBVIOUS
  <2>11. Goal(Cursor(a + 1, t, x, Append(o \o m, tok)))
    BY ONLY <1>12, <2>2, <2>3, <2>10, Zenon
  <2> HIDE DEF M, Goal
  <2>12. Goal(TakeCell(p, Cursor(a, t, x, o), i, useDict))
    BY ONLY <2>5, <2>8, <2>9, <2>11, Zenon
  <2> QED  BY ONLY <1>5, <1>6, <1>7, <2>12, Zenon DEF Goal
<1>15. CASE kind \in Text /\ ~(kind = "SharedString" /\ useDict)
  <2>1. /\ InText(n, useDict) /\ tag \notin {0, 9}
        /\ ~(tag \in {1, 2, 5, 6} \/ (tag = 4 /\ useDict))
    BY <1>2, <1>10, <1>15
  <2>2. /\ FixedOf(n, useDict) = <<>> /\ LensOf(n, useDict) = <<Len(pay)>>
        /\ TextOf(n, useDict) = pay /\ pay \in Seq(Int)
    BY <1>3, <2>1, PartsAre
  <2>3. PICK len \in Nat : len = Len(pay)  BY <2>2
  <2>4. p.lens[t + 1] = len  BY <2>2, <2>3, OneStands
  <2>5. SubSeq(p.text, x + 1, x + len) = pay  BY <2>2, <2>3, SubSeqAt,
                                                 ZenonT(60)
  <2>6. TakeCell(p, Cursor(a, t, x, o), i, useDict) = TakeText(p, M, tag)
    BY ONLY <1>9, <2>1
  <2>7. M.numbers = a /\ M.texts = t /\ M.bytes = x /\ M.out = o \o m  BY DEF Cursor
  <2>8. TakeText(p, M, tag)
          = [M EXCEPT !.texts = @ + 1, !.bytes = @ + len, !.out = Append(@, tok)]
    <3> HIDE DEF M
    <3> QED  BY <1>6, <2>4, <2>5, <2>7, Zenon DEF TakeText
  <2>9. [M EXCEPT !.texts = @ + 1, !.bytes = @ + len, !.out = Append(@, tok)]
          = Cursor(a, t + 1, x + len, Append(o \o m, tok))
    <3>1. PICK g : g = o \o m  OBVIOUS
    <3>2. PICK e, k, y : e = Append(g, tok) /\ k = t + 1 /\ y = x + len  OBVIOUS
    <3>3. PICK d : d = Cursor(a, t, x, g)  OBVIOUS
    <3>4. d.texts = t /\ d.bytes = x /\ d.out = g  BY ONLY <3>3, CursorHas
    <3>5. TextPut(d, k, y, e) = Cursor(a, k, y, e)  BY ONLY <3>3, CursorText
    <3> QED  BY ONLY <3>1, <3>2, <3>3, <3>4, <3>5, Zenon DEF TextPut
  <2>10. Len(<<len>>) = 1  OBVIOUS
  <2>11. Goal(Cursor(a, t + 1, x + len, Append(o \o m, tok)))
    BY ONLY <1>12, <2>2, <2>3, <2>10, Zenon
  <2> HIDE DEF M, Goal
  <2>12. Goal(TakeCell(p, Cursor(a, t, x, o), i, useDict))
    BY ONLY <2>6, <2>8, <2>9, <2>11, Zenon
  <2> QED  BY ONLY <1>5, <1>6, <1>7, <2>12, Zenon DEF Goal
<1> QED  BY <1>2, <1>13, <1>14, <1>15

(* The columns and tags of a packed batch decode to the batch. *)
LEMMA PackedDecodes ==
  ASSUME NEW b, NEW h, Rect(b, h), ref \in [Serials -> 0..MaxCells],
         NEW useDict \in BOOLEAN
  PROVE  decode_packed(encode_packed(b, useDict), useDict) = SourceGrid(b)
<1>1. /\ Height(b) = h /\ h * b.width \in Nat /\ DOMAIN b.cells = 1..(h * b.width)
      /\ \A i \in 1..(h * b.width) : b.cells[i] \in 0..MaxCells
  BY RectIs
<1>2. PICK N \in Nat : N = h * b.width  BY <1>1
<1> DEFINE fs == [i \in 1..N |-> FixedOf(b.cells[i], useDict)]
           ls == [i \in 1..N |-> LensOf(b.cells[i], useDict)]
           xs == [i \in 1..N |-> TextOf(b.cells[i], useDict)]
           tags == [i \in 1..N |-> TagOfRef[KindOf(b.cells[i])]]
<1>3. PICK p : p = encode_packed(b, useDict)  OBVIOUS
<1>4. /\ p.first = b.first /\ p.width = b.width /\ p.count = h /\ p.tags = tags
      /\ p.fixed = FlattenSeq(fs) /\ p.lens = FlattenSeq(ls) /\ p.text = FlattenSeq(xs)
  <2>1. DOMAIN b.cells = 1..N  BY <1>1, <1>2
  <2>2. encode_packed(b, useDict)
          = [first |-> b.first, width |-> b.width, count |-> h, tags |-> tags,
             fixed |-> FlattenSeq(fs), lens |-> FlattenSeq(ls), text |-> FlattenSeq(xs)]
    BY <1>1, <2>1, Zenon DEF encode_packed
  <2> HIDE DEF fs, ls, xs, tags
  <2> QED  BY ONLY <1>3, <2>2
<1>5. \A i \in 1..N : /\ fs[i] = FixedOf(b.cells[i], useDict)
                      /\ ls[i] = LensOf(b.cells[i], useDict)
                      /\ xs[i] = TextOf(b.cells[i], useDict)
                      /\ tags[i] = TagOfRef[KindOf(b.cells[i])]
                      /\ b.cells[i] \in 0..MaxCells
  BY <1>1, <1>2, Zenon
<1>6. fs \in [1..N -> Seq(Nat)] /\ ls \in [1..N -> Seq(Nat)] /\ xs \in [1..N -> Seq(Int)]
  <2>1. \A i \in 1..N : /\ FixedOf(b.cells[i], useDict) \in Seq(Nat)
                        /\ LensOf(b.cells[i], useDict) \in Seq(Nat)
                        /\ TextOf(b.cells[i], useDict) \in Seq(Int)
    <3> SUFFICES ASSUME NEW i \in 1..N
                 PROVE  /\ FixedOf(b.cells[i], useDict) \in Seq(Nat)
                        /\ LensOf(b.cells[i], useDict) \in Seq(Nat)
                        /\ TextOf(b.cells[i], useDict) \in Seq(Int)
      OBVIOUS
    <3>1. PICK n \in 0..MaxCells : n = b.cells[i]  BY <1>5
    <3> QED  BY <3>1, PartsAre
  <2> QED  BY <2>1, Zenon
<1> HIDE DEF fs, ls, xs, tags
<1>7. PICK F \in [0..N -> Seq(Nat)] : Column(F, fs, N)
  BY ONLY <1>6, N \in Nat, ColumnExists
<1>8. PICK L \in [0..N -> Seq(Nat)] : Column(L, ls, N)
  BY ONLY <1>6, N \in Nat, ColumnExists
<1>9. PICK X \in [0..N -> Seq(Int)] : Column(X, xs, N)
  BY ONLY <1>6, N \in Nat, ColumnExists
<1>10. PICK f \in [0..(h * b.width) -> Seq(Tokens)] :
        /\ f[0] = <<>>
        /\ \A i \in 1..(h * b.width) : f[i] = f[i - 1] \o SourceCell(b, i)
        /\ SourceGrid(b) = f[h * b.width]
  BY SourceRuns, Zenon
<1> DEFINE e == [i \in 0..N |-> Cursor(Len(F[i]), Len(L[i]), Len(X[i]), f[i])]
<1>11. ASSUME NEW i \in 1..N
       PROVE  TakeCell(p, Cursor(Len(F[i - 1]), Len(L[i - 1]), Len(X[i - 1]), f[i - 1]),
                       i, useDict)
                = Cursor(Len(F[i]), Len(L[i]), Len(X[i]), f[i])
  <2>1. PICK n \in 0..MaxCells : n = b.cells[i]  BY <1>5
  <2>2. i - 1 \in 0..N /\ N \in 0..N  OBVIOUS
  <2>3. PICK a \in Nat, t \in Nat, x \in Nat, o \in Seq(Tokens) :
          a = Len(F[i - 1]) /\ t = Len(L[i - 1]) /\ x = Len(X[i - 1]) /\ o = f[i - 1]
    <3>1. F[i - 1] \in Seq(Nat) /\ L[i - 1] \in Seq(Nat) /\ X[i - 1] \in Seq(Int)
      BY <2>2
    <3>2. f[i - 1] \in Seq(Tokens)  BY <1>2, <2>2
    <3>3. Len(F[i - 1]) \in Nat /\ Len(L[i - 1]) \in Nat /\ Len(X[i - 1]) \in Nat
      BY ONLY <3>1
    <3> QED  BY <3>2, <3>3
  <2>4. /\ StandsAt(p.fixed, a, FixedOf(n, useDict))
        /\ Len(F[i]) = a + Len(FixedOf(n, useDict))
    <3>1. /\ StandsAt(F[N], Len(F[i - 1]), fs[i])
          /\ Len(F[i]) = Len(F[i - 1]) + Len(fs[i])
      BY ONLY <1>7, i \in 1..N, Zenon DEF Column
    <3>2. fs[i] = FixedOf(n, useDict) /\ p.fixed = F[N]
      BY ONLY <1>4, <1>5, <1>7, <2>1, i \in 1..N, Zenon DEF Column
    <3> QED  BY ONLY <2>3, <3>1, <3>2, Zenon
  <2>5. /\ StandsAt(p.lens, t, LensOf(n, useDict))
        /\ Len(L[i]) = t + Len(LensOf(n, useDict))
    <3>1. /\ StandsAt(L[N], Len(L[i - 1]), ls[i])
          /\ Len(L[i]) = Len(L[i - 1]) + Len(ls[i])
      BY ONLY <1>8, i \in 1..N, Zenon DEF Column
    <3>2. ls[i] = LensOf(n, useDict) /\ p.lens = L[N]
      BY ONLY <1>4, <1>5, <1>8, <2>1, i \in 1..N, Zenon DEF Column
    <3> QED  BY ONLY <2>3, <3>1, <3>2, Zenon
  <2>6. /\ StandsAt(p.text, x, TextOf(n, useDict))
        /\ Len(X[i]) = x + Len(TextOf(n, useDict))
    <3>1. /\ StandsAt(X[N], Len(X[i - 1]), xs[i])
          /\ Len(X[i]) = Len(X[i - 1]) + Len(xs[i])
      BY ONLY <1>9, i \in 1..N, Zenon DEF Column
    <3>2. xs[i] = TextOf(n, useDict) /\ p.text = X[N]
      BY ONLY <1>4, <1>5, <1>9, <2>1, i \in 1..N, Zenon DEF Column
    <3> QED  BY ONLY <2>3, <3>1, <3>2, Zenon
  <2>7. p.text \in Seq(Int)
    <3>1. X[N] \in Seq(Int)  BY <2>2
    <3> QED  BY ONLY <1>4, <1>9, <3>1, Zenon DEF Column
  <2>8. /\ Marked(b, i) \in Seq(Tokens) /\ FromRef(n) \in Tokens
        /\ SourceCell(b, i) = Append(Marked(b, i), FromRef(n))
    <3>1. PICK j \in 1..(h * b.width) : j = i  BY <1>2
    <3>2. Marked(b, j) \in Seq(Tokens) /\ FromRef(b.cells[j]) \in Tokens
      BY SourceTyped
    <3> QED  BY ONLY <2>1, <3>1, <3>2, Zenon DEF SourceCell
  <2>9. Marked(p, i) = Marked(b, i)  BY <1>4, Zenon DEF Marked
  <2>10. p.tags[i] = TagOfRef[KindOf(n)]  BY <1>4, <1>5, <2>1
  <2>11. TakeCell(p, Cursor(a, t, x, o), i, useDict)
           = Cursor(a + Len(FixedOf(n, useDict)), t + Len(LensOf(n, useDict)),
                    x + Len(TextOf(n, useDict)), o \o Append(Marked(p, i), FromRef(n)))
    <3>1. /\ ref \in [Serials -> 0..MaxCells] /\ n \in 0..MaxCells
          /\ useDict \in BOOLEAN /\ Marked(p, i) \in Seq(Tokens)
          /\ a \in Nat /\ t \in Nat /\ x \in Nat /\ o \in Seq(Tokens)
      BY <2>8, <2>9
    <3>2. PartsNext(p, i, n, useDict, a, t, x)
      BY ONLY <2>4, <2>5, <2>6, <2>7, <2>8, <2>10, <3>1, Zenon DEF PartsNext
    <3>3. Taking(p, i, n, useDict, a, t, x, o)  BY ONLY <3>1, <3>2, CellTaken
    <3> QED  BY ONLY <3>3 DEF Taking
  <2>12. f[i] = o \o Append(Marked(p, i), FromRef(n))
    BY <1>2, <1>10, <2>3, <2>8, <2>9
  <2> QED  BY ONLY <2>3, <2>4, <2>5, <2>6, <2>11, <2>12, Zenon
<1> DEFINE zero == [numbers |-> 0, texts |-> 0, bytes |-> 0, out |-> <<>>]
           Rec(u) == u = [i \in 0..N |-> IF i = 0 THEN zero
                                         ELSE TakeCell(p, u[i - 1], i, useDict)]
           g == CHOOSE u : Rec(u)
<1>12. e[0] = zero /\ \A i \in 1..N : /\ e[i - 1] = Cursor(Len(F[i - 1]), Len(L[i - 1]),
                                                          Len(X[i - 1]), f[i - 1])
                                     /\ e[i] = Cursor(Len(F[i]), Len(L[i]), Len(X[i]), f[i])
  <2>1. 0 \in 0..N /\ \A i \in 1..N : i \in 0..N /\ i - 1 \in 0..N  OBVIOUS
  <2>2. e[0] = Cursor(Len(F[0]), Len(L[0]), Len(X[0]), f[0])  BY <2>1, Zenon
  <2>3. F[0] = <<>> /\ L[0] = <<>> /\ X[0] = <<>> /\ f[0] = <<>>
    BY <1>7, <1>8, <1>9, <1>10, Zenon DEF Column
  <2>4. Cursor(0, 0, 0, <<>>) = zero  BY Zenon DEF Cursor
  <2>5. Len(<<>>) = 0  OBVIOUS
  <2>6. e[0] = zero
    <3> HIDE DEF e, zero
    <3> QED  BY ONLY <2>2, <2>3, <2>4, <2>5, Zenon
  <2> QED  BY <2>1, <2>6, Zenon
<1>13. Rec(e)
  <2>1. ASSUME NEW i \in 0..N
        PROVE  e[i] = IF i = 0 THEN zero ELSE TakeCell(p, e[i - 1], i, useDict)
    <3>1. i # 0 => i \in 1..N  OBVIOUS
    <3> HIDE DEF e, zero
    <3> QED  BY <1>11, <1>12, <3>1, Zenon
  <2>2. e = [i \in 0..N |-> e[i]]  BY Zenon
  <2> HIDE DEF e, zero
  <2> QED  BY <2>1, <2>2, Zenon
<1> HIDE DEF e
<1>14. Rec(g)  BY <1>13, Zenon
<1>15. decode_packed(p, useDict) = g[N].out
  <2>1. p.count * p.width = N  BY <1>2, <1>4
  <2> QED  BY <2>1, Zenon DEF decode_packed
<1> HIDE DEF g
<1>16. g[0] = zero /\ \A i \in 1..N : g[i] = TakeCell(p, g[i - 1], i, useDict)
  <2>1. \A i \in 0..N : g[i] = IF i = 0 THEN zero ELSE TakeCell(p, g[i - 1], i, useDict)
    BY <1>14, Zenon
  <2>2. 0 \in 0..N /\ \A i \in 1..N : i \in 0..N /\ i # 0  OBVIOUS
  <2> HIDE DEF zero
  <2> QED  BY <2>1, <2>2, Zenon
<1> DEFINE S == {i \in 0..N : g[i] = e[i]}
<1>17. 0 \in S
  <2>1. 0 \in 0..N  OBVIOUS
  <2> QED  BY <1>12, <1>16, <2>1
<1>18. \A i \in 1..N : i - 1 \in S => i \in S
  <2> SUFFICES ASSUME NEW i \in 1..N, i - 1 \in S  PROVE i \in S
    OBVIOUS
  <2>1. i \in 0..N  OBVIOUS
  <2>2. g[i - 1] = e[i - 1]  BY Zenon
  <2>3. g[i] = e[i]
    <3> HIDE DEF S, zero
    <3> QED  BY <1>11, <1>12, <1>16, <2>2, Zenon
  <2> QED  BY <2>1, <2>3, Zenon
<1> HIDE DEF S
<1>19. g[N] = e[N]
  <2>1. N \in 0..N  OBVIOUS
  <2>2. N \in S  BY ONLY <1>17, <1>18, <2>1, N \in Nat, Climbs
  <2> QED  BY <2>2, Zenon DEF S
<1>20. e[N] = Cursor(Len(F[N]), Len(L[N]), Len(X[N]), f[N])
  <2>1. N \in 0..N  OBVIOUS
  <2> QED  BY <2>1, Zenon DEF e
<1>21. g[N].out = f[N]
  <2>1. PICK q1, q2, q3, q4 : q1 = Len(F[N]) /\ q2 = Len(L[N]) /\ q3 = Len(X[N]) /\ q4 = f[N]
    OBVIOUS
  <2>2. PICK d : d = g[N]  OBVIOUS
  <2>3. d = Cursor(q1, q2, q3, q4)  BY ONLY <1>19, <1>20, <2>1, <2>2, Zenon
  <2>4. d.out = q4  BY ONLY <2>3, CursorHas
  <2> QED  BY ONLY <2>1, <2>2, <2>4
<1> QED  BY ONLY <1>2, <1>3, <1>10, <1>15, <1>21, Zenon

-----------------------------------------------------------------------------
(* The rows of a batch, whatever its width becomes.                        *)
CellSet == 0..MaxCells
PackedRow == [row : Nat, vals : Seq(CellSet)]

(* h rows of w cells, one behind the other, and the k-th cell of the r-th. *)
InRow(cells, w, r, c) == cells[(r - 1) * w + c]

Widened(pad, cells, old, width, h) ==
    /\ h \in Nat /\ h * width \in Nat /\ pad \in Seq(CellSet) /\ Len(pad) = h * width
    /\ \A r \in 1..h, c \in 1..width :
         InRow(pad, width, r, c) = IF c <= old THEN InRow(cells, old, r, c) ELSE 0

LEMMA RepaddedIs ==
  ASSUME NEW cells \in Seq(CellSet), NEW old \in Nat \ {0}, NEW width \in Nat \ {0}
  PROVE  Widened(Repadded(cells, old, width), cells, old, width, Len(cells) \div old)
<1>0. PICK h, pad : h = Len(cells) \div old /\ pad = Repadded(cells, old, width)
  OBVIOUS
<1>1. PICK T : T = CellSet  OBVIOUS
<1>2. cells \in Seq(T) /\ 0 \in T  BY <1>1, SizeAssumption DEF CellSet
<1>3. Len(cells) \in Nat /\ \A i \in 1..Len(cells) : cells[i] \in T
  BY ONLY <1>2
<1>4. h \in Nat /\ Len(cells) >= h * old
  <2>1. PICK L \in Nat : L = Len(cells)  BY <1>3
  <2>2. L \div old \in Nat /\ L % old \in 0..(old - 1)
        /\ L = (L \div old) * old + (L % old)
    BY Divided
  <2>3. PICK m \in Nat : m = L % old  BY <2>2
  <2>4. h \in Nat /\ L = h * old + m  BY <1>0, <2>1, <2>2, <2>3
  <2>5. h * old \in Nat  BY <2>4, Product
  <2> QED  BY ONLY <2>1, <2>4, <2>5, m \in Nat
<1>5. PICK n \in Nat : n = h * width  BY <1>4, Product
<1> DEFINE PadAt(k) == LET r == (k - 1) \div width  c == (k - 1) % width IN
                    IF c < old THEN cells[r * old + c + 1] ELSE 0
<1>6. pad = [k \in 1..n |-> PadAt(k)]  BY <1>0, <1>5, Zenon DEF Repadded
<1>7. ASSUME NEW r \in 1..h, NEW c \in 1..width
      PROVE  /\ PadAt((r - 1) * width + c) = IF c <= old THEN InRow(cells, old, r, c) ELSE 0
             /\ (r - 1) * width + c \in 1..n
             /\ (IF c <= old THEN InRow(cells, old, r, c) ELSE 0) \in T
  <2>1. PICK q \in Nat, e \in Nat : q = r - 1 /\ h = r + e
    <3>1. h \in Nat  BY <1>4
    <3>2. r - 1 \in Nat /\ h - r \in Nat /\ h = r + (h - r)  BY ONLY <3>1, r \in 1..h
    <3> QED  BY <3>2
  <2>2. c - 1 \in 0..(width - 1)  OBVIOUS
  <2>3. (q * width + (c - 1)) \div width = q /\ (q * width + (c - 1)) % width = c - 1
    BY <2>2, CellOfRow
  <2>4. q * width \in Nat /\ q * old \in Nat  BY Product
  <2>5. PICK k : k = q * width + c  OBVIOUS
  <2>6. k - 1 = q * width + (c - 1)  BY ONLY <2>4, <2>5, c \in 1..width, width \in Nat \ {0}
  <2>7. PadAt(k) = IF c - 1 < old THEN cells[q * old + (c - 1) + 1] ELSE 0
    <3>1. (k - 1) \div width = q /\ (k - 1) % width = c - 1  BY ONLY <2>3, <2>6, Zenon
    <3> QED  BY ONLY <3>1, Zenon
  <2>8. (c - 1 < old <=> c <= old) /\ q * old + (c - 1) + 1 = q * old + c
    BY ONLY <2>4, c \in 1..width, width \in Nat \ {0}, old \in Nat \ {0}
  <2>9. k \in 1..n
    <3>1. h * width = q * width + width + e * width /\ e * width \in Nat
      <4>1. \A x, y, z \in Nat : (x + 1 + y) * z = x * z + z + y * z /\ y * z \in Nat
        BY ONLY TRUE
      <4>2. h = q + 1 + e  BY ONLY <2>1, r \in 1..h, <1>4
      <4>3. (q + 1 + e) * width = q * width + width + e * width /\ e * width \in Nat
        BY ONLY <4>1, q \in Nat, e \in Nat, width \in Nat \ {0}
      <4> QED  BY ONLY <4>2, <4>3, Zenon
    <3> QED  BY ONLY <1>5, <2>4, <2>5, <3>1, c \in 1..width, width \in Nat \ {0}
  <2>10. c <= old => cells[q * old + c] \in T
    <3> SUFFICES ASSUME c <= old  PROVE cells[q * old + c] \in T  OBVIOUS
    <3>1. h * old = q * old + old + e * old /\ e * old \in Nat
      <4>1. \A x, y, z \in Nat : (x + 1 + y) * z = x * z + z + y * z /\ y * z \in Nat
        BY ONLY TRUE
      <4>2. h = q + 1 + e  BY ONLY <2>1, r \in 1..h, <1>4
      <4>3. (q + 1 + e) * old = q * old + old + e * old /\ e * old \in Nat
        BY ONLY <4>1, q \in Nat, e \in Nat, old \in Nat \ {0}
      <4> QED  BY ONLY <4>2, <4>3, Zenon
    <3>2. q * old + c \in 1..Len(cells)
      BY ONLY <1>3, <1>4, <2>4, <3>1, c <= old, c \in 1..width, width \in Nat \ {0},
              old \in Nat \ {0}
    <3> QED  BY ONLY <1>3, <3>2
  <2> HIDE DEF PadAt
  <2>11. PadAt(k) = IF c <= old THEN InRow(cells, old, r, c) ELSE 0
    BY ONLY <2>1, <2>7, <2>8, Zenon DEF InRow
  <2>12. (IF c <= old THEN InRow(cells, old, r, c) ELSE 0) \in T
    BY ONLY <1>2, <2>1, <2>10, Zenon DEF InRow
  <2>13. (r - 1) * width + c = k  BY ONLY <2>1, <2>5, Zenon
  <2> QED  BY ONLY <2>9, <2>11, <2>12, <2>13, Zenon
<1>8. ASSUME NEW k \in 1..n  PROVE PadAt(k) \in T
  <2>1. PICK r \in 1..h, c \in 1..width : k = (r - 1) * width + c
    <3>1. h \in Nat /\ k \in 1..(h * width)  BY <1>4, <1>5
    <3> QED  BY ONLY <3>1, RowOfCell, width \in Nat \ {0}, ZenonT(60)
  <2> HIDE DEF PadAt
  <2> QED  BY ONLY <1>7, <2>1, Zenon
<1> HIDE DEF PadAt
<1>9. pad \in [1..n -> T]  BY ONLY <1>6, <1>8, Zenon
<1>10. pad \in Seq(T) /\ Len(pad) = n  BY ONLY <1>9, n \in Nat
<1>11. \A r \in 1..h, c \in 1..width :
          InRow(pad, width, r, c) = IF c <= old THEN InRow(cells, old, r, c) ELSE 0
  <2>1. \A k \in 1..n : pad[k] = PadAt(k)  BY ONLY <1>6, Zenon
  <2> QED  BY ONLY <1>7, <2>1, Zenon DEF InRow
<1> QED  BY ONLY <1>0, <1>1, <1>4, <1>5, <1>10, <1>11, Zenon DEF Widened

(* The cells are rows lo+1 to hi of grid g, each from column A and blank   *)
(* where it ends before the last column.                                   *)
RowAt(cells, width, r, vals) ==
    /\ Len(vals) <= width
    /\ \A c \in 1..width :
        InRow(cells, width, r, c) = IF c <= Len(vals) THEN vals[c] ELSE 0
Piled(first, width, cells, g, lo, hi) ==
    /\ Len(cells) = (hi - lo) * width
    /\ lo < hi => first = g[lo + 1].row
    /\ \A r \in 1..(hi - lo) : RowAt(cells, width, r, g[lo + r].vals)

(* Rows that come behind change nothing. *)
LEMMA PiledFront ==
  ASSUME NEW g, NEW e, FrontOf(g, e), Len(g) \in Nat,
         NEW lo \in Nat, NEW hi \in Nat, hi <= Len(g),
         NEW first, NEW width, NEW cells, Piled(first, width, cells, g, lo, hi)
  PROVE  Piled(first, width, cells, e, lo, hi)
<1>1. \A j \in 1..Len(g) : e[j] = g[j]  BY DEF FrontOf
<1>2. lo < hi => lo + 1 \in 1..Len(g)  OBVIOUS
<1>3. \A r \in 1..(hi - lo) : lo + r \in 1..Len(g)  OBVIOUS
<1> QED  BY <1>1, <1>2, <1>3, Zenon DEF Piled

(* Padded to a greater width the rows are the same. *)
LEMMA PiledWider ==
  ASSUME NEW g, NEW lo \in Nat, NEW hi \in Nat, lo <= hi,
         \A r \in 1..(hi - lo) : Len(g[lo + r].vals) \in Nat,
         NEW first, NEW old \in Nat \ {0}, NEW width \in Nat \ {0}, old <= width,
         NEW cells \in Seq(CellSet), Piled(first, old, cells, g, lo, hi)
  PROVE  /\ Repadded(cells, old, width) \in Seq(CellSet)
         /\ Piled(first, width, Repadded(cells, old, width), g, lo, hi)
<1>1. PICK h \in Nat : h = hi - lo  OBVIOUS
<1>2. Len(cells) = h * old  BY <1>1, Zenon DEF Piled
<1>3. Len(cells) \div old = h
  <2>1. PICK z \in 0..(old - 1) : z = 0  OBVIOUS
  <2>2. PICK a \in Nat : a = h * old  BY Product
  <2>3. (h * old + z) \div old = h  BY CellOfRow
  <2>4. h * old + z = a  BY ONLY <2>1, <2>2
  <2>5. a \div old = h  BY ONLY <2>3, <2>4, Zenon
  <2> QED  BY ONLY <1>2, <2>2, <2>5, Zenon
<1>4. PICK pad : pad = Repadded(cells, old, width)  OBVIOUS
<1>5. /\ pad \in Seq(CellSet) /\ Len(pad) = h * width
      /\ \A r \in 1..h, c \in 1..width :
            InRow(pad, width, r, c) = IF c <= old THEN InRow(cells, old, r, c) ELSE 0
  <2>1. cells \in Seq(CellSet) /\ old \in Nat \ {0} /\ width \in Nat \ {0}  OBVIOUS
  <2>2. Widened(Repadded(cells, old, width), cells, old, width, Len(cells) \div old)
    BY ONLY <2>1, RepaddedIs
  <2>3. Widened(pad, cells, old, width, h)  BY ONLY <1>3, <1>4, <2>2, Zenon
  <2> QED  BY ONLY <2>3, Zenon DEF Widened
<1>6. ASSUME NEW r \in 1..h
      PROVE  RowAt(pad, width, r, g[lo + r].vals)
  <2>1. PICK v : v = g[lo + r].vals  OBVIOUS
  <2>2. PICK n \in Nat : n = Len(v)  BY <1>1, <2>1
  <2>3. /\ n <= old
        /\ \A c \in 1..old : InRow(cells, old, r, c) = IF c <= n THEN v[c] ELSE 0
    BY <1>1, <2>1, <2>2, Zenon DEF Piled, RowAt
  <2>4. n <= width  BY ONLY <2>3, n \in Nat, old \in Nat \ {0}, width \in Nat \ {0}, old <= width
  <2>5. \A c \in 1..width : /\ c <= old => c \in 1..old
                            /\ ~(c <= old) => ~(c <= n)
    BY ONLY <2>3, n \in Nat, old \in Nat \ {0}, width \in Nat \ {0}
  <2>6. \A c \in 1..width : InRow(pad, width, r, c) = IF c <= n THEN v[c] ELSE 0
    BY ONLY <1>5, <2>3, <2>5, r \in 1..h, Zenon
  <2> QED  BY ONLY <2>1, <2>2, <2>4, <2>6, Zenon DEF RowAt
<1>7. lo < hi => first = g[lo + 1].row  BY Zenon DEF Piled
<1> QED  BY ONLY <1>1, <1>4, <1>5, <1>6, <1>7, Zenon DEF Piled

(* A row as wide as what is pending goes behind it. *)
LEMMA PiledMore ==
  ASSUME NEW g, NEW lo \in Nat, NEW hi \in Nat, lo <= hi,
         NEW first, NEW width \in Nat \ {0}, NEW cells \in Seq(CellSet),
         Piled(first, width, cells, g, lo, hi),
         NEW vals \in Seq(CellSet), vals = g[hi + 1].vals, Len(vals) = width,
         first = g[lo + 1].row
  PROVE  /\ cells \o vals \in Seq(CellSet) /\ cells \o vals # <<>>
         /\ Piled(first, width, cells \o vals, g, lo, hi + 1)
<1>1. PICK T : T = CellSet  OBVIOUS
<1>2. cells \in Seq(T) /\ vals \in Seq(T)  BY <1>1
<1>3. PICK h \in Nat : h = hi - lo /\ (hi + 1) - lo = h + 1 /\ lo + (h + 1) = hi + 1
  OBVIOUS
<1>4. PICK n \in Nat : n = h * width  BY Product
<1>5. Len(cells) = n  BY ONLY <1>3, <1>4, Piled(first, width, cells, g, lo, hi), Zenon DEF Piled
<1>6. /\ cells \o vals \in Seq(T) /\ Len(cells \o vals) = n + width
      /\ \A j \in 1..n : (cells \o vals)[j] = cells[j]
      /\ \A j \in 1..width : (cells \o vals)[n + j] = vals[j]
  <2>1. Len(vals) = width  OBVIOUS
  <2> QED  BY ONLY <1>2, <1>5, <2>1, n \in Nat, width \in Nat \ {0}
<1>7. PICK more \in Seq(T) : more = cells \o vals  BY <1>6
<1>8. more # <<>>
  <2>1. Len(more) # 0  BY ONLY <1>6, <1>7, n \in Nat, width \in Nat \ {0}
  <2>2. Len(<<>>) = 0  OBVIOUS
  <2> QED  BY ONLY <2>1, <2>2, Zenon
<1>9. Len(more) = (h + 1) * width
  <2>1. (h + 1) * width = h * width + width  BY Product
  <2> QED  BY ONLY <1>4, <1>6, <1>7, <2>1, Zenon
<1>10. ASSUME NEW r \in 1..(h + 1)
       PROVE  RowAt(more, width, r, g[lo + r].vals)
  <2>1. CASE r = h + 1
    <3>1. g[lo + r].vals = vals  BY ONLY <1>3, <2>1, vals = g[hi + 1].vals, Zenon
    <3>2. r - 1 = h  BY ONLY <2>1, h \in Nat
    <3>3. \A c \in 1..width : InRow(more, width, r, c) = vals[c]
      BY ONLY <1>4, <1>6, <1>7, <3>2, Zenon DEF InRow
    <3>4. Len(vals) <= width /\ \A c \in 1..width : c <= Len(vals)
      BY ONLY Len(vals) = width, width \in Nat \ {0}
    <3> QED  BY ONLY <3>1, <3>3, <3>4, Zenon DEF RowAt
  <2>2. CASE r # h + 1
    <3>1. PICK q \in Nat, e \in Nat : q = r - 1 /\ h = q + 1 + e
      <4>1. r - 1 \in Nat /\ h - r \in Nat /\ h = (r - 1) + 1 + (h - r)
        BY ONLY <2>2, h \in Nat, r \in 1..(h + 1)
      <4> QED  BY <4>1
    <3>2. h * width = q * width + width + e * width /\ e * width \in Nat /\ q * width \in Nat
      <4>1. \A x, y, z \in Nat : /\ (x + 1 + y) * z = x * z + z + y * z
                                 /\ y * z \in Nat /\ x * z \in Nat
        BY ONLY TRUE
      <4>2. /\ (q + 1 + e) * width = q * width + width + e * width
            /\ e * width \in Nat /\ q * width \in Nat
        BY ONLY <4>1, q \in Nat, e \in Nat, width \in Nat \ {0}
      <4> QED  BY ONLY <3>1, <4>2, Zenon
    <3>3. \A c \in 1..width : q * width + c \in 1..n
      BY ONLY <1>4, <3>2, n \in Nat, width \in Nat \ {0}
    <3>4. \A c \in 1..width : InRow(more, width, r, c) = InRow(cells, width, r, c)
      BY ONLY <1>6, <1>7, <3>1, <3>3, Zenon DEF InRow
    <3>5. r \in 1..h  BY ONLY <2>2, h \in Nat, r \in 1..(h + 1)
    <3>6. RowAt(cells, width, r, g[lo + r].vals)
      BY ONLY <1>3, <3>5, Piled(first, width, cells, g, lo, hi), Zenon DEF Piled
    <3> QED  BY ONLY <3>4, <3>6, Zenon DEF RowAt
  <2> QED  BY <2>1, <2>2
<1> QED  BY ONLY <1>1, <1>3, <1>6, <1>7, <1>8, <1>9, <1>10, first = g[lo + 1].row,
                 Zenon DEF Piled

(* What is pushed to: the batches closed, and the one that is pending. *)
PackBatch == [first : Nat, width : Nat \ {0}, cells : Seq(CellSet)]
PackState == [done : Seq(PackBatch), first : Nat, width : Nat \ {0}, cells : Seq(CellSet)]
PackOf(done, first, width, cells) ==
    [done |-> done, first |-> first, width |-> width, cells |-> cells]

LEMMA PackHas ==
  ASSUME NEW done, NEW first, NEW width, NEW cells,
         NEW b, b = PackOf(done, first, width, cells)
  PROVE  b.done = done /\ b.first = first /\ b.width = width /\ b.cells = cells
BY DEF PackOf

LEMMA PackCells ==
  ASSUME NEW done, NEW first, NEW width, NEW cells, NEW more,
         NEW b, b = PackOf(done, first, width, cells)
  PROVE  [b EXCEPT !.cells = more] = PackOf(done, first, width, more)
BY DEF PackOf

Opened(b, first, width) == [b EXCEPT !.first = first, !.width = width]
LEMMA PackOpened ==
  ASSUME NEW done, NEW first, NEW width, NEW cells, NEW f, NEW w,
         NEW b, b = PackOf(done, first, width, cells)
  PROVE  Opened(b, f, w) = PackOf(done, f, w, cells)
<1>1. PICK e : e = [b EXCEPT !.first = f]  OBVIOUS
<1>2. e = PackOf(done, f, width, cells)  BY <1>1 DEF PackOf
<1>3. [e EXCEPT !.width = w] = PackOf(done, f, w, cells)  BY <1>2 DEF PackOf
<1>4. [[b EXCEPT !.first = f] EXCEPT !.width = w] = Opened(b, f, w)  BY DEF Opened
<1> QED  BY <1>1, <1>3, <1>4

Widening(b, width, cells) == [b EXCEPT !.width = width, !.cells = cells]
LEMMA PackWidening ==
  ASSUME NEW done, NEW first, NEW width, NEW cells, NEW w, NEW c,
         NEW b, b = PackOf(done, first, width, cells)
  PROVE  Widening(b, w, c) = PackOf(done, first, w, c)
<1>1. PICK e : e = [b EXCEPT !.width = w]  OBVIOUS
<1>2. e = PackOf(done, first, w, cells)  BY <1>1 DEF PackOf
<1>3. [e EXCEPT !.cells = c] = PackOf(done, first, w, c)  BY <1>2 DEF PackOf
<1>4. [[b EXCEPT !.width = w] EXCEPT !.cells = c] = Widening(b, w, c)  BY DEF Widening
<1> QED  BY <1>1, <1>3, <1>4

Closing(b, done) == [b EXCEPT !.done = done, !.cells = <<>>]
LEMMA PackClosing ==
  ASSUME NEW done, NEW first, NEW width, NEW cells, NEW d,
         NEW b, b = PackOf(done, first, width, cells)
  PROVE  Closing(b, d) = PackOf(d, first, width, <<>>)
<1>1. PICK e : e = [b EXCEPT !.done = d]  OBVIOUS
<1>2. e = PackOf(d, first, width, cells)  BY <1>1 DEF PackOf
<1>3. [e EXCEPT !.cells = <<>>] = PackOf(d, first, width, <<>>)  BY <1>2 DEF PackOf
<1>4. [[b EXCEPT !.done = d] EXCEPT !.cells = <<>>] = Closing(b, d)  BY DEF Closing
<1> QED  BY <1>1, <1>3, <1>4

(* push_row, in terms of the fields. *)
FirstFor(first, cells, row) == IF cells = <<>> THEN row ELSE first
WidthFor(width, cells, w) == IF cells = <<>> \/ width < w THEN w ELSE width
BaseFor(width, cells, w) ==
    IF cells # <<>> /\ width < w THEN Repadded(cells, width, w) ELSE cells
PushedTo(done, f, w, more) ==
    IF Len(more) \div w >= BatchRows
    THEN PackOf(Append(done, [first |-> f, width |-> w, cells |-> more]), f, w, <<>>)
    ELSE PackOf(done, f, w, more)

LEMMA PushIs ==
  ASSUME NEW done, NEW first, NEW width, NEW cells, NEW row, NEW vals, NEW w,
         w = Len(vals), NEW r, r.row = row, r.vals = vals,
         NEW b, b = PackOf(done, first, width, cells)
  PROVE  PushRow(b, r) = PushedTo(done, FirstFor(first, cells, row), WidthFor(width, cells, w),
                                  BaseFor(width, cells, w) \o vals)
<1> DEFINE ready == IF b.cells = <<>> THEN Opened(b, r.row, Len(r.vals))
                    ELSE IF b.width < Len(r.vals)
                    THEN Widening(b, Len(r.vals), Repadded(b.cells, b.width, Len(r.vals)))
                    ELSE b
           more == [ready EXCEPT !.cells = @ \o r.vals]
<1>1. PushRow(b, r) = IF Len(more.cells) \div more.width >= BatchRows
                      THEN Closing(more, Closed(more)) ELSE more
  BY Zenon DEF PushRow, Opened, Widening, Closing
<1>2. b.done = done /\ b.first = first /\ b.width = width /\ b.cells = cells
  BY PackHas
<1>3. PICK f, d, base : /\ f = FirstFor(first, cells, row) /\ d = WidthFor(width, cells, w)
                        /\ base = BaseFor(width, cells, w)
  OBVIOUS
<1>4. ready = PackOf(done, f, d, base)
  <2>1. CASE cells = <<>>
    <3>1. ready = Opened(b, row, w)  BY <1>2, <2>1, Zenon
    <3>2. f = row /\ d = w /\ base = cells
      BY <1>3, <2>1, Zenon DEF FirstFor, WidthFor, BaseFor
    <3> HIDE DEF ready
    <3>3. Opened(b, row, w) = PackOf(done, row, w, cells)
      BY ONLY PackOpened, b = PackOf(done, first, width, cells)
    <3> QED  BY ONLY <3>1, <3>2, <3>3, Zenon
  <2>2. CASE cells # <<>> /\ width < w
    <3>1. ready = Widening(b, w, Repadded(cells, width, w))  BY <1>2, <2>2, Zenon
    <3>2. f = first /\ d = w /\ base = Repadded(cells, width, w)
      BY <1>3, <2>2, Zenon DEF FirstFor, WidthFor, BaseFor
    <3> HIDE DEF ready
    <3>3. Widening(b, w, base) = PackOf(done, first, w, base)
      BY ONLY PackWidening, b = PackOf(done, first, width, cells)
    <3> QED  BY ONLY <3>1, <3>2, <3>3, Zenon
  <2>3. CASE cells # <<>> /\ ~(width < w)
    <3>1. ready = b  BY <1>2, <2>3, Zenon
    <3>2. f = first /\ d = width /\ base = cells
      BY <1>3, <2>3, Zenon DEF FirstFor, WidthFor, BaseFor
    <3> HIDE DEF ready
    <3> QED  BY ONLY <3>1, <3>2, b = PackOf(done, first, width, cells), Zenon
  <2> QED  BY <2>1, <2>2, <2>3
<1> HIDE DEF ready
<1>5. PICK e : e = ready  OBVIOUS
<1>6. PICK s : s = base \o vals  OBVIOUS
<1>7. more = PackOf(done, f, d, s)
  <2>1. e.cells = base  BY ONLY <1>4, <1>5, PackHas
  <2>2. [e EXCEPT !.cells = s] = PackOf(done, f, d, s)  BY ONLY <1>4, <1>5, PackCells
  <2> QED  BY <1>5, <1>6, <2>1, <2>2, Zenon
<1> HIDE DEF more
<1>8. PICK m : m = more  OBVIOUS
<1>9. /\ m.done = done /\ m.first = f /\ m.width = d /\ m.cells = s
      /\ Closing(m, Closed(m)) = PackOf(Closed(m), f, d, <<>>)
  <2>1. m.done = done /\ m.first = f /\ m.width = d /\ m.cells = s
    BY ONLY <1>7, <1>8, PackHas
  <2>2. Closing(m, Closed(m)) = PackOf(Closed(m), f, d, <<>>)
    BY ONLY <1>7, <1>8, PackClosing
  <2> QED  BY ONLY <2>1, <2>2
<1>10. Closed(m) = Append(done, [first |-> f, width |-> d, cells |-> s])
  BY ONLY <1>9, Zenon DEF Closed
<1> QED  BY ONLY <1>1, <1>3, <1>6, <1>7, <1>8, <1>9, <1>10, Zenon DEF PushedTo

LEMMA PackOfTyped ==
  ASSUME NEW done \in Seq(PackBatch), NEW first \in Nat, NEW width \in Nat \ {0},
         NEW cells \in Seq(CellSet)
  PROVE  /\ PackOf(done, first, width, cells) \in PackState
         /\ [first |-> first, width |-> width, cells |-> cells] \in PackBatch
BY DEF PackOf, PackState, PackBatch

LEMMA PackStateIs ==
  ASSUME NEW b \in PackState
  PROVE  \E done \in Seq(PackBatch), first \in Nat, width \in Nat \ {0}, cells \in Seq(CellSet) :
            b = PackOf(done, first, width, cells)
<1>1. /\ b.done \in Seq(PackBatch) /\ b.first \in Nat /\ b.width \in Nat \ {0}
      /\ b.cells \in Seq(CellSet)
      /\ b = [done |-> b.done, first |-> b.first, width |-> b.width, cells |-> b.cells]
  BY DEF PackState
<1> QED  BY ONLY <1>1, Zenon DEF PackOf

(* What is pushed keeps its type, whatever it was. *)
LEMMA PartsTyped ==
  ASSUME NEW first \in Nat, NEW width \in Nat \ {0}, NEW cells \in Seq(CellSet),
         NEW row \in Nat, NEW vals \in Seq(CellSet), NEW w \in Nat \ {0}
  PROVE  /\ FirstFor(first, cells, row) \in Nat
         /\ WidthFor(width, cells, w) \in Nat \ {0}
         /\ BaseFor(width, cells, w) \in Seq(CellSet)
         /\ BaseFor(width, cells, w) \o vals \in Seq(CellSet)
<1>1. FirstFor(first, cells, row) \in Nat /\ WidthFor(width, cells, w) \in Nat \ {0}
  BY Zenon DEF FirstFor, WidthFor
<1>2. Widened(Repadded(cells, width, w), cells, width, w, Len(cells) \div width)
  BY RepaddedIs
<1>3. Repadded(cells, width, w) \in Seq(CellSet)  BY ONLY <1>2, Zenon DEF Widened
<1>4. BaseFor(width, cells, w) \in Seq(CellSet)  BY <1>3, Zenon DEF BaseFor
<1>5. BaseFor(width, cells, w) \o vals \in Seq(CellSet)
  <2>1. PICK T, base : T = CellSet /\ base = BaseFor(width, cells, w)  OBVIOUS
  <2>2. base \in Seq(T) /\ vals \in Seq(T)  BY <1>4, <2>1
  <2>3. base \o vals \in Seq(T)  BY ONLY <2>2
  <2> QED  BY ONLY <2>1, <2>3, Zenon
<1> QED  BY <1>1, <1>4, <1>5

LEMMA PushedTyped ==
  ASSUME NEW done \in Seq(PackBatch), NEW f \in Nat, NEW w \in Nat \ {0},
         NEW more \in Seq(CellSet)
  PROVE  PushedTo(done, f, w, more) \in PackState
<1>1. PICK x \in PackBatch : x = [first |-> f, width |-> w, cells |-> more]
  BY PackOfTyped
<1>2. Append(done, x) \in Seq(PackBatch)
  <2>1. PICK T : T = PackBatch  OBVIOUS
  <2>2. done \in Seq(T) /\ x \in T  BY <2>1
  <2>3. Append(done, x) \in Seq(T)  BY ONLY <2>2
  <2> QED  BY ONLY <2>1, <2>3, Zenon
<1>3. <<>> \in Seq(CellSet)  OBVIOUS
<1>4. PackOf(Append(done, x), f, w, <<>>) \in PackState  BY <1>2, <1>3, PackOfTyped
<1>5. PackOf(done, f, w, more) \in PackState  BY PackOfTyped
<1> QED  BY <1>1, <1>4, <1>5, Zenon DEF PushedTo

LEMMA PushTyped ==
  ASSUME NEW b \in PackState, NEW r \in PackedRow, Len(r.vals) # 0
  PROVE  PushRow(b, r) \in PackState
<1>1. PICK done \in Seq(PackBatch), first \in Nat, width \in Nat \ {0}, cells \in Seq(CellSet) :
        b = PackOf(done, first, width, cells)
  BY PackStateIs
<1>2. PICK row \in Nat, vals \in Seq(CellSet) : r.row = row /\ r.vals = vals
  BY DEF PackedRow
<1>3. PICK w \in Nat \ {0} : w = Len(vals)  BY <1>2
<1>4. PushRow(b, r) = PushedTo(done, FirstFor(first, cells, row), WidthFor(width, cells, w),
                               BaseFor(width, cells, w) \o vals)
  BY ONLY <1>1, <1>2, <1>3, PushIs
<1>5. /\ FirstFor(first, cells, row) \in Nat
      /\ WidthFor(width, cells, w) \in Nat \ {0}
      /\ BaseFor(width, cells, w) \o vals \in Seq(CellSet)
  BY PartsTyped
<1>6. PushedTo(done, FirstFor(first, cells, row), WidthFor(width, cells, w),
               BaseFor(width, cells, w) \o vals) \in PackState
  BY <1>5, PushedTyped
<1> QED  BY <1>4, <1>6, Zenon

(* The batches are the first n rows of grid g, cut where the marks are. *)
Holds(x, g, lo, hi) == Piled(x.first, x.width, x.cells, g, lo, hi)
CutAt(done, g, marks, n) ==
    /\ marks \in [0..Len(done) -> 0..n] /\ marks[0] = 0
    /\ \A k \in 1..Len(done) :
        marks[k - 1] < marks[k] /\ Holds(done[k], g, marks[k - 1], marks[k])
PackUpTo(b, g, n) ==
    \E marks : /\ CutAt(b.done, g, marks, n)
               /\ Holds(b, g, marks[Len(b.done)], n)
               /\ b.cells # <<>> => b.width = Len(g[n].vals)
PackWhole(done, g) ==
    \E marks : CutAt(done, g, marks, Len(g)) /\ marks[Len(done)] = Len(g)

LEMMA CutMore ==
  ASSUME NEW done \in Seq(PackBatch), NEW x \in PackBatch, NEW g, NEW marks,
         NEW n \in Nat, NEW m \in Nat, n <= m,
         CutAt(done, g, marks, n), marks[Len(done)] < m,
         Holds(x, g, marks[Len(done)], m)
  PROVE  \E e : /\ CutAt(Append(done, x), g, e, m)
                /\ e[Len(Append(done, x))] = m
<1>1. PICK T : T = PackBatch  OBVIOUS
<1>2. PICK L \in Nat : L = Len(done)
  <2>1. done \in Seq(T)  BY <1>1
  <2>2. Len(done) \in Nat  BY ONLY <2>1
  <2> QED  BY <2>2
<1>3. PICK more : more = Append(done, x)  OBVIOUS
<1>4. Len(more) = L + 1 /\ more[L + 1] = x /\ \A k \in 1..L : more[k] = done[k]
  <2>1. done \in Seq(T) /\ x \in T  BY <1>1
  <2> QED  BY ONLY <1>2, <1>3, <2>1
<1>5. /\ marks \in [0..L -> 0..n] /\ marks[0] = 0
      /\ \A k \in 1..L : marks[k - 1] < marks[k] /\ Holds(done[k], g, marks[k - 1], marks[k])
  BY <1>2, Zenon DEF CutAt
<1> DEFINE e == [k \in 0..(L + 1) |-> IF k = L + 1 THEN m ELSE marks[k]]
<1>6. /\ e[L + 1] = m
      /\ \A k \in 0..L : e[k] = marks[k]
  <2>1. L + 1 \in 0..(L + 1) /\ \A k \in 0..L : k \in 0..(L + 1) /\ k # L + 1
    OBVIOUS
  <2> QED  BY <2>1, Zenon
<1>7. e \in [0..(L + 1) -> 0..m]
  <2>1. \A k \in 0..(L + 1) : k # L + 1 => k \in 0..L  OBVIOUS
  <2>2. \A k \in 0..L : marks[k] \in 0..m
    <3>1. \A j \in 0..n : j \in 0..m  BY ONLY n \in Nat, m \in Nat, n <= m
    <3> QED  BY ONLY <1>5, <3>1, Zenon
  <2>3. m \in 0..m  OBVIOUS
  <2> QED  BY ONLY <2>1, <2>2, <2>3, Zenon
<1> HIDE DEF e
<1>8. e[0] = 0
  <2>1. 0 \in 0..L  OBVIOUS
  <2> QED  BY <1>5, <1>6, <2>1
<1>9. ASSUME NEW k \in 1..(L + 1)
      PROVE  e[k - 1] < e[k] /\ Holds(more[k], g, e[k - 1], e[k])
  <2>1. CASE k = L + 1
    <3>1. k - 1 = L /\ L \in 0..L  BY <2>1
    <3>2. e[k - 1] = marks[L] /\ e[k] = m /\ more[k] = x
      BY ONLY <1>4, <1>6, <2>1, <3>1, Zenon
    <3>3. marks[L] < m /\ Holds(x, g, marks[L], m)  BY <1>2
    <3> QED  BY ONLY <3>2, <3>3, Zenon
  <2>2. CASE k # L + 1
    <3>1. k \in 1..L /\ k \in 0..L /\ k - 1 \in 0..L  BY <2>2
    <3> QED  BY ONLY <1>4, <1>5, <1>6, <3>1, Zenon
  <2> QED  BY <2>1, <2>2
<1>10. CutAt(more, g, e, m)
  BY ONLY <1>4, <1>7, <1>8, <1>9, Zenon DEF CutAt
<1>11. e[Len(more)] = m  BY ONLY <1>4, <1>6, Zenon
<1> QED  BY ONLY <1>3, <1>10, <1>11, Zenon

LEMMA CutLater ==
  ASSUME NEW done \in Seq(PackBatch), NEW g, NEW marks, NEW n \in Nat, NEW m \in Nat,
         n <= m, CutAt(done, g, marks, n)
  PROVE  /\ CutAt(done, g, marks, m)
         /\ marks[Len(done)] \in 0..n
<1>1. PICK L \in Nat : L = Len(done)
  <2>1. PICK T : T = PackBatch  OBVIOUS
  <2>2. done \in Seq(T)  BY <2>1
  <2>3. Len(done) \in Nat  BY ONLY <2>2
  <2> QED  BY <2>3
<1>2. marks \in [0..L -> 0..n]  BY <1>1, Zenon DEF CutAt
<1>3. \A j \in 0..n : j \in 0..m  BY ONLY n \in Nat, m \in Nat, n <= m
<1>4. marks \in [0..L -> 0..m]  BY ONLY <1>2, <1>3, Zenon
<1>5. L \in 0..L  OBVIOUS
<1>6. marks[L] \in 0..n  BY ONLY <1>2, <1>5, Zenon
<1>7. CutAt(done, g, marks, m)
  BY ONLY <1>1, <1>4, CutAt(done, g, marks, n), Zenon DEF CutAt
<1> QED  BY <1>1, <1>6, <1>7

LEMMA PiledNone ==
  ASSUME NEW first, NEW width \in Nat, NEW g, NEW n \in Nat
  PROVE  Piled(first, width, <<>>, g, n, n)
<1>1. n - n = 0 /\ ~(n < n) /\ Len(<<>>) = 0 /\ \A r \in 1..0 : FALSE  OBVIOUS
<1>2. 0 * width = 0  OBVIOUS
<1> QED  BY ONLY <1>1, <1>2, Zenon DEF Piled

LEMMA PiledEmpty ==
  ASSUME NEW first, NEW width \in Nat \ {0}, NEW cells \in Seq(CellSet), NEW g,
         NEW lo \in Nat, NEW hi \in Nat, lo <= hi,
         Piled(first, width, cells, g, lo, hi)
  PROVE  cells = <<>> <=> lo = hi
<1>1. PICK h \in Nat : h = hi - lo  OBVIOUS
<1>2. Len(cells) = h * width  BY <1>1, Zenon DEF Piled
<1>3. cells = <<>> <=> Len(cells) = 0
  <2>1. PICK T : T = CellSet  OBVIOUS
  <2>2. cells \in Seq(T)  BY <2>1
  <2> QED  BY ONLY <2>2
<1>4. h * width = 0 <=> h = 0
  <2>1. h >= 1 => h * width >= width  BY Product
  <2>2. h = 0 => h * width = 0  OBVIOUS
  <2>3. PICK a \in Nat : a = h * width  BY Product
  <2> QED  BY ONLY <2>1, <2>2, <2>3, h \in Nat, width \in Nat \ {0}
<1>5. h = 0 <=> lo = hi  BY ONLY <1>1, lo \in Nat, hi \in Nat
<1> QED  BY ONLY <1>2, <1>3, <1>4, <1>5

(* A row pushed is one more row the batches hold, in order (push_row). *)
LEMMA RowPushed ==
  ASSUME NEW b \in PackState, NEW g \in Seq(PackedRow), NEW n \in Nat, n + 1 <= Len(g),
         \A i \in 1..Len(g) : Len(g[i].vals) # 0,
         n # 0 => Len(g[n].vals) <= Len(g[n + 1].vals),
         PackUpTo(b, g, n)
  PROVE  PushRow(b, g[n + 1]) \in PackState /\ PackUpTo(PushRow(b, g[n + 1]), g, n + 1)
<1>1. PICK done \in Seq(PackBatch), first \in Nat, width \in Nat \ {0}, cells \in Seq(CellSet) :
        b = PackOf(done, first, width, cells)
  BY PackStateIs
<1>2. b.done = done /\ b.first = first /\ b.width = width /\ b.cells = cells
  BY ONLY <1>1, PackHas
<1>3. PICK marks : /\ CutAt(done, g, marks, n)
                   /\ Piled(first, width, cells, g, marks[Len(done)], n)
                   /\ cells # <<>> => width = Len(g[n].vals)
  BY <1>2, Zenon DEF PackUpTo, Holds
<1>4. PICK lo \in Nat : lo = marks[Len(done)] /\ lo <= n
  <2>1. marks[Len(done)] \in 0..n  BY <1>3, CutLater
  <2> QED  BY <2>1
<1>5. \A i \in 1..Len(g) : g[i] \in PackedRow
  <2>1. PICK T : T = PackedRow  OBVIOUS
  <2>2. g \in Seq(T)  BY <2>1
  <2> QED  BY ONLY <2>1, <2>2
<1>6. PICK r \in PackedRow : r = g[n + 1] /\ Len(r.vals) # 0
  <2>1. n + 1 \in 1..Len(g)
    <3>1. PICK T : T = PackedRow  OBVIOUS
    <3>2. g \in Seq(T)  BY <3>1
    <3> QED  BY ONLY <3>2, n + 1 <= Len(g), n \in Nat
  <2> QED  BY <1>5, <2>1
<1>7. PICK row \in Nat, vals \in Seq(CellSet) : r.row = row /\ r.vals = vals
  BY DEF PackedRow
<1>8. PICK w \in Nat \ {0} : w = Len(vals)
  <2>1. PICK T : T = CellSet  OBVIOUS
  <2>2. vals \in Seq(T)  BY <2>1
  <2>3. Len(vals) \in Nat  BY ONLY <2>2
  <2> QED  BY <1>6, <1>7, <2>3
<1>9. PICK f, base : /\ f = FirstFor(first, cells, row) /\ base = BaseFor(width, cells, w)
                     /\ f \in Nat /\ base \in Seq(CellSet) /\ base \o vals \in Seq(CellSet)
  BY PartsTyped
<1>10. cells = <<>> <=> lo = n
  BY ONLY <1>3, <1>4, width \in Nat \ {0}, cells \in Seq(CellSet), n \in Nat, PiledEmpty
<1>11. /\ WidthFor(width, cells, w) = w /\ f = g[lo + 1].row
       /\ Piled(f, w, base, g, lo, n)
  <2>1. CASE cells = <<>>
    <3>1. /\ WidthFor(width, cells, w) = w /\ f = row /\ base = <<>>
      BY <1>9, <2>1, Zenon DEF WidthFor, FirstFor, BaseFor
    <3>2. lo = n  BY ONLY <1>10, <2>1
    <3>3. f = g[lo + 1].row  BY ONLY <1>6, <1>7, <3>1, <3>2
    <3>4. Piled(f, w, <<>>, g, n, n)  BY PiledNone
    <3> QED  BY ONLY <3>1, <3>2, <3>3, <3>4, Zenon
  <2>2. CASE cells # <<>>
    <3>1. lo < n /\ n # 0  BY ONLY <1>4, <1>10, <2>2, n \in Nat, lo \in Nat
    <3>2. width <= w
      <4>1. Len(g[n].vals) <= Len(g[n + 1].vals)  BY <3>1
      <4>2. width = Len(g[n].vals)  BY ONLY <1>3, <2>2
      <4> QED  BY ONLY <1>6, <1>7, <1>8, <4>1, <4>2
    <3>3. f = first /\ f = g[lo + 1].row
      <4>1. f = first  BY <1>9, <2>2, Zenon DEF FirstFor
      <4>2. first = g[lo + 1].row  BY ONLY <1>3, <1>4, <3>1, Zenon DEF Piled
      <4> QED  BY <4>1, <4>2
    <3>4. CASE width < w
      <4>1. WidthFor(width, cells, w) = w /\ base = Repadded(cells, width, w)
        BY <1>9, <2>2, <3>4, Zenon DEF WidthFor, BaseFor
      <4>2. \A k \in 1..(n - lo) : Len(g[lo + k].vals) \in Nat
        <5> SUFFICES ASSUME NEW k \in 1..(n - lo)  PROVE Len(g[lo + k].vals) \in Nat
          OBVIOUS
        <5>1. lo + k \in 1..Len(g)
          <6>1. PICK T : T = PackedRow  OBVIOUS
          <6>2. g \in Seq(T)  BY <6>1
          <6> QED  BY ONLY <1>4, <6>2, n + 1 <= Len(g), n \in Nat, lo \in Nat,
                           k \in 1..(n - lo), SMTT(60)
        <5>2. g[lo + k].vals \in Seq(CellSet)  BY <1>5, <5>1 DEF PackedRow
        <5>3. PICK T, v : T = CellSet /\ v = g[lo + k].vals  OBVIOUS
        <5>4. v \in Seq(T)  BY <5>2, <5>3
        <5>5. Len(v) \in Nat  BY ONLY <5>4
        <5> QED  BY ONLY <5>3, <5>5
      <4>3. Piled(first, width, cells, g, lo, n)  BY <1>3, <1>4
      <4>4. Piled(first, w, Repadded(cells, width, w), g, lo, n)
        BY ONLY <1>4, <3>2, <4>2, <4>3, lo \in Nat, n \in Nat, width \in Nat \ {0},
                w \in Nat \ {0}, cells \in Seq(CellSet), PiledWider
      <4> QED  BY ONLY <3>3, <4>1, <4>4
    <3>5. CASE ~(width < w)
      <4>1. width = w  BY ONLY <3>2, <3>5, width \in Nat \ {0}, w \in Nat \ {0}
      <4>2. WidthFor(width, cells, w) = width /\ base = cells
        BY <1>9, <2>2, <3>5, Zenon DEF WidthFor, BaseFor
      <4> QED  BY ONLY <1>3, <1>4, <3>3, <4>1, <4>2, Zenon
    <3> QED  BY <3>4, <3>5
  <2> QED  BY <2>1, <2>2
<1>12. PICK more \in Seq(CellSet) :
        /\ more = base \o vals /\ more # <<>>
        /\ Piled(f, w, more, g, lo, n + 1)
  <2>1. vals = g[n + 1].vals /\ Len(vals) = w  BY ONLY <1>6, <1>7, <1>8
  <2>2. /\ base \in Seq(CellSet) /\ vals \in Seq(CellSet) /\ w \in Nat \ {0}
        /\ lo \in Nat /\ n \in Nat
    BY <1>9
  <2>3. base \o vals # <<>> /\ Piled(f, w, base \o vals, g, lo, n + 1)
    BY ONLY <1>4, <1>11, <2>1, <2>2, PiledMore
  <2> QED  BY ONLY <1>9, <2>3, Zenon
<1>13. PushRow(b, r) = PushedTo(done, f, w, more)
  <2>1. PushRow(b, r) = PushedTo(done, FirstFor(first, cells, row), WidthFor(width, cells, w),
                                 BaseFor(width, cells, w) \o vals)
    BY ONLY <1>1, <1>7, <1>8, PushIs
  <2> QED  BY ONLY <1>9, <1>11, <1>12, <2>1, Zenon
<1>14. PushedTo(done, f, w, more) \in PackState  BY <1>9, PushedTyped
<1>15. PICK x \in PackBatch : x = [first |-> f, width |-> w, cells |-> more]
  BY <1>9, PackOfTyped
<1>16. ASSUME NEW p, p = PackOf(Append(done, x), f, w, <<>>)
       PROVE  PackUpTo(p, g, n + 1)
  <2>1. PICK m \in Nat : m = n + 1 /\ n <= m  OBVIOUS
  <2>2. x.first = f /\ x.width = w /\ x.cells = more  BY ONLY <1>15
  <2>3. Holds(x, g, lo, m)  BY ONLY <1>12, <2>1, <2>2, Zenon DEF Holds
  <2>4. lo < m  BY ONLY <1>4, <2>1, lo \in Nat, n \in Nat
  <2>5. PICK e : CutAt(Append(done, x), g, e, m) /\ e[Len(Append(done, x))] = m
    BY <1>3, <1>4, <2>1, <2>3, <2>4, CutMore, SMTT(60)
  <2>6. p.done = Append(done, x) /\ p.first = f /\ p.width = w /\ p.cells = <<>>
    <3>1. PICK d, z : d = Append(done, x) /\ z = <<>>  OBVIOUS
    <3>2. p = PackOf(d, f, w, z)  BY ONLY <1>16, <3>1, Zenon
    <3>3. p.done = d /\ p.first = f /\ p.width = w /\ p.cells = z
      BY ONLY <3>2, PackHas
    <3> QED  BY ONLY <3>1, <3>3, Zenon
  <2>7. Piled(f, w, <<>>, g, m, m)  BY PiledNone
  <2> QED  BY ONLY <2>1, <2>5, <2>6, <2>7, Zenon DEF PackUpTo, Holds
<1>17. ASSUME NEW p, p = PackOf(done, f, w, more)
       PROVE  PackUpTo(p, g, n + 1)
  <2>1. PICK m \in Nat : m = n + 1 /\ n <= m  OBVIOUS
  <2>2. CutAt(done, g, marks, m)  BY <1>3, <2>1, CutLater
  <2>3. p.done = done /\ p.first = f /\ p.width = w /\ p.cells = more
    BY ONLY <1>17, PackHas
  <2>4. w = Len(g[n + 1].vals)  BY ONLY <1>6, <1>7, <1>8
  <2> QED  BY ONLY <1>4, <1>12, <2>1, <2>2, <2>3, <2>4, Zenon DEF PackUpTo, Holds
<1>18. PackUpTo(PushedTo(done, f, w, more), g, n + 1)
  BY ONLY <1>15, <1>16, <1>17, Zenon DEF PushedTo
<1> QED  BY ONLY <1>6, <1>13, <1>14, <1>18, Zenon

(* Rows that come behind the first n change nothing. *)
LEMMA CutFront ==
  ASSUME NEW b \in PackState, NEW g, NEW e, Len(g) \in Nat, FrontOf(g, e),
         PackUpTo(b, g, Len(g))
  PROVE  PackUpTo(b, e, Len(g))
<1>1. PICK n \in Nat : n = Len(g)  OBVIOUS
<1>2. PICK marks : /\ CutAt(b.done, g, marks, n)
                   /\ Holds(b, g, marks[Len(b.done)], n)
                   /\ b.cells # <<>> => b.width = Len(g[n].vals)
  BY <1>1, Zenon DEF PackUpTo
<1>3. b.done \in Seq(PackBatch)  BY DEF PackState
<1>4. PICK L \in Nat : L = Len(b.done)
  <2>1. PICK T, done : T = PackBatch /\ done = b.done  OBVIOUS
  <2>2. done \in Seq(T)  BY <1>3, <2>1
  <2>3. Len(done) \in Nat  BY ONLY <2>2
  <2> QED  BY <2>1, <2>3
<1>5. /\ marks \in [0..L -> 0..n] /\ marks[0] = 0
      /\ \A k \in 1..L : marks[k - 1] < marks[k]
                         /\ Holds(b.done[k], g, marks[k - 1], marks[k])
  BY <1>2, <1>4, Zenon DEF CutAt
<1>6. ASSUME NEW lo \in 0..n, NEW hi \in 0..n, NEW x, Holds(x, g, lo, hi)
      PROVE  Holds(x, e, lo, hi)
  <2>1. lo \in Nat /\ hi \in Nat /\ hi <= Len(g)  BY <1>1
  <2>2. PICK first, width, cells : first = x.first /\ width = x.width /\ cells = x.cells
    OBVIOUS
  <2>3. Piled(first, width, cells, g, lo, hi)  BY ONLY <1>6, <2>2, Zenon DEF Holds
  <2>4. Piled(first, width, cells, e, lo, hi)
    BY ONLY <2>1, <2>3, FrontOf(g, e), Len(g) \in Nat, PiledFront
  <2> QED  BY ONLY <2>2, <2>4, Zenon DEF Holds
<1>7. \A k \in 1..L : k \in 0..L /\ k - 1 \in 0..L  OBVIOUS
<1>8. \A k \in 1..L : Holds(b.done[k], e, marks[k - 1], marks[k])
  BY ONLY <1>5, <1>6, <1>7, Zenon
<1>9. CutAt(b.done, e, marks, n)  BY ONLY <1>4, <1>5, <1>8, Zenon DEF CutAt
<1>10. Holds(b, e, marks[L], n)
  <2>1. L \in 0..L /\ n \in 0..n  OBVIOUS
  <2>2. marks[L] \in 0..n  BY ONLY <1>5, <2>1, Zenon
  <2> QED  BY ONLY <1>2, <1>4, <1>6, <2>1, <2>2, Zenon
<1>11. b.cells # <<>> => b.width = Len(e[n].vals)
  <2> SUFFICES ASSUME b.cells # <<>>  PROVE b.width = Len(e[n].vals)
    OBVIOUS
  <2>1. CASE n = 0
    <3>1. marks[L] = 0
      <4>1. L \in 0..L  OBVIOUS
      <4>2. marks[L] \in 0..0  BY ONLY <1>5, <2>1, <4>1, Zenon
      <4> QED  BY <4>2
    <3>2. Piled(b.first, b.width, b.cells, g, 0, 0)
      BY ONLY <1>2, <1>4, <2>1, <3>1, Zenon DEF Holds
    <3>3. /\ b.first \in Nat /\ b.width \in Nat \ {0} /\ b.cells \in Seq(CellSet)
      BY ONLY b \in PackState DEF PackState
    <3>4. PICK first : first = b.first  OBVIOUS
    <3>5. PICK width \in Nat \ {0}, cells \in Seq(CellSet) :
            first = b.first /\ width = b.width /\ cells = b.cells
      BY ONLY <3>3, <3>4, Zenon
    <3>6. Piled(first, width, cells, g, 0, 0)  BY ONLY <3>2, <3>5, Zenon
    <3>7. cells = <<>>  BY ONLY <3>6, width \in Nat \ {0}, cells \in Seq(CellSet), PiledEmpty
    <3> QED  BY <3>5, <3>7
  <2>2. CASE n # 0
    <3>1. n \in 1..Len(g)  BY <1>1, <2>2
    <3>2. e[n] = g[n]  BY <3>1, Zenon DEF FrontOf
    <3> QED  BY <1>2, <3>2
  <2> QED  BY <2>1, <2>2
<1> QED  BY ONLY <1>1, <1>4, <1>9, <1>10, <1>11, Zenon DEF PackUpTo

(* Rows pushed one after the other. *)
LEMMA PushAllRuns ==
  ASSUME NEW b \in PackState, NEW rows \in Seq(PackedRow),
         \A i \in 1..Len(rows) : Len(rows[i].vals) # 0
  PROVE  \E f \in [0..Len(rows) -> PackState] :
            /\ f[0] = b /\ PushAll(b, rows) = f[Len(rows)]
            /\ \A i \in 1..Len(rows) : f[i] = PushRow(f[i - 1], rows[i])
<1>1. PICK L \in Nat : /\ L = Len(rows)
                       /\ \A i \in 1..L : rows[i] \in PackedRow /\ Len(rows[i].vals) # 0
  <2>1. PICK T : T = PackedRow  OBVIOUS
  <2>2. rows \in Seq(T)  BY <2>1
  <2>3. Len(rows) \in Nat /\ \A i \in 1..Len(rows) : rows[i] \in T  BY ONLY <2>2
  <2> QED  BY <2>1, <2>3
<1> DEFINE G == [k \in 1..L |-> [v \in PackState |-> PushRow(v, rows[k])]]
           Rec(u) == u = [i \in 0..L |-> IF i = 0 THEN b ELSE PushRow(u[i - 1], rows[i])]
           h == CHOOSE u : Rec(u)
<1>2. G \in [1..L -> [PackState -> PackState]]
  <2>1. \A k \in 1..L, v \in PackState : PushRow(v, rows[k]) \in PackState
    BY <1>1, PushTyped
  <2> QED  BY <2>1, Zenon
<1>3. \A k \in 1..L, v \in PackState : G[k][v] = PushRow(v, rows[k])  BY Zenon
<1> HIDE DEF G
<1>4. PICK f \in [0..L -> PackState] : Carried(f, b, G, L)
  BY <1>2, CarriedExists
<1>5. \A i \in 0..L : f[i] = IF i = 0 THEN b ELSE G[i][f[i - 1]]
  BY <1>4, Zenon DEF Carried
<1>6. \A i \in 1..L : i \in 0..L /\ i - 1 \in 0..L /\ i # 0  OBVIOUS
<1>7. 0 \in 0..L /\ L \in 0..L  OBVIOUS
<1>8. f[0] = b /\ \A i \in 1..L : f[i] = PushRow(f[i - 1], rows[i])
  BY ONLY <1>3, <1>5, <1>6, <1>7, f \in [0..L -> PackState], Zenon
<1>9. Rec(f)
  <2>1. \A i \in 0..L : i # 0 => i \in 1..L  OBVIOUS
  <2>2. \A i \in 0..L : f[i] = IF i = 0 THEN b ELSE PushRow(f[i - 1], rows[i])
    BY ONLY <1>8, <2>1, Zenon
  <2>3. f = [i \in 0..L |-> f[i]]  BY ONLY f \in [0..L -> PackState], Zenon
  <2> QED  BY ONLY <2>2, <2>3, Zenon DEF Rec
<1>10. Rec(h)  BY <1>9, Zenon
<1>11. PushAll(b, rows) = h[L]  BY <1>1, Zenon DEF PushAll
<1> HIDE DEF h
<1>12. h[0] = b /\ \A i \in 1..L : h[i] = PushRow(h[i - 1], rows[i])
  <2>1. \A i \in 0..L : h[i] = IF i = 0 THEN b ELSE PushRow(h[i - 1], rows[i])
    BY <1>10, Zenon
  <2> QED  BY ONLY <1>6, <1>7, <2>1, Zenon
<1> DEFINE S == {i \in 0..L : h[i] = f[i]}
<1>13. 0 \in S  BY <1>7, <1>8, <1>12
<1>14. \A i \in 1..L : i - 1 \in S => i \in S
  BY ONLY <1>6, <1>8, <1>12, Zenon
<1> HIDE DEF S
<1>15. L \in S  BY ONLY <1>7, <1>13, <1>14, L \in Nat, Climbs
<1>16. h[L] = f[L]  BY <1>15, Zenon DEF S
<1> QED  BY ONLY <1>1, <1>8, <1>11, <1>16, f \in [0..L -> PackState], Zenon

(* Consecutive rows, none narrower than the one before. *)
PilesUp(g) ==
    /\ g \in Seq(PackedRow)
    /\ \A i \in 1..Len(g) : Len(g[i].vals) # 0
    /\ \A i \in 1..Len(g) : i # 1 => /\ g[i].row = g[i - 1].row + 1
                                     /\ Len(g[i - 1].vals) <= Len(g[i].vals)

LEMMA AllPushed ==
  ASSUME NEW b \in PackState, NEW g \in Seq(PackedRow), NEW rows \in Seq(PackedRow),
         PilesUp(g \o rows), PackUpTo(b, g, Len(g))
  PROVE  PushAll(b, rows) \in PackState /\ PackUpTo(PushAll(b, rows), g \o rows, Len(g \o rows))
<1>0. PICK e : e = g \o rows  OBVIOUS
<1>1. PICK n \in Nat, L \in Nat :
        /\ e = g \o rows /\ n = Len(g) /\ L = Len(rows) /\ Len(e) = n + L
        /\ e \in Seq(PackedRow) /\ FrontOf(g, e)
        /\ \A i \in 1..L : e[n + i] = rows[i]
  <2>1. PICK T : T = PackedRow  OBVIOUS
  <2>2. g \in Seq(T) /\ rows \in Seq(T)  BY <2>1
  <2>3. /\ e \in Seq(T) /\ Len(e) = Len(g) + Len(rows)
        /\ Len(g) \in Nat /\ Len(rows) \in Nat
        /\ Len(g) <= Len(e)
        /\ \A i \in 1..Len(g) : e[i] = g[i]
        /\ \A i \in 1..Len(rows) : e[Len(g) + i] = rows[i]
    BY ONLY <1>0, <2>2
  <2>4. e \in Seq(PackedRow) /\ FrontOf(g, e)
    BY ONLY <2>1, <2>3, Zenon DEF FrontOf
  <2> QED  BY ONLY <1>0, <2>3, <2>4, Zenon
<1>2. /\ \A i \in 1..(n + L) : Len(e[i].vals) # 0
      /\ \A i \in 1..(n + L) : i # 1 => Len(e[i - 1].vals) <= Len(e[i].vals)
  BY <1>1, Zenon DEF PilesUp
<1>3. \A i \in 1..L : n + i \in 1..(n + L)  OBVIOUS
<1>4. \A i \in 1..L : Len(rows[i].vals) # 0  BY ONLY <1>1, <1>2, <1>3, Zenon
<1>5. PICK f \in [0..L -> PackState] :
        /\ f[0] = b /\ PushAll(b, rows) = f[L]
        /\ \A i \in 1..L : f[i] = PushRow(f[i - 1], rows[i])
  BY ONLY <1>1, <1>4, b \in PackState, rows \in Seq(PackedRow), PushAllRuns,
     ZenonT(60)
<1> DEFINE S == {i \in 0..L : PackUpTo(f[i], e, n + i)}
<1>6. 0 \in S
  <2>1. PackUpTo(b, e, n)  BY <1>1, CutFront
  <2>2. 0 \in 0..L /\ n + 0 = n  OBVIOUS
  <2> QED  BY <1>5, <2>1, <2>2, Zenon
<1>7. \A i \in 1..L : i - 1 \in S => i \in S
  <2> SUFFICES ASSUME NEW i \in 1..L, i - 1 \in S  PROVE PackUpTo(f[i], e, n + i)
    OBVIOUS
  <2>1. PICK m \in Nat : /\ m = n + (i - 1) /\ m + 1 = n + i /\ m + 1 <= Len(e)
                         /\ i - 1 \in 0..L
    <3>1. n + (i - 1) \in Nat /\ (n + (i - 1)) + 1 = n + i /\ n + i <= n + L
          /\ i - 1 \in 0..L
      BY ONLY n \in Nat, L \in Nat, i \in 1..L
    <3>2. Len(e) = n + L  BY <1>1
    <3> QED  BY ONLY <3>1, <3>2, Zenon
  <2>2. PackUpTo(f[i - 1], e, m)  BY <2>1, Zenon
  <2>3. f[i - 1] \in PackState  BY <1>5, <2>1
  <2>4. m # 0 => Len(e[m].vals) <= Len(e[m + 1].vals)
    <3>1. m # 0 => m + 1 \in 1..(n + L) /\ m + 1 # 1 /\ (m + 1) - 1 = m
      BY ONLY <1>1, <2>1, m \in Nat
    <3> QED  BY ONLY <1>2, <3>1, Zenon
  <2>5. e[m + 1] = rows[i]  BY ONLY <1>1, <2>1, i \in 1..L, Zenon
  <2>6. PackUpTo(PushRow(f[i - 1], e[m + 1]), e, m + 1)
    BY ONLY <1>1, <1>2, <2>1, <2>2, <2>3, <2>4, m \in Nat, RowPushed
  <2> QED  BY ONLY <1>5, <2>1, <2>5, <2>6, i \in 1..L, Zenon
<1> HIDE DEF S
<1>8. L \in S
  <2>1. L \in 0..L  OBVIOUS
  <2> QED  BY ONLY <1>6, <1>7, <2>1, L \in Nat, Climbs
<1>9. PackUpTo(f[L], e, n + L)  BY <1>8, Zenon DEF S
<1>10. f[L] \in PackState
  <2>1. L \in 0..L  OBVIOUS
  <2> QED  BY <2>1
<1> QED  BY ONLY <1>1, <1>5, <1>9, <1>10, Zenon

-----------------------------------------------------------------------------
(* The walk of any sheet, in order or not, releases rows that pile up. *)
LEMMA BlankCells ==
  ASSUME NEW n \in Int
  PROVE  Blank(n) \in Seq(CellSet)
<1>1. PICK T : T = CellSet  OBVIOUS
<1>2. 0 \in T  BY <1>1, SizeAssumption DEF CellSet
<1>3. PICK z : z = Blank(n)  OBVIOUS
<1>4. z \in Seq(Nat) /\ \A i \in 1..Len(z) : z[i] = 0  BY <1>3, BlankIs
<1>5. z \in Seq(T)  BY ONLY <1>2, <1>4
<1> QED  BY ONLY <1>1, <1>3, <1>5, Zenon

LEMMA LineShape ==
  ASSUME line \in Seq(CellSet), NEW row \in Rows, NEW col \in Cols, NEW v \in CellSet,
         Walk(row, col, v)
  PROVE  line' \in Seq(CellSet) /\ Len(line) <= Len(line')
<1>1. PICK T, l, n : T = CellSet /\ l = line' /\ n = Len(line)  OBVIOUS
<1>2. n \in Nat /\ line \in Seq(T) /\ v \in T
  <2>1. line \in Seq(T) /\ v \in T  BY <1>1
  <2> QED  BY ONLY <1>1, <2>1
<1>3. col \in Nat /\ col + 1 \in Nat /\ col + 1 >= 1  BY SizeAssumption DEF Cols
<1>4. \E f : /\ f \in Seq(T) /\ Len(f) = n
             /\ l = [(f \o Blank(col + 1 - n)) EXCEPT ![col + 1] = v]
  <2>1. CASE began /\ at < row
    <3>1. PICK f : f = Blank(n)  OBVIOUS
    <3>2. f \in Seq(T)  BY ONLY <1>1, <1>2, <3>1, BlankCells
    <3>3. Len(f) = n  BY ONLY <1>2, <3>1, BlankIs
    <3>4. f = Blank(Len(line))  BY <1>1, <3>1, Zenon
    <3>5. line' = [(f \o Blank(col + 1 - Len(f))) EXCEPT ![col + 1] = v]
      BY <2>1, <3>4, Zenon DEF Walk
    <3> QED  BY ONLY <1>1, <3>2, <3>3, <3>5, Zenon
  <2>2. CASE ~(began /\ at < row)
    <3>1. line' = [(line \o Blank(col + 1 - Len(line))) EXCEPT ![col + 1] = v]
      BY <2>2, Zenon DEF Walk
    <3> QED  BY ONLY <1>1, <1>2, <3>1, Zenon
  <2> QED  BY ONLY <2>1, <2>2, Zenon
<1>5. PICK f : /\ f \in Seq(T) /\ Len(f) = n
               /\ l = [(f \o Blank(col + 1 - n)) EXCEPT ![col + 1] = v]
  BY ONLY <1>4, Zenon
<1>6. PICK z : z = Blank(col + 1 - n)  OBVIOUS
<1>7. z \in Seq(T)
  <2>1. col + 1 - n \in Int  BY ONLY <1>2, <1>3
  <2> QED  BY ONLY <1>1, <1>6, <2>1, BlankCells
<1>8. l = [(f \o z) EXCEPT ![col + 1] = v]  BY ONLY <1>5, <1>6, Zenon
<1>9. PICK h : h = f \o z  OBVIOUS
<1>10. h \in Seq(T) /\ Len(h) = n + Len(z) /\ Len(z) \in Nat
  <2>1. f \in Seq(T)  BY ONLY <1>5, Zenon
  <2>2. h \in Seq(T) /\ Len(h) = Len(f) + Len(z) /\ Len(z) \in Nat
    BY ONLY <1>7, <1>9, <2>1
  <2> QED  BY ONLY <1>5, <2>2, Zenon
<1>11. l = [h EXCEPT ![col + 1] = v]  BY ONLY <1>8, <1>9, Zenon
<1>12. l \in Seq(T) /\ Len(l) = Len(h)
  <2>1. col + 1 \in 1..Len(h)
    <3>1. Len(z) = IF col + 1 - n < 0 THEN 0 ELSE col + 1 - n
      <4>1. col + 1 - n \in Int  BY ONLY <1>2, <1>3
      <4> QED  BY ONLY <1>6, <4>1, BlankIs
    <3>2. Len(h) = n + Len(z) /\ n \in Nat  BY ONLY <1>2, <1>10, Zenon
    <3> QED  BY ONLY <1>3, <3>1, <3>2
  <2>2. PICK p : p = col + 1  OBVIOUS
  <2>3. h \in Seq(T) /\ v \in T /\ p \in 1..Len(h) /\ l = [h EXCEPT ![p] = v]
    BY ONLY <1>2, <1>10, <1>11, <2>1, <2>2, Zenon
  <2> QED  BY ONLY <2>3, ExceptSeq
<1>13. n <= Len(l)  BY ONLY <1>2, <1>10, <1>12
<1> QED  BY ONLY <1>1, <1>12, <1>13, Zenon

(* k blank rows and the one being built, behind a pile that ends before. *)
GapRows(k, a, l) ==
    Append([i \in 1..k |-> [row |-> a - k + i - 1, vals |-> Blank(Len(l))]],
           [row |-> a, vals |-> l])
Behind(g, l) == g # <<>> => Len(g[Len(g)].vals) <= Len(l)

LEMMA GapRowsAre ==
  ASSUME NEW k \in Nat, NEW a \in Nat, k <= a, NEW l \in Seq(CellSet)
  PROVE  /\ GapRows(k, a, l) \in Seq(PackedRow) /\ Len(GapRows(k, a, l)) = k + 1
         /\ \A i \in 1..(k + 1) :
              /\ GapRows(k, a, l)[i].row = a - k + i - 1
              /\ Len(GapRows(k, a, l)[i].vals) = Len(l)
         /\ GapRows(k, a, l)[k + 1] = [row |-> a, vals |-> l]
<1>1. PICK w, z, x : w = Len(l) /\ z = Blank(w) /\ x = [row |-> a, vals |-> l]
  OBVIOUS
<1>2. w \in Nat
  <2>1. PICK T : T = CellSet  OBVIOUS
  <2>2. l \in Seq(T)  BY <2>1
  <2> QED  BY ONLY <1>1, <2>2
<1>3. z \in Seq(CellSet)  BY ONLY <1>1, <1>2, BlankCells
<1>4. Len(z) = w  BY ONLY <1>1, <1>2, BlankIs
<1>5. x \in PackedRow /\ x.row = a /\ x.vals = l
  BY ONLY <1>1, a \in Nat, l \in Seq(CellSet) DEF PackedRow
<1> DEFINE G == [i \in 1..k |-> [row |-> a - k + i - 1, vals |-> z]]
<1>6. \A i \in 1..k : a - k + i - 1 \in Nat
  BY ONLY k \in Nat, a \in Nat, k <= a
<1>7. ASSUME NEW i \in 1..k
      PROVE  /\ G[i] \in PackedRow
             /\ G[i].row = a - k + i - 1 /\ G[i].vals = z
  <2>1. PICK r \in Nat : r = a - k + i - 1  BY <1>6
  <2>2. G[i] = [row |-> r, vals |-> z]  BY <2>1
  <2> HIDE DEF G
  <2>3. PICK y : y = G[i]  OBVIOUS
  <2>4. y = [row |-> r, vals |-> z]  BY ONLY <2>2, <2>3, Zenon
  <2>5. y \in PackedRow /\ y.row = r /\ y.vals = z
    BY ONLY <1>3, <2>4, r \in Nat DEF PackedRow
  <2> QED  BY ONLY <2>1, <2>3, <2>5, Zenon
<1>8. GapRows(k, a, l) = Append(G, x)  BY ONLY <1>1, Zenon DEF GapRows
<1>9. G \in [1..k -> PackedRow]
  <2>1. G = [i \in 1..k |-> G[i]]  OBVIOUS
  <2> HIDE DEF G
  <2> QED  BY ONLY <1>7, <2>1, Zenon
<1> HIDE DEF G
<1>10. PICK T, rel : T = PackedRow /\ rel = GapRows(k, a, l)  OBVIOUS
<1>11. G \in Seq(T) /\ Len(G) = k
  <2>1. G \in [1..k -> T]  BY <1>9, <1>10
  <2>2. G \in Seq(T)  BY ONLY <2>1, k \in Nat
  <2>3. DOMAIN G = 1..k  BY ONLY <2>1
  <2> QED  BY ONLY <2>2, <2>3, k \in Nat
<1>12. /\ rel \in Seq(T) /\ Len(rel) = k + 1
       /\ \A i \in 1..k : rel[i] = G[i]
       /\ rel[k + 1] = x
  <2>1. rel = Append(G, x) /\ x \in T  BY <1>5, <1>8, <1>10
  <2> QED  BY ONLY <1>11, <2>1, k \in Nat
<1>13. ASSUME NEW i \in 1..(k + 1)
       PROVE  rel[i].row = a - k + i - 1 /\ Len(rel[i].vals) = w
  <2>1. CASE i \in 1..k  BY ONLY <1>4, <1>7, <1>12, <2>1, Zenon
  <2>2. CASE i = k + 1
    <3>1. a = a - k + i - 1  BY ONLY <2>2, k \in Nat, a \in Nat
    <3> QED  BY ONLY <1>1, <1>5, <1>12, <2>2, <3>1, Zenon
  <2> QED  BY <2>1, <2>2
<1> QED  BY ONLY <1>1, <1>10, <1>12, <1>13, Zenon

LEMMA GapsPile ==
  ASSUME NEW g, PilesUp(g), NEW k \in Nat, NEW a \in Nat, Waits(g, k, a),
         NEW l \in Seq(CellSet), Len(l) # 0, Behind(g, l)
  PROVE  /\ GapRows(k, a, l) \in Seq(PackedRow)
         /\ PilesUp(g \o GapRows(k, a, l))
         /\ g \o GapRows(k, a, l) # <<>>
         /\ Len(g \o GapRows(k, a, l)) = Len(g) + k + 1
         /\ (g \o GapRows(k, a, l))[Len(g) + k + 1] = [row |-> a, vals |-> l]
<1>0. PICK w : w = Len(l)  OBVIOUS
<1>1. PICK n \in Nat : n = Len(g) /\ w = Len(l) /\ g \in Seq(PackedRow)
  <2>1. PICK T : T = PackedRow  OBVIOUS
  <2>2. g \in Seq(T)  BY <2>1 DEF PilesUp
  <2>3. Len(g) \in Nat  BY ONLY <2>2
  <2> QED  BY ONLY <1>0, <2>1, <2>2, <2>3, Zenon
<1>2. w \in Nat \ {0}
  <2>1. PICK T : T = CellSet  OBVIOUS
  <2>2. l \in Seq(T)  BY <2>1
  <2>3. Len(l) \in Nat  BY ONLY <2>2
  <2> QED  BY <1>1, <2>3
<1>3. \A i \in 1..n : /\ g[i].row \in Nat /\ Len(g[i].vals) \in Nat
                      /\ Len(g[i].vals) # 0
  <2>1. PICK T : T = PackedRow  OBVIOUS
  <2>2. g \in Seq(T)  BY <1>1, <2>1
  <2>3. \A i \in 1..n : g[i] \in T  BY ONLY <1>1, <2>2
  <2>4. ASSUME NEW i \in 1..n
        PROVE  g[i].row \in Nat /\ Len(g[i].vals) \in Nat
    <3>1. PICK x : x = g[i]  OBVIOUS
    <3>2. x \in PackedRow  BY ONLY <2>1, <2>3, <3>1, i \in 1..n, Zenon
    <3>3. x.row \in Nat /\ x.vals \in Seq(CellSet)  BY ONLY <3>2 DEF PackedRow
    <3>4. PICK C, s : C = CellSet /\ s = x.vals  OBVIOUS
    <3>5. s \in Seq(C)  BY ONLY <3>3, <3>4, Zenon
    <3>6. Len(s) \in Nat  BY ONLY <3>5
    <3> QED  BY ONLY <3>1, <3>3, <3>4, <3>6, Zenon
  <2>5. \A i \in 1..n : Len(g[i].vals) # 0  BY <1>1, Zenon DEF PilesUp
  <2> QED  BY ONLY <2>4, <2>5, Zenon
<1>4. g = <<>> <=> n = 0
  <2>1. PICK T : T = PackedRow  OBVIOUS
  <2>2. g \in Seq(T)  BY <1>1, <2>1
  <2> QED  BY ONLY <1>1, <2>2
<1>5. n # 0 => n \in 1..n  BY ONLY n \in Nat
<1>6. /\ n = 0 => k = 0
      /\ n # 0 => g[n].row + k + 1 = a /\ Len(g[n].vals) <= w
  BY <1>1, <1>4, Zenon DEF Waits, Behind
<1>7. k <= a
  <2>1. n # 0 => g[n].row \in Nat  BY ONLY <1>3, <1>5, Zenon
  <2> QED  BY ONLY <1>6, <2>1, k \in Nat, a \in Nat
<1>8. PICK rel : rel = GapRows(k, a, l)  OBVIOUS
<1>9. /\ rel \in Seq(PackedRow) /\ Len(rel) = k + 1
      /\ \A i \in 1..(k + 1) : rel[i].row = a - k + i - 1 /\ Len(rel[i].vals) = w
      /\ rel[k + 1] = [row |-> a, vals |-> l]
  <2>1. k \in Nat /\ a \in Nat /\ l \in Seq(CellSet)  OBVIOUS
  <2>2. /\ GapRows(k, a, l) \in Seq(PackedRow) /\ Len(GapRows(k, a, l)) = k + 1
        /\ \A i \in 1..(k + 1) :
              /\ GapRows(k, a, l)[i].row = a - k + i - 1
              /\ Len(GapRows(k, a, l)[i].vals) = Len(l)
        /\ GapRows(k, a, l)[k + 1] = [row |-> a, vals |-> l]
    BY ONLY <1>7, <2>1, GapRowsAre, ZenonT(60)
  <2> QED  BY ONLY <1>0, <1>8, <2>2, Zenon
<1>10. PICK e : e = g \o rel  OBVIOUS
<1>11. /\ e \in Seq(PackedRow) /\ Len(e) = n + (k + 1)
       /\ \A i \in 1..n : e[i] = g[i]
       /\ \A i \in 1..(k + 1) : e[n + i] = rel[i]
       /\ e # <<>>
  <2>1. PICK T : T = PackedRow  OBVIOUS
  <2>2. g \in Seq(T) /\ rel \in Seq(T)  BY <1>1, <1>9, <2>1
  <2>5. /\ e \in Seq(T) /\ Len(e) = Len(g) + Len(rel)
        /\ \A i \in 1..Len(g) : e[i] = g[i]
        /\ \A i \in 1..Len(rel) : e[Len(g) + i] = rel[i]
    BY ONLY <1>10, <2>2
  <2>3. /\ e \in Seq(T) /\ Len(e) = n + (k + 1)
        /\ \A i \in 1..n : e[i] = g[i]
        /\ \A i \in 1..(k + 1) : e[n + i] = rel[i]
    BY ONLY <1>1, <1>9, <2>5, Zenon
  <2>4. e # <<>>  BY ONLY <2>3, n \in Nat, k \in Nat
  <2> QED  BY ONLY <2>1, <2>3, <2>4, Zenon
<1>12. ASSUME NEW i \in 1..(n + (k + 1))
       PROVE  i \in 1..n \/ \E j \in 1..(k + 1) : i = n + j
  <2>1. i \in 1..n \/ (i - n \in 1..(k + 1) /\ i = n + (i - n))
    BY ONLY n \in Nat, k \in Nat, i \in 1..(n + (k + 1))
  <2> QED  BY ONLY <2>1, Zenon
<1>13. ASSUME NEW i \in 1..(n + (k + 1))  PROVE Len(e[i].vals) # 0
  <2>1. CASE i \in 1..n  BY ONLY <1>3, <1>11, <2>1, Zenon
  <2>2. CASE \E j \in 1..(k + 1) : i = n + j
    <3>1. Len(e[i].vals) = w  BY ONLY <1>9, <1>11, <2>2, Zenon
    <3> QED  BY <1>2, <3>1
  <2> QED  BY ONLY <1>12, <2>1, <2>2, i \in 1..(n + (k + 1)), Zenon
<1>14. ASSUME NEW i \in 1..(n + (k + 1)), i # 1
       PROVE  /\ e[i].row = e[i - 1].row + 1
              /\ Len(e[i - 1].vals) <= Len(e[i].vals)
  <2>1. CASE i \in 1..n
    <3>1. i - 1 \in 1..n  BY ONLY <2>1, i # 1, n \in Nat
    <3>2. /\ g[i].row = g[i - 1].row + 1
          /\ Len(g[i - 1].vals) <= Len(g[i].vals)
      BY ONLY <1>1, <2>1, i # 1, PilesUp(g), Zenon DEF PilesUp
    <3> QED  BY ONLY <1>11, <2>1, <3>1, <3>2, Zenon
  <2>2. ASSUME NEW j \in 1..(k + 1), i = n + j
        PROVE  /\ e[i].row = e[i - 1].row + 1
               /\ Len(e[i - 1].vals) <= Len(e[i].vals)
    <3>1. e[i].row = a - k + j - 1 /\ Len(e[i].vals) = w
      BY ONLY <1>9, <1>11, <2>2, j \in 1..(k + 1), Zenon
    <3>2. CASE j = 1
      <4>1. i - 1 = n /\ n # 0 /\ n \in 1..n
        BY ONLY <2>2, <3>2, i # 1, n \in Nat
      <4>2. e[i - 1].row = g[n].row /\ Len(e[i - 1].vals) = Len(g[n].vals)
        BY ONLY <1>11, <4>1, Zenon
      <4>3. g[n].row + k + 1 = a /\ Len(g[n].vals) <= w /\ g[n].row \in Nat
        BY ONLY <1>3, <1>6, <4>1, Zenon
      <4>4. a - k + j - 1 = g[n].row + 1
        BY ONLY <3>2, <4>3, k \in Nat, a \in Nat
      <4> QED  BY ONLY <3>1, <4>2, <4>3, <4>4, Zenon
    <3>3. CASE j # 1
      <4>1. j - 1 \in 1..(k + 1) /\ i - 1 = n + (j - 1)
        BY ONLY <2>2, <3>3, j \in 1..(k + 1), n \in Nat, k \in Nat
      <4>2. e[i - 1].row = a - k + (j - 1) - 1 /\ Len(e[i - 1].vals) = w
        BY ONLY <1>9, <1>11, <4>1, Zenon
      <4>3. a - k + j - 1 = (a - k + (j - 1) - 1) + 1
        BY ONLY k \in Nat, a \in Nat, j \in 1..(k + 1)
      <4>4. w <= w  BY <1>2
      <4> QED  BY ONLY <3>1, <4>2, <4>3, <4>4, Zenon
    <3> QED  BY <3>2, <3>3
  <2> QED  BY ONLY <1>12, <2>1, <2>2, i \in 1..(n + (k + 1)), Zenon
<1>15. PilesUp(e)  BY ONLY <1>11, <1>13, <1>14, Zenon DEF PilesUp
<1>16. e[n + (k + 1)] = [row |-> a, vals |-> l]
  <2>1. k + 1 \in 1..(k + 1)  BY ONLY k \in Nat
  <2> QED  BY ONLY <1>9, <1>11, <2>1, Zenon
<1>17. n + (k + 1) = n + k + 1  BY ONLY n \in Nat, k \in Nat
<1> QED  BY ONLY <1>1, <1>8, <1>9, <1>10, <1>11, <1>15, <1>16, <1>17, Zenon

(* The grid and its batches, while the walk reads and when it has ended. *)
PackOfGrid(b, g) == PilesUp(g) /\ b \in PackState /\ PackUpTo(b, g, Len(g))
PackStanding ==
    /\ at \in Rows
    /\ line \in Seq(CellSet) /\ Len(line) # 0
    /\ PackOfGrid(batch, grid) /\ Behind(grid, line)
    /\ pendingEmpty \in Nat /\ Waits(grid, pendingEmpty, at)
    /\ started <=> grid # <<>>
    /\ ~began => grid = <<>>
PackEnded(done, g) == PilesUp(g) /\ done \in Seq(PackBatch) /\ PackWhole(done, g)
PackInv ==
    /\ phase = "reading" => PackStanding
    /\ phase = "ended" => PackEnded(batch.done, grid)

LEMMA PilesTyped ==
  ASSUME NEW g, PilesUp(g)
  PROVE  g \in Seq(PackedRow) /\ Len(g) \in Nat
<1>1. PICK T : T = PackedRow  OBVIOUS
<1>2. g \in Seq(T)  BY <1>1 DEF PilesUp
<1>3. Len(g) \in Nat  BY ONLY <1>2
<1> QED  BY ONLY <1>1, <1>2, <1>3, Zenon

LEMMA ReleasedPiles ==
  ASSUME PackStanding
  PROVE  \E e, q :
            /\ e = grid \o Released /\ q = PushAll(batch, Released)
            /\ PackOfGrid(q, e) /\ Behind(e, line)
            /\ hasValue => e # <<>> /\ e[Len(e)].row = at
            /\ ~hasValue => e = grid
<1>1. /\ line \in Seq(CellSet) /\ Len(line) # 0 /\ Behind(grid, line)
      /\ PilesUp(grid) /\ batch \in PackState /\ PackUpTo(batch, grid, Len(grid))
      /\ pendingEmpty \in Nat /\ Waits(grid, pendingEmpty, at)
      /\ at \in Rows
  BY Zenon DEF PackStanding, PackOfGrid
<1>2. at \in Nat  BY <1>1, SizeAssumption DEF Rows
<1>3. grid \in Seq(PackedRow) /\ Len(grid) \in Nat  BY <1>1, PilesTyped
<1>4. PICK e, q, rel :
        e = grid \o rel /\ q = PushAll(batch, rel) /\ rel = Released
  OBVIOUS
<1>5. /\ rel \in Seq(PackedRow) /\ PilesUp(grid \o rel) /\ Behind(e, line)
      /\ hasValue => e # <<>> /\ e[Len(e)].row = at
      /\ ~hasValue => e = grid
  <2>1. CASE hasValue
    <3>1. rel = GapRows(pendingEmpty, at, line)
      BY ONLY <1>4, <2>1, Zenon DEF Released, GapRows
    <3>2. PICK gap : gap = GapRows(pendingEmpty, at, line)  OBVIOUS
    <3>3. PICK g : g = grid  OBVIOUS
    <3>4. PICK k \in Nat, a \in Nat, l \in Seq(CellSet) :
             g = grid /\ k = pendingEmpty /\ a = at /\ l = line
      BY ONLY <1>1, <1>2, <3>3, Zenon
    <3>5. PilesUp(g) /\ Waits(g, k, a) /\ Len(l) # 0 /\ Behind(g, l)
      BY ONLY <1>1, <3>4, Zenon
    <3>6. /\ GapRows(k, a, l) \in Seq(PackedRow)
          /\ PilesUp(g \o GapRows(k, a, l))
          /\ g \o GapRows(k, a, l) # <<>>
          /\ Len(g \o GapRows(k, a, l)) = Len(g) + k + 1
          /\ (g \o GapRows(k, a, l))[Len(g) + k + 1] = [row |-> a, vals |-> l]
      BY ONLY <3>5, k \in Nat, a \in Nat, l \in Seq(CellSet), GapsPile
    <3>7. /\ gap \in Seq(PackedRow) /\ PilesUp(grid \o gap) /\ grid \o gap # <<>>
          /\ Len(grid \o gap) = Len(grid) + pendingEmpty + 1
          /\ (grid \o gap)[Len(grid) + pendingEmpty + 1] = [row |-> at, vals |-> line]
      BY ONLY <3>2, <3>4, <3>6, Zenon
    <3>8. PICK x : x = [row |-> at, vals |-> line]  OBVIOUS
    <3>9. x.row = at /\ x.vals = line  BY ONLY <3>8
    <3>10. e # <<>> /\ e[Len(e)] = x
      BY ONLY <1>4, <3>1, <3>2, <3>7, <3>8, Zenon
    <3>11. Len(line) <= Len(line)
      <4>1. PICK T : T = CellSet  OBVIOUS
      <4>2. line \in Seq(T)  BY <1>1, <4>1
      <4> QED  BY ONLY <4>2
    <3>12. Behind(e, line)  BY ONLY <3>9, <3>10, <3>11, Zenon DEF Behind
    <3> QED  BY ONLY <1>4, <2>1, <3>1, <3>2, <3>7, <3>9, <3>10, <3>12, Zenon
  <2>2. CASE ~hasValue
    <3>1. rel = <<>>  BY <1>4, <2>2, Zenon DEF Released
    <3>2. PICK T, o : T = PackedRow /\ o = <<>>  OBVIOUS
    <3>3. grid \in Seq(T)  BY <1>3, <3>2
    <3>4. grid \o o = grid /\ o \in Seq(T)  BY ONLY <3>2, <3>3
    <3>5. e = grid  BY ONLY <1>4, <3>1, <3>2, <3>4, Zenon
    <3> QED  BY ONLY <1>1, <1>4, <2>2, <3>1, <3>2, <3>4, <3>5, Zenon
  <2> QED  BY <2>1, <2>2
<1>6. PushAll(batch, rel) \in PackState
      /\ PackUpTo(PushAll(batch, rel), grid \o rel, Len(grid \o rel))
  BY ONLY <1>1, <1>3, <1>5, AllPushed
<1>7. PackOfGrid(q, e)  BY ONLY <1>4, <1>5, <1>6, Zenon DEF PackOfGrid
<1> QED  BY ONLY <1>4, <1>5, <1>7, Zenon

LEMMA WalkPacks ==
  ASSUME PackStanding, NEW row \in Rows, NEW col \in Cols, NEW v \in CellSet,
         Walk(row, col, v)
  PROVE  PackStanding'
<1>1. /\ line \in Seq(CellSet) /\ Len(line) # 0 /\ at \in Rows
      /\ PackOfGrid(batch, grid) /\ Behind(grid, line)
      /\ pendingEmpty \in Nat /\ Waits(grid, pendingEmpty, at)
      /\ started <=> grid # <<>>
      /\ ~began => grid = <<>>
  BY Zenon DEF PackStanding
<1>2. line' \in Seq(CellSet) /\ Len(line) <= Len(line')  BY <1>1, LineShape
<1>3. PICK m \in Nat, n \in Nat : m = Len(line) /\ n = Len(line')
  <2>1. PICK T, l : T = CellSet /\ l = line'  OBVIOUS
  <2>2. line \in Seq(T)  BY <1>1, <2>1
  <2>3. l \in Seq(T)  BY <1>2, <2>1
  <2>4. Len(line) \in Nat  BY ONLY <2>2
  <2>5. Len(l) \in Nat  BY ONLY <2>3
  <2> QED  BY ONLY <2>1, <2>4, <2>5, Zenon
<1>4. m # 0 /\ m <= n  BY ONLY <1>1, <1>2, <1>3, Zenon
<1>5. Len(line') # 0
  <2>1. n # 0  BY ONLY <1>4, m \in Nat, n \in Nat
  <2> QED  BY ONLY <1>3, <2>1, Zenon
<1>6. ASSUME NEW g, PilesUp(g), Behind(g, line)
      PROVE  Behind(g, line')
  <2> SUFFICES ASSUME g # <<>>  PROVE Len(g[Len(g)].vals) <= Len(line')
    BY DEF Behind
  <2>1. PICK s : s = g[Len(g)].vals  OBVIOUS
  <2>2. Len(s) <= m  BY ONLY <1>3, <1>6, <2>1, g # <<>>, Zenon DEF Behind
  <2>3. Len(s) \in Nat
    <3>1. PICK T : T = PackedRow  OBVIOUS
    <3>2. g \in Seq(T)  BY <1>6, <3>1, PilesTyped
    <3>3. g[Len(g)] \in T  BY ONLY <3>2, g # <<>>
    <3>4. PICK x : x = g[Len(g)]  OBVIOUS
    <3>5. x \in PackedRow  BY ONLY <3>1, <3>3, <3>4, Zenon
    <3>6. x.vals \in Seq(CellSet)  BY ONLY <3>5 DEF PackedRow
    <3>7. PICK C : C = CellSet  OBVIOUS
    <3>8. s \in Seq(C)  BY ONLY <2>1, <3>4, <3>6, <3>7, Zenon
    <3> QED  BY ONLY <3>8
  <2>4. Len(s) <= n  BY ONLY <1>4, <2>2, <2>3, m \in Nat, n \in Nat
  <2> QED  BY ONLY <1>3, <2>1, <2>4, Zenon
<1>7. began' = TRUE /\ at' = (IF began /\ row < at THEN at ELSE row)
  BY DEF Walk
<1>8. at' \in Rows /\ row \in Nat /\ at \in Nat
  BY <1>1, <1>7, SizeAssumption DEF Rows
<1>9. CASE began /\ at < row
  <2>1. /\ started' = (started \/ hasValue) /\ pendingEmpty' = EmptyUntil(row)
        /\ grid' = grid \o Released /\ batch' = PushAll(batch, Released)
    BY <1>9, Zenon DEF Walk
  <2>2. PICK e, q : /\ e = grid' /\ q = batch'
                    /\ PackOfGrid(q, e) /\ Behind(e, line)
                    /\ hasValue => e # <<>> /\ e[Len(e)].row = at
                    /\ ~hasValue => e = grid
    BY <2>1, ReleasedPiles, Zenon
  <2>3. PilesUp(e)  BY <2>2, Zenon DEF PackOfGrid
  <2>4. Behind(e, line')  BY ONLY <1>6, <2>2, <2>3, Zenon
  <2>5. at' = row
    <3>1. ~(row < at)  BY <1>8, <1>9
    <3> QED  BY <1>7, <3>1
  <2>6. started' <=> e # <<>>
    BY ONLY <1>1, <2>1, <2>2, Zenon
  <2>7. pendingEmpty' \in Nat /\ Waits(e, pendingEmpty', row)
    <3>1. CASE hasValue
      <4>1. pendingEmpty' = row - at - 1  BY ONLY <2>1, <3>1, Zenon DEF EmptyUntil
      <4>2. row - at - 1 \in Nat /\ at + (row - at - 1) + 1 = row  BY <1>8, <1>9
      <4>3. e # <<>> /\ e[Len(e)].row = at  BY ONLY <2>2, <3>1, Zenon
      <4> QED  BY ONLY <4>1, <4>2, <4>3, Zenon DEF Waits
    <3>2. CASE ~hasValue /\ started
      <4>1. pendingEmpty' = pendingEmpty + row - at  BY ONLY <2>1, <3>2, Zenon DEF EmptyUntil
      <4>2. e = grid /\ grid # <<>>  BY ONLY <1>1, <2>2, <3>2, Zenon
      <4>3. grid[Len(grid)].row + pendingEmpty + 1 = at
        BY ONLY <1>1, <4>2, Zenon DEF Waits
      <4>4. PICK a \in Nat : a = grid[Len(grid)].row
        <5>1. PICK T : T = PackedRow  OBVIOUS
        <5>2. grid \in Seq(T)  BY <2>2, <2>3, <4>2, <5>1, PilesTyped
        <5>3. grid[Len(grid)] \in T  BY ONLY <4>2, <5>2
        <5>4. PICK x : x = grid[Len(grid)]  OBVIOUS
        <5>5. x \in PackedRow  BY ONLY <5>1, <5>3, <5>4, Zenon
        <5>6. x.row \in Nat  BY ONLY <5>5 DEF PackedRow
        <5> QED  BY ONLY <5>4, <5>6, Zenon
      <4>5. PICK k \in Nat : k = pendingEmpty  BY <1>1
      <4>6. a + k + 1 = at  BY ONLY <4>3, <4>4, <4>5, Zenon
      <4>7. k + row - at \in Nat /\ a + (k + row - at) + 1 = row
        BY ONLY <1>8, <1>9, <4>6, a \in Nat, k \in Nat
      <4>8. e[Len(e)].row = a /\ pendingEmpty' = k + row - at
        BY ONLY <4>1, <4>2, <4>4, <4>5, Zenon
      <4> QED  BY ONLY <4>2, <4>7, <4>8, Zenon DEF Waits
    <3>3. CASE ~hasValue /\ ~started
      <4>1. pendingEmpty' = 0  BY ONLY <2>1, <3>3, Zenon DEF EmptyUntil
      <4>2. e = <<>>  BY ONLY <1>1, <2>2, <3>3, Zenon
      <4> QED  BY <4>1, <4>2 DEF Waits
    <3> QED  BY <3>1, <3>2, <3>3
  <2>8. PackOfGrid(batch', grid') /\ Behind(grid', line')
    BY ONLY <2>2, <2>4, Zenon
  <2>9. Waits(grid', pendingEmpty', at') /\ (started' <=> grid' # <<>>)
    BY ONLY <2>2, <2>5, <2>6, <2>7, Zenon
  <2> QED  BY ONLY <1>2, <1>5, <1>7, <1>8, <2>7, <2>8, <2>9, Zenon DEF PackStanding
<1>10. CASE ~(began /\ at < row)
  <2>1. /\ started' = started /\ pendingEmpty' = pendingEmpty /\ grid' = grid
        /\ batch' = batch
    BY <1>10 DEF Walk
  <2>2. Behind(grid, line')  BY <1>1, <1>6, Zenon DEF PackOfGrid
  <2>3. Waits(grid, pendingEmpty, at')
    <3>1. CASE began
      <4>1. at' = at
        <5>1. ~(at < row)  BY <1>10, <3>1
        <5>2. row < at \/ row = at  BY <1>8, <5>1
        <5> QED  BY <1>7, <3>1, <5>2
      <4> QED  BY <1>1, <4>1
    <3>2. CASE ~began
      <4>1. grid = <<>> /\ Waits(grid, pendingEmpty, at)  BY <1>1, <3>2
      <4> QED  BY ONLY <4>1, Zenon DEF Waits
    <3> QED  BY <3>1, <3>2
  <2>4. PackOfGrid(batch', grid') /\ Behind(grid', line')
        /\ Waits(grid', pendingEmpty', at') /\ (started' <=> grid' # <<>>)
        /\ pendingEmpty' \in Nat
    BY ONLY <1>1, <2>1, <2>2, <2>3, Zenon
  <2> QED  BY ONLY <1>2, <1>5, <1>7, <1>8, <2>4, Zenon DEF PackStanding
<1> QED  BY <1>9, <1>10

(* The batch that is left when the walk ends is closed like the others. *)
LEMMA LastClosed ==
  ASSUME NEW q, NEW e, PackOfGrid(q, e)
  PROVE  PackEnded(IF q.cells = <<>> THEN q.done ELSE Closed(q), e)
<1>1. PilesUp(e) /\ q \in PackState /\ PackUpTo(q, e, Len(e))
  BY Zenon DEF PackOfGrid
<1>2. PICK n \in Nat : n = Len(e)  BY <1>1, PilesTyped
<1>3. /\ q.done \in Seq(PackBatch) /\ q.first \in Nat /\ q.width \in Nat \ {0}
      /\ q.cells \in Seq(CellSet)
  BY ONLY <1>1 DEF PackState
<1>4. PICK done \in Seq(PackBatch), first \in Nat, width \in Nat \ {0},
           cells \in Seq(CellSet) :
        done = q.done /\ first = q.first /\ width = q.width /\ cells = q.cells
  BY ONLY <1>3, Zenon
<1>5. PICK marks : CutAt(done, e, marks, n) /\ Holds(q, e, marks[Len(done)], n)
  BY ONLY <1>1, <1>2, <1>4, Zenon DEF PackUpTo
<1>6. PICK m \in 0..n : m = marks[Len(done)]
  <2>1. n <= n  BY ONLY n \in Nat
  <2>2. marks[Len(done)] \in 0..n
    BY ONLY <1>5, <2>1, n \in Nat, done \in Seq(PackBatch), CutLater
  <2> QED  BY <2>2
<1>7. m \in Nat /\ m <= n /\ (m = n \/ m < n)  BY ONLY n \in Nat, m \in 0..n
<1>8. Piled(first, width, cells, e, m, n)
  BY ONLY <1>4, <1>5, <1>6, Zenon DEF Holds
<1>9. cells = <<>> <=> m = n
  BY ONLY <1>7, <1>8, n \in Nat, width \in Nat \ {0}, cells \in Seq(CellSet),
          PiledEmpty
<1>10. CASE cells = <<>>
  <2>1. marks[Len(done)] = n  BY ONLY <1>6, <1>9, <1>10, Zenon
  <2>2. PackWhole(done, e)  BY ONLY <1>2, <1>5, <2>1, Zenon DEF PackWhole
  <2> QED  BY ONLY <1>1, <1>4, <1>10, <2>2, done \in Seq(PackBatch), Zenon DEF PackEnded
<1>11. CASE cells # <<>>
  <2>1. PICK x : x = [first |-> first, width |-> width, cells |-> cells]  OBVIOUS
  <2>2. x \in PackBatch /\ x.first = first /\ x.width = width /\ x.cells = cells
    BY ONLY <2>1, first \in Nat, width \in Nat \ {0}, cells \in Seq(CellSet)
       DEF PackBatch
  <2>3. Holds(x, e, m, n)  BY ONLY <1>8, <2>2, Zenon DEF Holds
  <2>4. marks[Len(done)] < n /\ Holds(x, e, marks[Len(done)], n)
    BY ONLY <1>6, <1>7, <1>9, <1>11, <2>3, Zenon
  <2>5. n <= n  BY ONLY n \in Nat
  <2>6. PICK u : CutAt(Append(done, x), e, u, n) /\ u[Len(Append(done, x))] = n
    BY ONLY <1>5, <2>2, <2>4, <2>5, n \in Nat, done \in Seq(PackBatch), CutMore
  <2>7. Closed(q) = Append(done, x)  BY ONLY <1>4, <2>1, Zenon DEF Closed
  <2>8. Append(done, x) \in Seq(PackBatch)
    <3>1. PICK T : T = PackBatch  OBVIOUS
    <3>2. done \in Seq(T) /\ x \in T  BY <2>2, <3>1
    <3>3. Append(done, x) \in Seq(T)  BY ONLY <3>2
    <3> QED  BY ONLY <3>1, <3>3, Zenon
  <2>9. PackWhole(Append(done, x), e)  BY ONLY <1>2, <2>6, Zenon DEF PackWhole
  <2> QED  BY ONLY <1>1, <1>4, <1>11, <2>7, <2>8, <2>9, Zenon DEF PackEnded
<1> QED  BY <1>10, <1>11

LEMMA EndPacks ==
  ASSUME PackStanding, WalkEnds
  PROVE  PackEnded(batch'.done, grid')
<1>1. PICK e, q : /\ e = grid \o Released /\ q = PushAll(batch, Released)
                  /\ PackOfGrid(q, e)
  BY ReleasedPiles, Zenon
<1>2. grid' = e  BY <1>1, Zenon DEF WalkEnds
<1>3. batch' = IF q.cells = <<>> THEN q
               ELSE [q EXCEPT !.done = Closed(q), !.cells = <<>>]
  BY <1>1, Zenon DEF WalkEnds
<1>4. PICK p : p = batch'  OBVIOUS
<1>5. p.done = IF q.cells = <<>> THEN q.done ELSE Closed(q)
  <2>1. q \in PackState  BY <1>1 DEF PackOfGrid
  <2>2. PICK c : c = Closed(q)  OBVIOUS
  <2>3. CASE q.cells = <<>>  BY <1>3, <1>4, <2>3, Zenon
  <2>4. CASE q.cells # <<>>
    <3>1. p = [q EXCEPT !.done = c, !.cells = <<>>]  BY ONLY <1>3, <1>4, <2>2, <2>4, Zenon
    <3>2. p.done = c  BY ONLY <2>1, <3>1 DEF PackState
    <3> QED  BY ONLY <2>2, <2>4, <3>2, Zenon
  <2> QED  BY <2>3, <2>4
<1>6. PackEnded(IF q.cells = <<>> THEN q.done ELSE Closed(q), e)  BY <1>1, LastClosed
<1> QED  BY ONLY <1>2, <1>4, <1>5, <1>6, Zenon

LEMMA InitPacks == BenchInit => PackInv
<1> SUFFICES ASSUME BenchInit  PROVE PackInv
  OBVIOUS
<1>1. /\ phase = "reading" /\ declared \in Cols /\ began = FALSE /\ at = 0
      /\ line = Blank(declared + 1) /\ started = FALSE
      /\ pendingEmpty = 0 /\ grid = <<>>
      /\ batch = [done |-> <<>>, first |-> 0, width |-> declared + 1, cells |-> <<>>]
  BY DEF BenchInit, Init, WalkInit
<1>2. PICK w \in Nat \ {0} : w = declared + 1
  BY <1>1, SizeAssumption DEF Cols
<1>3. at \in Rows  BY <1>1, SizeAssumption DEF Rows
<1>4. line \in Seq(CellSet) /\ Len(line) # 0
  <2>1. line = Blank(w) /\ w \in Int  BY <1>1, <1>2
  <2>2. Len(line) = w  BY ONLY <2>1, w \in Nat \ {0}, BlankIs
  <2> QED  BY ONLY <2>1, <2>2, w \in Nat \ {0}, BlankCells
<1>5. PICK o : o = <<>>  OBVIOUS
<1>6. o \in Seq(PackedRow) /\ o \in Seq(PackBatch) /\ o \in Seq(CellSet) /\ Len(o) = 0
  BY ONLY <1>5
<1>7. batch = PackOf(o, 0, w, o)  BY ONLY <1>1, <1>2, <1>5, Zenon DEF PackOf
<1>8. batch \in PackState
  <2>1. 0 \in Nat  OBVIOUS
  <2> QED  BY ONLY <1>6, <1>7, <2>1, w \in Nat \ {0} DEF PackState, PackOf
<1>9. batch.done = o /\ batch.first = 0 /\ batch.width = w /\ batch.cells = o
  BY ONLY <1>7, PackHas
<1>10. PilesUp(grid)
  <2>1. ~\E i : i \in 1..0  OBVIOUS
  <2> QED  BY ONLY <1>1, <1>5, <1>6, <2>1, Zenon DEF PilesUp
<1>11. PackUpTo(batch, grid, Len(grid))
  <2>1. PICK marks : marks = [k \in 0..0 |-> 0]  OBVIOUS
  <2>2. marks \in [0..0 -> 0..0] /\ marks[0] = 0
    <3>1. 0 \in 0..0  OBVIOUS
    <3> QED  BY ONLY <2>1, <3>1, Zenon
  <2>3. ~\E k : k \in 1..0  OBVIOUS
  <2>4. CutAt(o, grid, marks, 0)  BY ONLY <1>6, <2>2, <2>3, Zenon DEF CutAt
  <2>5. Piled(0, w, <<>>, grid, 0, 0)
    BY ONLY w \in Nat \ {0}, 0 \in Nat, PiledNone
  <2>6. Holds(batch, grid, 0, 0)  BY ONLY <1>5, <1>9, <2>5, Zenon DEF Holds
  <2> QED  BY ONLY <1>1, <1>5, <1>6, <1>9, <2>2, <2>4, <2>6, Zenon DEF PackUpTo
<1>12. Behind(grid, line)  BY <1>1 DEF Behind
<1>13. pendingEmpty \in Nat /\ Waits(grid, pendingEmpty, at)
  BY <1>1 DEF Waits
<1>14. PackOfGrid(batch, grid)  BY <1>8, <1>10, <1>11 DEF PackOfGrid
<1>15. PackStanding
  BY ONLY <1>1, <1>3, <1>4, <1>12, <1>13, <1>14, Zenon DEF PackStanding
<1> QED  BY <1>1, <1>15 DEF PackInv

LEMMA StepPacks ==
  IInv /\ PackInv /\ [BenchNext]_<<vars, walkVars>> => PackInv'
<1> SUFFICES ASSUME IInv, PackInv, [BenchNext]_<<vars, walkVars>>
             PROVE  PackInv'
  OBVIOUS
<1>1. ASSUME NEW row \in Rows, NEW col \in Cols,
             NEW id \in 0..Least(interned + 1, MaxCells), BothRead(row, col, id)
      PROVE  PackInv'
  <2>1. /\ phase = "reading" /\ phase' \in {"reading", "failed"}
        /\ Walk(row, col, read + 1) /\ read + 1 \in CellSet
    BY <1>1, SizeAssumption
       DEF BothRead, FirstCell, SameRow, NextRow, LateRow, TooLate, Receive,
           IInv, TypeOK, CellSet
  <2>2. PackStanding'  BY <2>1, WalkPacks DEF PackInv
  <2> QED  BY <2>1, <2>2 DEF PackInv
<1>2. ASSUME NEW row \in Rows, NEW col \in Cols, BothMeetBlank(row, col)
      PROVE  PackInv'
  <2>1. phase = "reading" /\ phase' = phase /\ Walk(row, col, 0) /\ 0 \in CellSet
    BY <1>2, SizeAssumption DEF BothMeetBlank, vars, CellSet
  <2>2. PackStanding'  BY <2>1, WalkPacks DEF PackInv
  <2> QED  BY <2>1, <2>2 DEF PackInv
<1>3. CASE BothEnd
  <2>1. phase = "reading" /\ phase' # "reading" /\ WalkEnds
    BY <1>3 DEF BothEnd, EndOfSheet
  <2>2. PackEnded(batch'.done, grid')  BY <2>1, EndPacks DEF PackInv
  <2> QED  BY <2>1, <2>2, Zenon DEF PackInv
<1>4. CASE (ReadFails \/ ClientGone) /\ UNCHANGED walkVars
  <2>1. phase' \in {"failed", "gone"}  BY <1>4 DEF ReadFails, ClientGone
  <2> QED  BY <2>1 DEF PackInv
<1>5. CASE UNCHANGED <<vars, walkVars>>
  <2>1. UNCHANGED <<phase, began, at, line, started, pendingEmpty, grid, batch>>
    BY <1>5 DEF vars, walkVars
  <2>2. PackStanding => PackStanding'  BY <2>1, Zenon DEF PackStanding
  <2> QED  BY <2>1, <2>2, Zenon DEF PackInv
<1> QED  BY <1>1, <1>2, <1>3, <1>4, <1>5, Zenon DEF BenchNext

(* Of any sheet, in order or not, what packed.rs has closed and what is    *)
(* pending are the rows of the walk's grid, cut into batches, each padded  *)
(* to a width of its own.                                                  *)
THEOREM PackInvariance == BenchSpec => []PackInv
BY InitPacks, StepPacks, WalkInvariance, PTL DEF BenchSpec

-----------------------------------------------------------------------------
(* The rows of a batch, and the row of the grid each of them is.           *)
RowsOf(b) ==
    [r \in 1..Height(b) |->
        [row |-> b.first + r - 1,
         vals |-> SubSeq(b.cells, (r - 1) * b.width + 1, r * b.width)]]
SentAs(x, y) ==
    /\ x.row = y.row
    /\ SubSeq(x.vals, 1, Len(y.vals)) = y.vals
    /\ \A k \in (Len(y.vals) + 1)..Len(x.vals) : x.vals[k] = 0

Cells(cells, w, r) == SubSeq(cells, (r - 1) * w + 1, r * w)
FullRow(s, T, cells, w, r) ==
    s \in Seq(T) /\ Len(s) = w /\ \A c \in 1..w : s[c] = InRow(cells, w, r, c)
LEMMA RowCells ==
  ASSUME NEW T, NEW cells \in Seq(T), NEW h \in Nat, NEW w \in Nat \ {0},
         Len(cells) = h * w, NEW r \in 1..h
  PROVE  FullRow(Cells(cells, w, r), T, cells, w, r)
<1>1. PICK p \in Nat : r = p + 1
  <2>1. r - 1 \in Nat /\ r = (r - 1) + 1  OBVIOUS
  <2> QED  BY <2>1
<1>2. PICK a \in Nat : a = p * w  BY Product
<1>3. r * w = a + w /\ (r - 1) * w = a
  <2>1. (p + 1) * w = p * w + w  BY Product
  <2>2. r - 1 = p  BY ONLY <1>1, p \in Nat
  <2> QED  BY ONLY <1>1, <1>2, <2>1, <2>2, Zenon
<1>4. a + w <= Len(cells)
  <2>1. PICK d \in Nat : h = p + 1 + d
    <3>1. h - r \in Nat /\ h = p + 1 + (h - r)  BY <1>1
    <3> QED  BY <3>1
  <2>2. PICK z \in Nat : z = d * w  BY Product
  <2>3. h * w = a + w + z
    <3>1. \A x, y, v \in Nat : (x + 1 + y) * v = x * v + v + y * v  BY ONLY TRUE
    <3>2. (p + 1 + d) * w = p * w + w + d * w
      BY ONLY <3>1, p \in Nat, d \in Nat, w \in Nat \ {0}
    <3> QED  BY ONLY <1>2, <2>1, <2>2, <3>2, Zenon
  <2>4. Len(cells) = a + w + z  BY ONLY <2>3, Len(cells) = h * w, Zenon
  <2> QED  BY ONLY <2>4, a \in Nat, z \in Nat, w \in Nat \ {0}
<1>5. PICK x \in Int, y \in Int : x = a + 1 /\ y = a + w
  BY ONLY a \in Nat, w \in Nat \ {0}
<1>6. \A i \in x..y : cells[i] \in T
  <2>1. \A i \in x..y : i \in 1..Len(cells)
    <3>1. Len(cells) \in Nat  BY ONLY cells \in Seq(T)
    <3> QED  BY ONLY <1>4, <1>5, <3>1, a \in Nat, w \in Nat \ {0}
  <2> QED  BY ONLY <2>1, cells \in Seq(T)
<1>7. /\ SubSeq(cells, x, y) \in Seq(T)
      /\ Len(SubSeq(cells, x, y)) = IF x <= y THEN y - x + 1 ELSE 0
      /\ \A i \in 1..(y - x + 1) : SubSeq(cells, x, y)[i] = cells[x + i - 1]
  BY ONLY <1>6, SubSeqProperties, x \in Int, y \in Int
<1>8. (IF x <= y THEN y - x + 1 ELSE 0) = w /\ y - x + 1 = w
      /\ \A i \in 1..w : x + i - 1 = a + i
  BY ONLY <1>5, a \in Nat, w \in Nat \ {0}
<1>9. \A c \in 1..w : InRow(cells, w, r, c) = cells[a + c]
  BY ONLY <1>3, Zenon DEF InRow
<1>10. PICK u : u = SubSeq(cells, x, y)  OBVIOUS
<1>11. u \in Seq(T) /\ Len(u) = w /\ \A c \in 1..w : u[c] = InRow(cells, w, r, c)
  BY ONLY <1>7, <1>8, <1>9, <1>10, Zenon
<1>12. Cells(cells, w, r) = u
  BY ONLY <1>3, <1>5, <1>10, Zenon DEF Cells
<1> QED  BY ONLY <1>11, <1>12, Zenon DEF FullRow

LEMMA RowsOfAre ==
  ASSUME NEW b, NEW h, Rect(b, h)
  PROVE  /\ RowsOf(b) \in Seq(PackedRow) /\ Len(RowsOf(b)) = h
         /\ \A r \in 1..h :
              /\ RowsOf(b)[r].row = b.first + r - 1
              /\ RowsOf(b)[r].vals \in Seq(CellSet)
              /\ Len(RowsOf(b)[r].vals) = b.width
              /\ \A c \in 1..b.width :
                   RowsOf(b)[r].vals[c] = InRow(b.cells, b.width, r, c)
<1>1. PICK w \in Nat \ {0}, first \in Nat, cells \in Seq(CellSet) :
        w = b.width /\ first = b.first /\ cells = b.cells
  BY Zenon DEF Rect, CellSet
<1>2. h \in Nat /\ Len(cells) = h * w  BY ONLY <1>1, Rect(b, h), Zenon DEF Rect
<1>3. Height(b) = h  BY RectIs
<1> DEFINE R(r) == [row |-> first + r - 1,
                    vals |-> SubSeq(cells, (r - 1) * w + 1, r * w)]
<1>4. RowsOf(b) = [r \in 1..h |-> R(r)]  BY ONLY <1>1, <1>3, Zenon DEF RowsOf
<1>5. ASSUME NEW r \in 1..h
      PROVE  /\ R(r) \in PackedRow /\ R(r).row = first + r - 1
             /\ R(r).vals \in Seq(CellSet) /\ Len(R(r).vals) = w
             /\ \A c \in 1..w : R(r).vals[c] = InRow(cells, w, r, c)
  <2>1. PICK C : C = CellSet  OBVIOUS
  <2>2. PICK s, n : s = SubSeq(cells, (r - 1) * w + 1, r * w) /\ n = first + r - 1
    OBVIOUS
  <2>3. cells \in Seq(C)  BY <2>1
  <2>4. s \in Seq(C) /\ Len(s) = w /\ \A c \in 1..w : s[c] = InRow(cells, w, r, c)
    <3>1. FullRow(Cells(cells, w, r), C, cells, w, r)
      BY ONLY <1>2, <2>3, w \in Nat \ {0}, r \in 1..h, RowCells
    <3> QED  BY ONLY <2>2, <3>1, Zenon DEF FullRow, Cells
  <2>5. n \in Nat  BY ONLY <1>2, <2>2, first \in Nat, r \in 1..h
  <2>6. PICK y : y = R(r)  OBVIOUS
  <2>7. y = [row |-> n, vals |-> s]  BY <2>2, <2>6, Zenon
  <2>8. s \in Seq(CellSet)  BY ONLY <2>1, <2>4, Zenon
  <2>9. y \in PackedRow /\ y.row = n /\ y.vals = s
    BY ONLY <2>5, <2>7, <2>8 DEF PackedRow
  <2> HIDE DEF R
  <2> QED  BY ONLY <2>2, <2>4, <2>6, <2>8, <2>9, Zenon
<1> HIDE DEF R
<1>6. PICK T, q : T = PackedRow /\ q = RowsOf(b)  OBVIOUS
<1>7. q \in Seq(T) /\ Len(q) = h
  <2>1. \A r \in 1..h : R(r) \in T  BY <1>5, <1>6
  <2>2. q = [r \in 1..h |-> R(r)]  BY <1>4, <1>6
  <2>3. q \in [1..h -> T] /\ DOMAIN q = 1..h  BY ONLY <2>1, <2>2
  <2>4. q \in Seq(T)  BY ONLY <1>2, <2>3
  <2> QED  BY ONLY <1>2, <2>3, <2>4
<1>8. \A r \in 1..h : q[r] = R(r)  BY ONLY <1>4, <1>6, Zenon
<1>9. ASSUME NEW r \in 1..h
      PROVE  /\ q[r].row = b.first + r - 1
             /\ q[r].vals \in Seq(CellSet) /\ Len(q[r].vals) = b.width
             /\ \A c \in 1..b.width : q[r].vals[c] = InRow(b.cells, b.width, r, c)
  <2>1. PICK y : y = q[r]  OBVIOUS
  <2>2. /\ y.row = first + r - 1
        /\ y.vals \in Seq(CellSet) /\ Len(y.vals) = w
        /\ \A c \in 1..w : y.vals[c] = InRow(cells, w, r, c)
    BY ONLY <1>5, <1>8, <2>1, r \in 1..h, Zenon
  <2> QED  BY ONLY <1>1, <2>1, <2>2, Zenon
<1> QED  BY ONLY <1>6, <1>7, <1>9, Zenon

LEMMA RowNumbers ==
  ASSUME NEW g, PilesUp(g), NEW lo \in Nat, NEW m \in Nat, lo + m <= Len(g)
  PROVE  \A r \in 1..m : g[lo + r].row = g[lo + 1].row + r - 1
<1>1. g \in Seq(PackedRow) /\ Len(g) \in Nat  BY PilesTyped
<1>2. \A i \in 1..Len(g) : g[i].row \in Nat
  <2>1. PICK T : T = PackedRow  OBVIOUS
  <2>2. g \in Seq(T)  BY <1>1, <2>1
  <2>3. \A i \in 1..Len(g) : g[i] \in T  BY ONLY <2>2
  <2>4. \A x \in PackedRow : x.row \in Nat  BY ONLY TRUE DEF PackedRow
  <2> QED  BY ONLY <2>1, <2>3, <2>4, Zenon
<1> DEFINE S == {r \in 0..m : r # 0 => g[lo + r].row = g[lo + 1].row + r - 1}
<1>3. 0 \in S  OBVIOUS
<1>4. ASSUME NEW r \in 1..m, r - 1 \in S  PROVE r \in S
  <2>1. lo + r \in 1..Len(g) /\ lo + 1 \in 1..Len(g) /\ r \in 0..m /\ r # 0
    BY <1>1
  <2>2. PICK a \in Nat : a = g[lo + 1].row  BY <1>2, <2>1
  <2>3. CASE r = 1
    <3>1. g[lo + r].row = a  BY <2>2, <2>3
    <3>2. a = a + r - 1  BY <2>3
    <3>3. g[lo + r].row = g[lo + 1].row + r - 1  BY ONLY <2>2, <3>1, <3>2, Zenon
    <3> QED  BY <2>1, <3>3
  <2>4. CASE r # 1
    <3>1. (lo + r) - 1 = lo + (r - 1) /\ lo + r # 1 /\ r - 1 # 0
      BY <2>4
    <3>2. g[lo + r].row = g[lo + (r - 1)].row + 1
      BY ONLY <2>1, <3>1, PilesUp(g), Zenon DEF PilesUp
    <3>3. g[lo + (r - 1)].row = a + (r - 1) - 1  BY <1>4, <2>2, <3>1
    <3>4. (a + (r - 1) - 1) + 1 = a + r - 1  BY ONLY a \in Nat, r \in 1..m, m \in Nat
    <3>5. g[lo + r].row = g[lo + 1].row + r - 1
      BY ONLY <2>2, <3>2, <3>3, <3>4, Zenon
    <3> QED  BY <2>1, <3>5
  <2> QED  BY <2>3, <2>4
<1>5. \A r \in 1..m : r - 1 \in S => r \in S  BY <1>4
<1> HIDE DEF S
<1>6. \A r \in 0..m : r \in S  BY ONLY <1>3, <1>5, m \in Nat, Climbs
<1>7. \A r \in 1..m : r \in 0..m /\ r # 0  OBVIOUS
<1> QED  BY <1>6, <1>7, Zenon DEF S

LEMMA PaddedIs ==
  ASSUME NEW v \in Seq(CellSet), NEW s \in Seq(CellSet), NEW w \in Nat, Len(v) = w,
         Len(s) <= w, \A c \in 1..w : v[c] = IF c <= Len(s) THEN s[c] ELSE 0
  PROVE  /\ SubSeq(v, 1, Len(s)) = s
         /\ \A k \in (Len(s) + 1)..Len(v) : v[k] = 0
<1>1. PICK T : T = CellSet  OBVIOUS
<1>2. v \in Seq(T) /\ s \in Seq(T)  BY <1>1
<1>3. PICK n \in Nat : n = Len(s)
  <2>1. Len(s) \in Nat  BY ONLY <1>2
  <2> QED  BY <2>1
<1>4. n <= w /\ \A c \in 1..w : v[c] = IF c <= n THEN s[c] ELSE 0  BY <1>3
<1>5. \A c \in 1..n : c \in 1..w /\ c <= n /\ 0 + c = c
  BY ONLY <1>4, n \in Nat, w \in Nat
<1>6. 0 + n <= w /\ 0 + 1 = 1 /\ 0 + n = n /\ 0 \in Nat
  BY ONLY <1>4, n \in Nat, w \in Nat
<1>7. \A c \in 1..n : v[0 + c] = s[c]  BY ONLY <1>4, <1>5, Zenon
<1>8. StandsAt(v, 0, s)
  BY ONLY <1>3, <1>6, <1>7, Len(v) = w, Zenon DEF StandsAt
<1>9. SubSeq(v, 0 + 1, 0 + Len(s)) = s  BY ONLY <1>2, <1>6, <1>8, SubSeqAt
<1>10. SubSeq(v, 1, n) = s  BY ONLY <1>3, <1>6, <1>9, Zenon
<1>11. \A k \in (n + 1)..w : k \in 1..w /\ ~(k <= n)
  BY ONLY n \in Nat, w \in Nat
<1>12. \A k \in (n + 1)..w : v[k] = 0  BY ONLY <1>4, <1>11, Zenon
<1> QED  BY ONLY <1>3, <1>10, <1>12, Len(v) = w, Zenon

LEMMA BatchIsRows ==
  ASSUME NEW g, PilesUp(g), NEW x \in PackBatch, NEW lo \in Nat, NEW m \in Nat,
         lo + m <= Len(g), Holds(x, g, lo, lo + m)
  PROVE  /\ Rect(x, m)
         /\ \A r \in 1..m : SentAs(RowsOf(x)[r], g[lo + r])
<1>1. x.first \in Nat /\ x.width \in Nat \ {0} /\ x.cells \in Seq(CellSet)
  BY ONLY x \in PackBatch DEF PackBatch
<1>2. PICK first \in Nat, w \in Nat \ {0}, cells \in Seq(CellSet) :
        first = x.first /\ w = x.width /\ cells = x.cells
  BY ONLY <1>1, Zenon
<1>3. (lo + m) - lo = m /\ (m # 0 => lo < lo + m)  BY ONLY lo \in Nat, m \in Nat
<1>4. Piled(first, w, cells, g, lo, lo + m)
  BY ONLY <1>2, Holds(x, g, lo, lo + m), Zenon DEF Holds
<1>5. /\ Len(cells) = m * w
      /\ m # 0 => first = g[lo + 1].row
      /\ \A r \in 1..m : RowAt(cells, w, r, g[lo + r].vals)
  BY ONLY <1>3, <1>4, Zenon DEF Piled
<1>6. Rect(x, m)  BY ONLY <1>1, <1>2, <1>5, m \in Nat, Zenon DEF Rect, CellSet
<1>7. ASSUME NEW r \in 1..m  PROVE SentAs(RowsOf(x)[r], g[lo + r])
  <2>1. PICK u, y : u = RowsOf(x)[r] /\ y = g[lo + r]  OBVIOUS
  <2>2. /\ u.row = first + r - 1 /\ u.vals \in Seq(CellSet) /\ Len(u.vals) = w
        /\ \A c \in 1..w : u.vals[c] = InRow(cells, w, r, c)
    <3>1. /\ RowsOf(x)[r].row = x.first + r - 1
          /\ RowsOf(x)[r].vals \in Seq(CellSet)
          /\ Len(RowsOf(x)[r].vals) = x.width
          /\ \A c \in 1..x.width :
               RowsOf(x)[r].vals[c] = InRow(x.cells, x.width, r, c)
      BY ONLY <1>6, r \in 1..m, RowsOfAre, ZenonT(60)
    <3> QED  BY ONLY <1>2, <2>1, <3>1, Zenon
  <2>3. y \in PackedRow
    <3>1. PICK T : T = PackedRow  OBVIOUS
    <3>2. g \in Seq(T) /\ Len(g) \in Nat  BY <3>1, PilesTyped
    <3>3. lo + r \in 1..Len(g)  BY <3>2
    <3>4. g[lo + r] \in T  BY ONLY <3>2, <3>3
    <3> QED  BY ONLY <2>1, <3>1, <3>4, Zenon
  <2>4. y.vals \in Seq(CellSet)  BY ONLY <2>3 DEF PackedRow
  <2>5. PICK v \in Seq(CellSet), s \in Seq(CellSet) : v = u.vals /\ s = y.vals
    BY ONLY <2>2, <2>4, Zenon
  <2>6. Len(s) <= w /\ \A c \in 1..w : v[c] = IF c <= Len(s) THEN s[c] ELSE 0
    BY ONLY <1>5, <2>1, <2>2, <2>5, r \in 1..m, Zenon DEF RowAt
  <2>7. Len(v) = w  BY ONLY <2>2, <2>5, Zenon
  <2>8. /\ SubSeq(v, 1, Len(s)) = s
        /\ \A k \in (Len(s) + 1)..Len(v) : v[k] = 0
    <3>1. w \in Nat  OBVIOUS
    <3> QED  BY ONLY <2>6, <2>7, <3>1, v \in Seq(CellSet), s \in Seq(CellSet), PaddedIs
  <2>9. y.row = first + r - 1
    <3>1. g[lo + r].row = g[lo + 1].row + r - 1  BY RowNumbers
    <3>2. m # 0  OBVIOUS
    <3> QED  BY ONLY <1>5, <2>1, <3>1, <3>2, Zenon
  <2>10. SentAs(u, y)  BY ONLY <2>2, <2>5, <2>8, <2>9, Zenon DEF SentAs
  <2> QED  BY ONLY <2>1, <2>10, Zenon
<1> QED  BY <1>6, <1>7

(* Each row lies between two of the marks. *)
LEMMA BetweenMarks ==
  ASSUME NEW n \in Nat, NEW L \in Nat, NEW marks \in [0..L -> 0..n], marks[0] = 0,
         NEW i \in 1..marks[L]
  PROVE  \E k \in 1..L : marks[k - 1] < i /\ i <= marks[k]
<1> DEFINE S == {k \in 0..L : i <= marks[k] =>
                                \E j \in 1..L : marks[j - 1] < i /\ i <= marks[j]}
<1>1. 0 \in S  OBVIOUS
<1>2. ASSUME NEW k \in 1..L, k - 1 \in S  PROVE k \in S
  <2>1. k \in 0..L /\ k - 1 \in 0..L  OBVIOUS
  <2>2. marks[k] \in Nat /\ marks[k - 1] \in Nat /\ marks[L] \in Nat  BY <2>1
  <2>3. CASE i <= marks[k - 1]  BY <1>2, <2>1, <2>3
  <2>4. CASE ~(i <= marks[k - 1])
    <3>1. marks[k - 1] < i  BY <2>2, <2>4
    <3> QED  BY <2>1, <3>1
  <2> QED  BY <2>3, <2>4
<1>3. \A k \in 1..L : k - 1 \in S => k \in S  BY <1>2
<1> HIDE DEF S
<1>4. L \in S
  <2>1. L \in 0..L  OBVIOUS
  <2> QED  BY ONLY <1>1, <1>3, <2>1, L \in Nat, Climbs
<1>5. i <= marks[L]
  <2>1. L \in 0..L  OBVIOUS
  <2> QED  BY <2>1
<1> QED  BY <1>4, <1>5 DEF S

(* All rows of all batches. *)
RowsSent(done, g) ==
    LET all == FlattenSeq([i \in DOMAIN done |-> RowsOf(done[i])]) IN
    Len(all) = Len(g) /\ \A i \in DOMAIN g : SentAs(all[i], g[i])

LEMMA BatchesAreGrid ==
  ASSUME NEW done, NEW g, PackEnded(done, g)
  PROVE  /\ \A k \in DOMAIN done : \E h : Rect(done[k], h)
         /\ RowsSent(done, g)
<1>1. PilesUp(g) /\ done \in Seq(PackBatch) /\ PackWhole(done, g)
  BY Zenon DEF PackEnded
<1>2. PICK n \in Nat : n = Len(g) /\ DOMAIN g = 1..n
  <2>1. PICK T : T = PackedRow  OBVIOUS
  <2>2. g \in Seq(T)  BY <1>1, <2>1, PilesTyped
  <2>3. Len(g) \in Nat /\ DOMAIN g = 1..Len(g)  BY ONLY <2>2
  <2> QED  BY ONLY <2>3, Zenon
<1>3. PICK L \in Nat : /\ L = Len(done) /\ DOMAIN done = 1..L
                       /\ \A k \in 1..L : done[k] \in PackBatch
  <2>1. PICK T : T = PackBatch  OBVIOUS
  <2>2. done \in Seq(T)  BY <1>1, <2>1
  <2>3. /\ Len(done) \in Nat /\ DOMAIN done = 1..Len(done)
        /\ \A k \in 1..Len(done) : done[k] \in T
    BY ONLY <2>2
  <2> QED  BY ONLY <2>1, <2>3, Zenon
<1>4. PICK marks : /\ marks \in [0..L -> 0..n] /\ marks[0] = 0 /\ marks[L] = n
                   /\ \A k \in 1..L : /\ marks[k - 1] < marks[k]
                                      /\ Holds(done[k], g, marks[k - 1], marks[k])
  BY ONLY <1>1, <1>2, <1>3, Zenon DEF PackWhole, CutAt
<1>5. \A k \in 1..L : k \in 0..L /\ k - 1 \in 0..L  OBVIOUS
<1>6. ASSUME NEW k \in 1..L
      PROVE  \E lo \in Nat, m \in Nat :
                /\ lo = marks[k - 1] /\ lo + m = marks[k] /\ Rect(done[k], m)
                /\ \A r \in 1..m : SentAs(RowsOf(done[k])[r], g[lo + r])
  <2>1. marks[k - 1] \in 0..n /\ marks[k] \in 0..n /\ marks[k - 1] < marks[k]
    BY ONLY <1>4, <1>5, k \in 1..L, Zenon
  <2>2. PICK lo \in Nat, m \in Nat :
          lo = marks[k - 1] /\ lo + m = marks[k] /\ lo + m <= n
    <3>1. PICK a \in 0..n, c \in 0..n : a = marks[k - 1] /\ c = marks[k] /\ a < c
      BY <2>1
    <3>2. c - a \in Nat /\ a + (c - a) = c /\ a \in Nat /\ c <= n
      BY ONLY <3>1, a \in 0..n, c \in 0..n, n \in Nat
    <3> QED  BY ONLY <3>1, <3>2, Zenon
  <2>3. PICK x : x = done[k]  OBVIOUS
  <2>4. x \in PackBatch /\ Holds(x, g, lo, lo + m) /\ lo + m <= Len(g)
    BY ONLY <1>2, <1>3, <1>4, <2>2, <2>3, k \in 1..L, Zenon
  <2>5. Rect(x, m) /\ \A r \in 1..m : SentAs(RowsOf(x)[r], g[lo + r])
    BY ONLY <1>1, <2>4, lo \in Nat, m \in Nat, BatchIsRows, Zenon
  <2> QED  BY ONLY <2>2, <2>3, <2>5, Zenon
<1> DEFINE ss == [k \in 1..L |-> RowsOf(done[k])]
<1>7. \A k \in 1..L : ss[k] = RowsOf(done[k])  OBVIOUS
<1>8. FlattenSeq([i \in DOMAIN done |-> RowsOf(done[i])]) = FlattenSeq(ss)
  BY <1>3, Zenon
<1>9. ss \in [1..L -> Seq(PackedRow)]
  <2>1. \A k \in 1..L : RowsOf(done[k]) \in Seq(PackedRow)
    BY ONLY <1>6, RowsOfAre, Zenon
  <2> QED  BY <2>1, Zenon
<1> HIDE DEF ss
<1>10. \A k \in 1..L : \A h : Rect(done[k], h) => Len(ss[k]) = h
  BY ONLY <1>7, RowsOfAre, Zenon
<1>11. PICK f \in [0..L -> Seq(PackedRow)] : Column(f, ss, L)
  BY ONLY <1>9, L \in Nat, ColumnExists
<1>12. /\ f[0] = <<>> /\ FlattenSeq(ss) = f[L]
       /\ \A k \in 1..L : /\ StandsAt(f[L], Len(f[k - 1]), ss[k])
                          /\ Len(f[k]) = Len(f[k - 1]) + Len(ss[k])
  BY <1>11, Zenon DEF Column
<1> DEFINE S == {k \in 0..L : Len(f[k]) = marks[k]}
<1>13. 0 \in S
  <2>1. 0 \in 0..L /\ Len(<<>>) = 0  OBVIOUS
  <2> QED  BY <1>4, <1>12, <2>1, Zenon
<1>14. \A k \in 1..L : k - 1 \in S => k \in S
  <2> SUFFICES ASSUME NEW k \in 1..L, Len(f[k - 1]) = marks[k - 1]
               PROVE  Len(f[k]) = marks[k]
    BY <1>5, Zenon
  <2>1. PICK lo \in Nat, m \in Nat :
           lo = marks[k - 1] /\ lo + m = marks[k] /\ Rect(done[k], m)
    BY ONLY <1>6, k \in 1..L, Zenon
  <2>2. Len(ss[k]) = m  BY ONLY <1>10, <2>1, k \in 1..L, Zenon
  <2> QED  BY ONLY <1>12, <2>1, <2>2, Len(f[k - 1]) = marks[k - 1], k \in 1..L, Zenon
<1> HIDE DEF S
<1>15. \A k \in 0..L : Len(f[k]) = marks[k]
  <2>1. \A k \in 0..L : k \in S  BY ONLY <1>13, <1>14, L \in Nat, Climbs
  <2> QED  BY <2>1, Zenon DEF S
<1>16. PICK all : all = FlattenSeq([i \in DOMAIN done |-> RowsOf(done[i])])
  OBVIOUS
<1>17. all = f[L]  BY ONLY <1>8, <1>12, <1>16, Zenon
<1>18. Len(all) = n
  <2>1. L \in 0..L  OBVIOUS
  <2> QED  BY ONLY <1>4, <1>15, <1>17, <2>1, Zenon
<1>19. ASSUME NEW i \in 1..n  PROVE SentAs(all[i], g[i])
  <2>1. PICK k \in 1..L : marks[k - 1] < i /\ i <= marks[k]
    BY ONLY <1>4, i \in 1..n, n \in Nat, L \in Nat, BetweenMarks
  <2>2. PICK lo \in Nat, m \in Nat :
          /\ lo = marks[k - 1] /\ lo + m = marks[k] /\ Rect(done[k], m)
          /\ \A r \in 1..m : SentAs(RowsOf(done[k])[r], g[lo + r])
    BY ONLY <1>6, k \in 1..L, Zenon
  <2>3. PICK r \in 1..m : lo + r = i
    <3>1. lo < i /\ i <= lo + m  BY ONLY <2>1, <2>2, Zenon
    <3>2. i - lo \in 1..m /\ lo + (i - lo) = i
      BY ONLY <3>1, lo \in Nat, m \in Nat, i \in 1..n, n \in Nat
    <3> QED  BY ONLY <3>2, Zenon
  <2>4. Len(ss[k]) = m /\ Len(f[k - 1]) = lo
    BY ONLY <1>5, <1>10, <1>15, <2>2, k \in 1..L, Zenon
  <2>5. all[lo + r] = ss[k][r]
    BY ONLY <1>12, <1>17, <2>4, k \in 1..L, r \in 1..m, Zenon DEF StandsAt
  <2>6. SentAs(RowsOf(done[k])[r], g[lo + r])  BY ONLY <2>2, r \in 1..m, Zenon
  <2> QED  BY ONLY <1>7, <2>3, <2>5, <2>6, k \in 1..L, Zenon
<1>20. RowsSent(done, g)
  BY ONLY <1>2, <1>16, <1>18, <1>19, Zenon DEF RowsSent
<1>21. \A k \in DOMAIN done : \E h : Rect(done[k], h)  BY ONLY <1>3, <1>6, Zenon
<1> QED  BY <1>20, <1>21

LEMMA InvPacked == IInv /\ PackInv => PackedLossless
<1> SUFFICES ASSUME IInv, PackInv  PROVE BatchesCarryGrid /\ EncodingsLossless
  BY DEF PackedLossless
<1>1. CASE phase # "ended"
  BY <1>1, Zenon DEF BatchesCarryGrid, EncodingsLossless
<1>2. CASE phase = "ended"
  <2>1. PackEnded(batch.done, grid)  BY <1>2 DEF PackInv
  <2>2. /\ \A k \in DOMAIN batch.done : \E h : Rect(batch.done[k], h)
        /\ RowsSent(batch.done, grid)
    BY <2>1, BatchesAreGrid
  <2>3. BatchesCarryGrid
    <3>1. \A k \in DOMAIN batch.done :
            Len(batch.done[k].cells) % batch.done[k].width = 0
      BY ONLY <2>2, RectIs, Zenon
    <3> QED  BY <2>2, <3>1, Zenon DEF BatchesCarryGrid, RowsSent, SentAs, RowsOf
  <2>4. ref \in [Serials -> 0..MaxCells]  BY DEF IInv, TypeOK
  <2>5. EncodingsLossless
    BY ONLY <2>2, <2>4, ContractDecodes, PackedDecodes, Zenon DEF EncodingsLossless
  <2> QED  BY <2>3, <2>5
<1> QED  BY <1>1, <1>2

(* What packed.rs measures stands for the sheet, in order or not: its      *)
(* batches are the walk's grid, whatever widened while it was pending, and *)
(* all three encodings of each, columns with the dictionary included,      *)
(* decode to what they encode (build_grid, encode_packed, decode_packed).  *)
THEOREM PackedCorrect == BenchSpec => []PackedLossless
BY PackInvariance, WalkInvariance, InvPacked, PTL
=============================================================================
