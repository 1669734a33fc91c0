----------------------------- MODULE BodyProofs -----------------------------
(***************************************************************************)
(* The cell budget of FormulaStream, for every grid and limit, and the     *)
(* answers of ItemStream, for every list of items.                         *)
(***************************************************************************)
EXTENDS FormulaStream, ItemStream, NumberLemmas, TLAPS, SequenceTheorems, FunctionTheorems,
        FiniteSetTheorems

-----------------------------------------------------------------------------
(* FormulaStream.                                                          *)

FormulaPhases ==
    {"collecting", "sending", "ended", "failed", "gone", "overCells", "overBytes"}
HeldCell == [row : Rows, col : Cols, id : Nat, length : TextLengths]

(* The sheet has formulas once any is read. *)
SheetRead ==
    /\ sparse \in BOOLEAN /\ phase \in FormulaPhases
    /\ read \in Nat /\ sheet \in [Rows -> [Cols -> Nat]]
    /\ read > 0 => RowsUsed # {} /\ ColsUsed # {}

(* The extent FormulaCollector keeps is that of its cells, and they have   *)
(* the rows and columns of the sheet.                                      *)
SpanOf(f, l, c, R, C) ==
    /\ f \in R /\ l \in R /\ c \in C
    /\ \A r \in R : f <= r /\ r <= l
    /\ \A x \in C : x <= c
Spans == SpanOf(first, last, lastCol, RowsUsed, ColsUsed)

Gathered ==
    phase = "collecting" /\ sparse =>
        /\ cells \in Seq(HeldCell)
        /\ RowsUsed = {cells[i].row : i \in DOMAIN cells}
        /\ ColsUsed = {cells[i].col : i \in DOMAIN cells}
        /\ IF cells = <<>> THEN first = Nowhere /\ last = Nowhere /\ lastCol = 0
           ELSE Spans /\ Fits(last - first + 1, lastCol + 1)

FormulaInv == SheetRead /\ Gathered /\ DenseWithinBudget

LEMMA Grid ==
  /\ MaxRow \in Nat /\ MaxCol \in Nat
  /\ Rows = 0..MaxRow /\ Cols = 0..MaxCol
  /\ RowsUsed \subseteq 0..MaxRow /\ ColsUsed \subseteq 0..MaxCol
BY GridAssumption DEF Rows, Cols, RowsUsed, ColsUsed

(* check_dense refuses what is over the budget, and nothing else unless    *)
(* the budget is all a u64 can say.                                        *)
LEMMA FitsMeans ==
  ASSUME NEW m \in Nat, NEW n \in Nat
  PROVE  /\ m * n \in Nat
         /\ Fits(m, n) /\ MaxDenseCells < Word - 1 => m * n <= MaxDenseCells
         /\ ~Fits(m, n) => m * n > MaxDenseCells
<1>1. PICK k \in Nat : k = m * n  OBVIOUS
<1>2. Fits(m, n) <=> Lesser(k, Word - 1) <= MaxDenseCells  BY <1>1 DEF Fits
<1>3. Word \in Nat \ {0} /\ MaxDenseCells \in 0..(Word - 1)  BY GridAssumption
<1>4. /\ Fits(m, n) /\ MaxDenseCells < Word - 1 => k <= MaxDenseCells
      /\ ~Fits(m, n) => k > MaxDenseCells
  BY <1>2, <1>3 DEF Lesser
<1> QED  BY <1>1, <1>4

(* The extent is that of the range. *)
LEMMA SpanMeans ==
  ASSUME NEW R, R \subseteq 0..MaxRow, NEW C, C \subseteq 0..MaxCol,
         NEW f, NEW l, NEW c, SpanOf(f, l, c, R, C)
  PROVE  /\ Min(R) = f /\ Max(R) = l /\ Max(C) = c
         /\ f \in Nat /\ l \in Nat /\ c \in Nat /\ f <= l
<1>1. /\ f \in R /\ l \in R /\ c \in C
      /\ \A r \in R : f <= r
      /\ \A r \in R : r <= l
      /\ \A x \in C : x <= c
  BY DEF SpanOf
<1>2. Min(R) = f /\ Max(R) = l  BY <1>1, Grid, ExtremeIs
<1>3. Max(C) = c  BY <1>1, Grid, ExtremeIs
<1>4. f \in Nat /\ l \in Nat /\ c \in Nat
  <2>1. R \subseteq Nat /\ C \subseteq Nat  OBVIOUS
  <2> QED  BY <1>1, <2>1, Zenon
<1> QED  BY <1>1, <1>2, <1>3, <1>4

(* One more cell widens the extent as push does. *)
LEMMA SpanGrows ==
  ASSUME NEW R, R \subseteq 0..MaxRow, NEW C, C \subseteq 0..MaxCol,
         NEW f, NEW l, NEW c, SpanOf(f, l, c, R, C),
         NEW row \in 0..MaxRow, NEW col \in 0..MaxCol
  PROVE  SpanOf(Lesser(f, row), Greater(l, row), Greater(c, col), R \cup {row}, C \cup {col})
<1>1. /\ f \in R /\ l \in R /\ c \in C
      /\ \A r \in R : f <= r /\ r <= l
      /\ \A x \in C : x <= c
  BY DEF SpanOf
<1>2. /\ \A r \in R : r \in Nat
      /\ \A x \in C : x \in Nat
      /\ row \in Nat /\ col \in Nat
  BY Grid
<1>3. f \in Nat /\ l \in Nat /\ c \in Nat  BY <1>1, <1>2
<1>4. \A r \in R \cup {row} : Lesser(f, row) <= r /\ r <= Greater(l, row)
  BY <1>1, <1>2, <1>3 DEF Lesser, Greater
<1>5. \A x \in C \cup {col} : x <= Greater(c, col)
  BY <1>1, <1>2, <1>3 DEF Greater
<1>6. /\ Lesser(f, row) \in R \cup {row} /\ Greater(l, row) \in R \cup {row}
      /\ Greater(c, col) \in C \cup {col}
  BY <1>1 DEF Lesser, Greater
<1> QED  BY <1>4, <1>5, <1>6 DEF SpanOf

(* A formula adds its row and its column to those of the sheet. *)
LEMMA ArrivesUsed ==
  ASSUME SheetRead, NEW row \in Rows, NEW col \in Cols, Arrives(row, col)
  PROVE  /\ read' \in Nat /\ sheet' \in [Rows -> [Cols -> Nat]]
         /\ RowsUsed' = RowsUsed \cup {row} /\ ColsUsed' = ColsUsed \cup {col}
<1>1. /\ read \in Nat /\ read' = read + 1 /\ read' # 0 /\ read' \in Nat
      /\ sheet \in [Rows -> [Cols -> Nat]] /\ sheet' = [sheet EXCEPT ![row][col] = read']
  BY DEF SheetRead, Arrives
<1>2. sheet' \in [Rows -> [Cols -> Nat]]  BY <1>1
<1>3. \A r \in Rows, c \in Cols :
        sheet'[r][c] = IF r = row /\ c = col THEN read' ELSE sheet[r][c]
  BY <1>1
<1>4. RowsUsed' = RowsUsed \cup {row}  BY <1>1, <1>3 DEF RowsUsed
<1>5. ColsUsed' = ColsUsed \cup {col}  BY <1>1, <1>3 DEF ColsUsed
<1> QED  BY <1>1, <1>2, <1>4, <1>5

(* A stable sort has every cell, in order of its row. *)
LEMMA SortIsOrdered ==
  ASSUME NEW s \in Seq(HeldCell), NEW p \in Sorts(s)
  PROVE  /\ Len(s) \in Nat /\ DOMAIN s = 1..Len(s)
         /\ p \in [1..Len(s) -> 1..Len(s)]
         /\ \A i, j \in 1..Len(s) : i < j => s[p[i]].row <= s[p[j]].row
         /\ \A k \in 1..Len(s) : \E i \in 1..Len(s) : p[i] = k
<1>1. Len(s) \in Nat /\ DOMAIN s = 1..Len(s) /\ s \in [1..Len(s) -> HeldCell]
  BY LenProperties
<1>2. /\ p \in [1..Len(s) -> 1..Len(s)]
      /\ \A i, j \in 1..Len(s) : i < j => p[i] # p[j]
      /\ \A i, j \in 1..Len(s) : i < j => ~Before(s[p[j]], s[p[i]])
  BY <1>1, Zenon DEF Sorts
<1>3. \A i, j \in 1..Len(s) : p[i] = p[j] => i = j
  <2> SUFFICES ASSUME NEW i \in 1..Len(s), NEW j \in 1..Len(s), i # j PROVE p[i] # p[j]
    OBVIOUS
  <2>1. i < j \/ j < i  BY <1>1
  <2> QED  BY <1>2, <2>1
<1>4. p \in Injection(1..Len(s), 1..Len(s))  BY <1>2, <1>3, Fun_IsInj
<1>5. IsFiniteSet(1..Len(s))  BY <1>1, FS_Interval
<1>6. p \in Surjection(1..Len(s), 1..Len(s))  BY <1>4, <1>5, FS_Injection
<1>7. \A k \in 1..Len(s) : \E i \in 1..Len(s) : p[i] = k
  BY <1>6, ZenonT(60), Fun_SurjectionProperties
<1>8. ASSUME NEW i \in 1..Len(s), NEW j \in 1..Len(s), i < j
      PROVE  s[p[i]].row <= s[p[j]].row
  <2>1. s[p[i]] \in HeldCell /\ s[p[j]] \in HeldCell  BY <1>1, <1>2
  <2>2. s[p[i]].row \in Nat /\ s[p[j]].row \in Nat  BY <2>1,
                                                       SMTT(60) DEF HeldCell, Rows
  <2>3. ~(s[p[j]].row < s[p[i]].row)  BY <1>2, <1>8 DEF Before
  <2> QED  BY <2>2, <2>3
<1> QED  BY <1>1, <1>2, <1>7, <1>8

(* One more cell, one more row and column. *)
LEMMA OneMore ==
  ASSUME NEW s \in Seq(HeldCell), NEW x \in HeldCell
  PROVE  /\ Append(s, x) \in Seq(HeldCell) /\ Append(s, x) # <<>>
         /\ {Append(s, x)[i].row : i \in DOMAIN Append(s, x)}
              = {s[i].row : i \in DOMAIN s} \cup {x.row}
         /\ {Append(s, x)[i].col : i \in DOMAIN Append(s, x)}
              = {s[i].col : i \in DOMAIN s} \cup {x.col}
<1> DEFINE t == Append(s, x)
<1>1. /\ t \in Seq(HeldCell) /\ Len(s) \in Nat
      /\ DOMAIN s = 1..Len(s) /\ DOMAIN t = 1..(Len(s) + 1)
      /\ \A i \in 1..Len(s) : t[i] = s[i]
      /\ t[Len(s) + 1] = x
  BY LenProperties
<1> HIDE DEF t
<1>2. DOMAIN t = DOMAIN s \cup {Len(s) + 1}  BY <1>1
<1>3. \A i \in DOMAIN s : t[i] = s[i]  BY <1>1
<1>4. {t[i].row : i \in DOMAIN t} = {s[i].row : i \in DOMAIN s} \cup {x.row}
  <2>1. ASSUME NEW e \in {t[i].row : i \in DOMAIN t}
        PROVE  e \in {s[i].row : i \in DOMAIN s} \cup {x.row}
    <3>1. PICK i \in DOMAIN t : e = t[i].row  BY <2>1
    <3>2. CASE i \in DOMAIN s  BY <1>3, <3>1, <3>2
    <3>3. CASE i = Len(s) + 1  BY <1>1, <3>1, <3>3
    <3> QED  BY <1>2, <3>1, <3>2, <3>3
  <2>2. ASSUME NEW i \in DOMAIN s  PROVE s[i].row \in {t[k].row : k \in DOMAIN t}
    BY <1>2, <1>3
  <2>3. x.row \in {t[k].row : k \in DOMAIN t}
    <3>1. Len(s) + 1 \in DOMAIN t  BY <1>2
    <3> QED  BY <1>1, <3>1
  <2> QED  BY <2>1, <2>2, <2>3
<1>5. {t[i].col : i \in DOMAIN t} = {s[i].col : i \in DOMAIN s} \cup {x.col}
  <2>1. ASSUME NEW e \in {t[i].col : i \in DOMAIN t}
        PROVE  e \in {s[i].col : i \in DOMAIN s} \cup {x.col}
    <3>1. PICK i \in DOMAIN t : e = t[i].col  BY <2>1
    <3>2. CASE i \in DOMAIN s  BY <1>3, <3>1, <3>2
    <3>3. CASE i = Len(s) + 1  BY <1>1, <3>1, <3>3
    <3> QED  BY <1>2, <3>1, <3>2, <3>3
  <2>2. ASSUME NEW i \in DOMAIN s  PROVE s[i].col \in {t[k].col : k \in DOMAIN t}
    BY <1>2, <1>3
  <2>3. x.col \in {t[k].col : k \in DOMAIN t}
    <3>1. Len(s) + 1 \in DOMAIN t  BY <1>2
    <3> QED  BY <1>1, <3>1
  <2> QED  BY <2>1, <2>2, <2>3
<1>6. t # <<>>
  <2>1. Len(s) + 1 \in DOMAIN t  BY <1>2
  <2> QED  BY <2>1
<1> QED  BY <1>1, <1>4, <1>5, <1>6 DEF t

LEMMA CollectKeeps ==
  ASSUME FormulaInv, NEW row \in Rows, NEW col \in Cols, NEW length \in TextLengths,
         Collect(row, col, length)
  PROVE  FormulaInv'
<1>1. /\ SheetRead /\ Gathered /\ sparse /\ phase = "collecting" /\ sparse' = sparse
      /\ Arrives(row, col)
      /\ first' = Extent(row).lo /\ last' = Extent(row).hi /\ lastCol' = Greater(lastCol, col)
  BY DEF FormulaInv, Collect
<1>2. /\ read' \in Nat /\ sheet' \in [Rows -> [Cols -> Nat]]
      /\ RowsUsed' = RowsUsed \cup {row} /\ ColsUsed' = ColsUsed \cup {col}
  BY <1>1, ArrivesUsed
<1>3. RowsUsed' \subseteq 0..MaxRow /\ ColsUsed' \subseteq 0..MaxCol  BY <1>2, Grid
<1>4. phase' \in FormulaPhases  BY <1>1 DEF Collect, FormulaPhases
<1>5. SheetRead'  BY <1>1, <1>2, <1>4 DEF SheetRead
<1>6. /\ cells \in Seq(HeldCell)
      /\ RowsUsed = {cells[i].row : i \in DOMAIN cells}
      /\ ColsUsed = {cells[i].col : i \in DOMAIN cells}
      /\ IF cells = <<>> THEN first = Nowhere /\ last = Nowhere /\ lastCol = 0
         ELSE Spans /\ Fits(last - first + 1, lastCol + 1)
  BY <1>1 DEF Gathered
<1>7. row \in 0..MaxRow /\ col \in 0..MaxCol  BY Grid
<1>8. SpanOf(first', last', lastCol', RowsUsed', ColsUsed')
  <2>1. CASE cells = <<>>
    <3>1. RowsUsed = {} /\ ColsUsed = {}  BY <1>6, <2>1
    <3>2. first' = row /\ last' = row /\ lastCol' = col
      BY <1>1, <1>6, <1>7, <2>1, Grid DEF Extent, Greater, Nowhere
    <3> QED  BY <1>2, <1>7, <3>1, <3>2, Grid DEF SpanOf
  <2>2. CASE cells # <<>>
    <3>1. SpanOf(first, last, lastCol, RowsUsed, ColsUsed)  BY <1>6, <2>2 DEF Spans
    <3>2. first # Nowhere
      <4>1. first \in Nat  BY <3>1, Grid, SpanMeans, Zenon
      <4> QED  BY <4>1 DEF Nowhere
    <3>3. first' = Lesser(first, row) /\ last' = Greater(last, row)
      BY <1>1, <3>2 DEF Extent
    <3>4. SpanOf(Lesser(first, row), Greater(last, row), Greater(lastCol, col),
                 RowsUsed \cup {row}, ColsUsed \cup {col})
      <4>1. RowsUsed \subseteq 0..MaxRow /\ ColsUsed \subseteq 0..MaxCol  BY Grid
      <4> QED  BY <1>7, <3>1, <4>1, SpanGrows
    <3> QED  BY <1>1, <1>2, <3>3, <3>4
  <2> QED  BY <2>1, <2>2
<1>9. PICK f, l, c : f = first' /\ l = last' /\ c = lastCol'  OBVIOUS
<1>10. /\ Min(RowsUsed') = f /\ Max(RowsUsed') = l /\ Max(ColsUsed') = c
       /\ f \in Nat /\ l \in Nat /\ c \in Nat /\ f <= l
  <2>1. SpanOf(f, l, c, RowsUsed', ColsUsed')  BY <1>8, <1>9
  <2> QED  BY <1>3, <2>1, SpanMeans
<1> DEFINE m == l - f + 1
           n == c + 1
<1>11. /\ m \in Nat /\ n \in Nat /\ last' - first' + 1 = m /\ lastCol' + 1 = n
       /\ (Max(RowsUsed') - Min(RowsUsed') + 1) * (Max(ColsUsed') + 1) = m * n
  <2>1. m \in Nat /\ n \in Nat  BY <1>10
  <2>2. last' - first' + 1 = m /\ lastCol' + 1 = n  BY <1>9
  <2> QED  BY <1>10, <2>1, <2>2
<1> HIDE DEF m, n
<1>12. CASE ~Fits(m, n)
  <2>1. phase' = "overCells"  BY <1>11, <1>12 DEF Collect
  <2>2. m * n > MaxDenseCells  BY <1>11, <1>12, FitsMeans
  <2>3. DenseWithinBudget'  BY <1>11, <2>1, <2>2 DEF DenseWithinBudget
  <2>4. Gathered'  BY <2>1 DEF Gathered
  <2> QED  BY <1>5, <2>3, <2>4 DEF FormulaInv
<1>13. CASE Fits(m, n) /\ phase' = "overBytes"
  <2>1. DenseWithinBudget' /\ Gathered'  BY <1>13 DEF DenseWithinBudget, Gathered
  <2> QED  BY <1>5, <2>1 DEF FormulaInv
<1>14. CASE Fits(m, n) /\ phase' # "overBytes"
  <2> DEFINE new == [row |-> row, col |-> col, id |-> read + 1, length |-> length]
  <2>1. phase' = "collecting" /\ cells' = Append(cells, new)
    BY <1>1, <1>11, <1>14 DEF Collect
  <2>2. new \in HeldCell /\ new.row = row /\ new.col = col
    BY <1>1 DEF HeldCell, SheetRead
  <2> HIDE DEF new
  <2>3. /\ cells' \in Seq(HeldCell) /\ cells' # <<>>
        /\ {cells'[i].row : i \in DOMAIN cells'} = RowsUsed \cup {row}
        /\ {cells'[i].col : i \in DOMAIN cells'} = ColsUsed \cup {col}
    BY <1>6, <2>1, <2>2, OneMore
  <2>5. RowsUsed' = {cells'[i].row : i \in DOMAIN cells'}  BY <1>2, <2>3
  <2>6. ColsUsed' = {cells'[i].col : i \in DOMAIN cells'}  BY <1>2, <2>3
  <2>8. Gathered'  BY <1>8, <1>11, <1>14, <2>3, <2>5, <2>6 DEF Gathered, Spans
  <2>9. DenseWithinBudget'  BY <2>1 DEF DenseWithinBudget
  <2> QED  BY <1>5, <2>8, <2>9 DEF FormulaInv
<1> QED  BY <1>12, <1>13, <1>14

LEMMA InRangeKeeps ==
  ASSUME FormulaInv, NEW row \in Rows, NEW col \in Cols, InRange(row, col)
  PROVE  FormulaInv'
<1>1. /\ SheetRead /\ sparse = FALSE /\ sparse' = sparse
      /\ phase = "collecting" /\ phase' = phase /\ Arrives(row, col)
  BY DEF FormulaInv, InRange, SheetRead
<1>2. /\ read' \in Nat /\ sheet' \in [Rows -> [Cols -> Nat]]
      /\ RowsUsed' = RowsUsed \cup {row} /\ ColsUsed' = ColsUsed \cup {col}
  BY <1>1, ArrivesUsed
<1>3. SheetRead'  BY <1>1, <1>2 DEF SheetRead
<1>4. Gathered'  BY <1>1 DEF Gathered
<1>5. DenseWithinBudget'  BY <1>1 DEF DenseWithinBudget
<1> QED  BY <1>3, <1>4, <1>5 DEF FormulaInv

(* emit_sparse_formulas finds the extent push has checked. *)
LEMMA SparseStarts ==
  ASSUME FormulaInv, EmitSparse
  PROVE  /\ phase' = "sending"
         /\ first' = first /\ last' = last /\ lastCol' = lastCol
         /\ header' = [corners |-> <<first, Min(ColsUsed), last, lastCol>>,
                       total |-> (last - first + 1) * (lastCol - Min(ColsUsed) + 1)]
         /\ \E p \in Sorts(cells) : cells' = [i \in DOMAIN cells |-> cells[p[i]]]
<1>1. /\ SheetRead /\ sparse /\ phase = "collecting" /\ cells # <<>>
      /\ cells \in Seq(HeldCell)
      /\ RowsUsed = {cells[i].row : i \in DOMAIN cells}
      /\ ColsUsed = {cells[i].col : i \in DOMAIN cells}
      /\ SpanOf(first, last, lastCol, RowsUsed, ColsUsed)
      /\ Fits(last - first + 1, lastCol + 1)
      /\ read' = read /\ sheet' = sheet /\ sparse' = sparse
  BY DEF FormulaInv, EmitSparse, Gathered, Spans
<1>2. /\ Min(RowsUsed) = first /\ Max(RowsUsed) = last /\ Max(ColsUsed) = lastCol
      /\ first \in Nat /\ last \in Nat /\ lastCol \in Nat /\ first <= last
  BY <1>1, Grid, SpanMeans
<1>3. PICK p \in Sorts(cells) :
        LET sorted == [i \in DOMAIN cells |-> cells[p[i]]]
            top == sorted[1].row
            bottom == sorted[Len(sorted)].row IN
        /\ cells' = sorted
        /\ Fits(bottom - top + 1, Max(ColsUsed) + 1) =>
             phase' = "sending" /\ Announce(top, bottom, Min(ColsUsed), Max(ColsUsed))
  BY <1>1, Zenon DEF EmitSparse
<1> DEFINE sorted == [i \in DOMAIN cells |-> cells[p[i]]]
           top == sorted[1].row
           bottom == sorted[Len(sorted)].row
           n == Len(cells)
<1>4. /\ n \in Nat /\ DOMAIN cells = 1..n /\ p \in [1..n -> 1..n]
      /\ \A i, j \in 1..n : i < j => cells[p[i]].row <= cells[p[j]].row
      /\ \A k \in 1..n : \E i \in 1..n : p[i] = k
  BY <1>1, SortIsOrdered
<1>5. n # 0  BY <1>1, EmptySeq
<1>6. Len(sorted) = n
  <2>1. sorted = [i \in 1..n |-> cells[p[i]]]  BY <1>4
  <2> HIDE DEF n
  <2> QED  BY <1>4, <2>1
<1>7. 1 \in 1..n /\ n \in 1..n  BY <1>4, <1>5
<1>8. top = cells[p[1]].row /\ bottom = cells[p[n]].row  BY <1>4, <1>6, <1>7
<1> HIDE DEF n, sorted
<1>9. \A r \in RowsUsed : \E i \in 1..n : r = cells[p[i]].row
  <2> SUFFICES ASSUME NEW r \in RowsUsed  PROVE \E i \in 1..n : r = cells[p[i]].row
    OBVIOUS
  <2>1. PICK k \in DOMAIN cells : r = cells[k].row  BY <1>1
  <2>2. PICK i \in 1..n : p[i] = k  BY <1>4
  <2> QED  BY <2>1, <2>2
<1>10. top \in RowsUsed /\ bottom \in RowsUsed
  BY <1>1, <1>4, <1>7, <1>8
<1>11. \A r \in RowsUsed : r \in Nat  BY Grid
<1>12. ASSUME NEW r \in RowsUsed  PROVE top <= r /\ r <= bottom
  <2>1. PICK i \in 1..n : r = cells[p[i]].row  BY <1>9
  <2>2. top <= r
    <3>1. CASE i = 1  BY <1>8, <1>11, <2>1, <3>1
    <3>2. CASE i # 1
      <4>1. 1 < i  BY <1>4, <3>2
      <4> QED  BY <1>4, <1>7, <1>8, <2>1, <4>1
    <3> QED  BY <3>1, <3>2
  <2>3. r <= bottom
    <3>1. CASE i = n  BY <1>8, <1>11, <2>1, <3>1
    <3>2. CASE i # n
      <4>1. i < n  BY <1>4, <3>2
      <4> QED  BY <1>4, <1>7, <1>8, <2>1, <4>1
    <3> QED  BY <3>1, <3>2
  <2> QED  BY <2>2, <2>3
<1>13. Min(RowsUsed) = top /\ Max(RowsUsed) = bottom
  BY <1>10, <1>12, Grid, ExtremeIs
<1>14. phase' = "sending" /\ Announce(first, last, Min(ColsUsed), lastCol)
  <2>1. bottom - top + 1 = last - first + 1 /\ Max(ColsUsed) + 1 = lastCol + 1
    BY <1>2, <1>13
  <2>2. Fits(bottom - top + 1, Max(ColsUsed) + 1)  BY <1>1, <2>1
  <2>3. phase' = "sending" /\ Announce(top, bottom, Min(ColsUsed), Max(ColsUsed))
    BY <1>3, <2>2 DEF sorted
  <2>4. top = first /\ bottom = last /\ Max(ColsUsed) = lastCol  BY <1>2, <1>13
  <2> QED  BY <2>3, <2>4
<1>15. cells' = [i \in DOMAIN cells |-> cells[p[i]]]  BY <1>3
<1> QED  BY <1>14, <1>15, Zenon DEF Announce

LEMMA EmitSparseKeeps ==
  ASSUME FormulaInv, EmitSparse
  PROVE  FormulaInv'
<1>1. /\ SheetRead /\ Fits(last - first + 1, lastCol + 1)
      /\ SpanOf(first, last, lastCol, RowsUsed, ColsUsed)
      /\ read' = read /\ sheet' = sheet /\ sparse' = sparse
  BY DEF FormulaInv, EmitSparse, Gathered, Spans
<1>2. /\ Min(RowsUsed) = first /\ Max(RowsUsed) = last /\ Max(ColsUsed) = lastCol
      /\ first \in Nat /\ last \in Nat /\ lastCol \in Nat /\ first <= last
  BY <1>1, Grid, SpanMeans
<1>3. phase' = "sending"  BY SparseStarts
<1>4. RowsUsed' = RowsUsed /\ ColsUsed' = ColsUsed  BY <1>1 DEF RowsUsed, ColsUsed
<1>5. SheetRead'  BY <1>1, <1>3, <1>4 DEF SheetRead, FormulaPhases
<1>6. Gathered'  BY <1>3 DEF Gathered
<1>7. DenseWithinBudget'
  <2>1. last - first + 1 \in Nat /\ lastCol + 1 \in Nat  BY <1>2
  <2>2. MaxDenseCells < Word - 1 => (last - first + 1) * (lastCol + 1) <= MaxDenseCells
    BY <1>1, <2>1, FitsMeans
  <2> QED  BY <1>2, <1>3, <1>4, <2>2 DEF DenseWithinBudget
<1> QED  BY <1>5, <1>6, <1>7 DEF FormulaInv

LEMMA EmitDenseKeeps ==
  ASSUME FormulaInv, EmitDense
  PROVE  FormulaInv'
<1>1. /\ SheetRead /\ sparse = FALSE /\ read > 0
      /\ read' = read /\ sheet' = sheet /\ sparse' = sparse
  BY DEF FormulaInv, EmitDense, SheetRead
<1>2. RowsUsed # {} /\ ColsUsed # {}  BY <1>1 DEF SheetRead
<1>3. /\ Min(RowsUsed) \in RowsUsed /\ Max(RowsUsed) \in RowsUsed
      /\ \A r \in RowsUsed : r <= Max(RowsUsed)
  BY <1>2, Grid, Extremes
<1>4. Min(ColsUsed) \in ColsUsed /\ Max(ColsUsed) \in ColsUsed
  BY <1>2, Grid, Extremes
<1>5. \A x \in RowsUsed : x \in Nat  BY Grid
<1>6. \A x \in ColsUsed : x \in Nat  BY Grid
<1> DEFINE m == Max(RowsUsed) - Min(RowsUsed) + 1
           n == Max(ColsUsed) + 1
<1>7. m \in Nat /\ n \in Nat
  <2>1. PICK a, b, c \in Nat : a = Min(RowsUsed) /\ b = Max(RowsUsed) /\ c = Max(ColsUsed)
    BY <1>3, <1>4, <1>5, <1>6
  <2>2. a <= b  BY <1>3, <2>1
  <2>3. m = b - a + 1 /\ n = c + 1  BY <2>1
  <2> QED  BY <2>2, <2>3
<1>8. Min(ColsUsed) + (Max(ColsUsed) - Min(ColsUsed) + 1) = n
  <2>1. PICK a, b \in Nat : a = Min(ColsUsed) /\ b = Max(ColsUsed)
    BY <1>4, <1>6
  <2> QED  BY <2>1
<1>9. IF Fits(m, n) THEN phase' = "sending" ELSE phase' = "overCells"
  BY <1>8, Zenon DEF EmitDense
<1>10. RowsUsed' = RowsUsed /\ ColsUsed' = ColsUsed  BY <1>1 DEF RowsUsed, ColsUsed
<1>11. SheetRead'  BY <1>1, <1>9, <1>10 DEF SheetRead, FormulaPhases
<1>12. Gathered'  BY <1>1 DEF Gathered
<1>13. DenseWithinBudget'
  <2>1. /\ Fits(m, n) /\ MaxDenseCells < Word - 1 => m * n <= MaxDenseCells
        /\ ~Fits(m, n) => m * n > MaxDenseCells
    BY <1>7, FitsMeans
  <2> QED  BY <1>9, <1>10, <2>1 DEF DenseWithinBudget
<1> QED  BY <1>11, <1>12, <1>13 DEF FormulaInv

(* The steps that leave the sheet alone. *)
LEMMA FormulaQuiet ==
  ASSUME FormulaInv, UNCHANGED <<sparse, read, sheet>>,
         \/ phase' \in {"ended", "failed", "gone"}
         \/ phase' = phase /\ phase # "collecting"
         \/ phase' = phase /\ UNCHANGED collected
  PROVE  FormulaInv'
<1>1. SheetRead /\ Gathered /\ DenseWithinBudget  BY DEF FormulaInv
<1>2. RowsUsed' = RowsUsed /\ ColsUsed' = ColsUsed  BY DEF RowsUsed, ColsUsed
<1>3. SheetRead'  BY <1>1, <1>2 DEF SheetRead, FormulaPhases
<1>4. Gathered'  BY <1>1, <1>2 DEF Gathered, Spans, collected
<1>5. DenseWithinBudget'  BY <1>1, <1>2 DEF DenseWithinBudget
<1> QED  BY <1>3, <1>4, <1>5 DEF FormulaInv

LEMMA FormulaStart == Init => FormulaInv
<1> SUFFICES ASSUME Init PROVE FormulaInv
  OBVIOUS
<1>1. /\ sparse \in BOOLEAN /\ phase = "collecting" /\ read = 0 /\ cells = <<>>
      /\ first = Nowhere /\ last = Nowhere /\ lastCol = 0
      /\ sheet = [r \in Rows |-> [c \in Cols |-> 0]]
  BY DEF Init
<1>2. RowsUsed = {} /\ ColsUsed = {}  BY <1>1 DEF RowsUsed, ColsUsed
<1>3. SheetRead  BY <1>1 DEF SheetRead, FormulaPhases
<1>4. Gathered
  <2>1. DOMAIN cells = {} /\ cells \in Seq(HeldCell)  BY <1>1
  <2> QED  BY <1>1, <1>2, <2>1 DEF Gathered
<1>5. DenseWithinBudget  BY <1>1 DEF DenseWithinBudget
<1> QED  BY <1>3, <1>4, <1>5 DEF FormulaInv

LEMMA FormulaStep == FormulaInv /\ [Next]_vars => FormulaInv'
<1> SUFFICES ASSUME FormulaInv, [Next]_vars  PROVE FormulaInv'
  OBVIOUS
<1>1. ASSUME NEW row \in Rows, NEW col \in Cols, InRange(row, col)  PROVE FormulaInv'
  BY <1>1, InRangeKeeps
<1>2. ASSUME NEW row \in Rows, NEW col \in Cols, NEW length \in TextLengths,
             Collect(row, col, length)
      PROVE  FormulaInv'
  BY <1>2, CollectKeeps
<1>3. CASE EmitSparse  BY <1>3, EmitSparseKeeps
<1>4. CASE EmitDense  BY <1>4, EmitDenseKeeps
<1>5. CASE ReadFails \/ NoFormulas \/ AllSent \/ ClientGone
  BY <1>5, FormulaQuiet DEF ReadFails, NoFormulas, AllSent, ClientGone
<1>6. CASE SendRow
  BY <1>6, FormulaQuiet DEF SendRow
<1>7. CASE UNCHANGED vars
  BY <1>7, FormulaQuiet DEF vars
<1> QED  BY <1>1, <1>2, <1>3, <1>4, <1>5, <1>6, <1>7 DEF Next

(* The extent FormulaCollector keeps is the one emit_sparse_formulas works *)
(* out, and every budget decision is about it.                             *)
THEOREM FormulaInvariance == Spec => []FormulaInv
BY FormulaStart, FormulaStep, PTL DEF Spec

(* No formula stream passes max_dense_cells or is refused inside it, and   *)
(* the check of emit_sparse_formulas never fires after push's (check_dense,*)
(* FormulaCollector::push).                                                *)
THEOREM DenseCorrect == Spec => []DenseWithinBudget
<1>1. FormulaInv => DenseWithinBudget  BY DEF FormulaInv
<1> QED  BY <1>1, FormulaInvariance, PTL

-----------------------------------------------------------------------------
(* FormulaStream, its rows.                                                *)

(* Of two formulas at one cell, the one read later stands behind. *)
Orderly(s) ==
    \A i, j \in DOMAIN s :
        i < j /\ s[i].row = s[j].row /\ s[i].col = s[j].col => s[i].id < s[j].id

(* From a row on, s holds the formulas of the sheet g, and none later. *)
LatestIn(s, g, from) ==
    /\ \A i \in DOMAIN s : s[i].id <= g[s[i].row][s[i].col]
    /\ \A r \in Rows, c \in Cols : r >= from /\ g[r][c] # 0 =>
          \E i \in DOMAIN s : s[i].row = r /\ s[i].col = c /\ s[i].id = g[r][c]

Gathering ==
    phase = "collecting" =>
        /\ wire = <<>> /\ header = NoHeader
        /\ IF sparse
           THEN /\ \A i \in DOMAIN cells : cells[i].id <= read
                /\ Orderly(cells) /\ LatestIn(cells, sheet, 0)
           ELSE cells = <<>> /\ (read = 0 => RowsUsed = {})

(* What the collector still holds is what is still to be sent. *)
Rest(from) ==
    /\ cells \in Seq(HeldCell)
    /\ \A i, j \in DOMAIN cells : i < j => cells[i].row <= cells[j].row
    /\ \A i \in DOMAIN cells : from <= cells[i].row /\ cells[i].row <= last
    /\ Orderly(cells) /\ LatestIn(cells, sheet, from)

Started ==
    header = [corners |-> <<first, Min(ColsUsed), last, lastCol>>,
              total |-> (last - first + 1) * (lastCol - Min(ColsUsed) + 1)]
Sending ==
    phase = "sending" =>
        /\ Spans /\ Started
        /\ wire \in Seq([0..lastCol -> Nat]) /\ Len(wire) <= last - first + 1
        /\ IF sparse THEN Rest(first + Len(wire)) ELSE cells = <<>>

RowsInv == FormulaInv /\ Gathering /\ Sending /\ RowsFaithful

(* The first of the rows still to be sent is in front. *)
LEMMA FrontRow ==
  ASSUME NEW row \in Nat, Rest(row)
  PROVE  /\ Taken(row) \in 0..Len(cells) /\ Len(cells) \in Nat /\ DOMAIN cells = 1..Len(cells)
         /\ \A i \in 1..Taken(row) : cells[i].row = row
         /\ \A i \in DOMAIN cells : ~(i <= Taken(row)) => row < cells[i].row
<1> DEFINE N == Len(cells)
           Leads(n) == /\ \A i \in 1..n : cells[i].row = row
                       /\ n < N => cells[n + 1].row # row
           Behind == {k \in 1..N : cells[k].row # row}
<1>1. /\ N \in Nat /\ DOMAIN cells = 1..N
      /\ \A i \in 1..N : cells[i].row \in Nat /\ row <= cells[i].row
      /\ \A i, j \in 1..N : i < j => cells[i].row <= cells[j].row
  <2>1. cells \in Seq(HeldCell)  BY DEF Rest
  <2>2. N \in Nat /\ DOMAIN cells = 1..N /\ \A i \in 1..N : cells[i] \in HeldCell
    BY <2>1, ElementOfSeq, LenProperties
  <2>3. \A i \in 1..N : cells[i].row \in Nat  BY <2>2, Grid DEF HeldCell
  <2> QED  BY <2>2, <2>3 DEF Rest
<1> HIDE DEF N
<1>2. \E n \in 0..N : Leads(n)
  <2>1. CASE Behind = {}
    <3>1. Leads(N) /\ N \in 0..N  BY <1>1, <2>1
    <3> QED  BY <3>1
  <2>2. CASE Behind # {}
    <3>1. Behind \subseteq Nat  BY <1>1
    <3>2. PICK k \in Behind : \A x \in Behind : k <= x  BY <2>2, <3>1, LeastMember, Zenon
    <3>3. k \in 1..N /\ k - 1 \in 0..N /\ (k - 1) + 1 = k  BY <1>1
    <3>4. ASSUME NEW i \in 1..(k - 1)  PROVE cells[i].row = row
      <4>1. i \in 1..N /\ ~(k <= i)  BY <1>1, <3>3
      <4>2. i \notin Behind  BY <3>2, <4>1
      <4> QED  BY <4>1, <4>2
    <3>5. Leads(k - 1)  BY <3>2, <3>3, <3>4
    <3> QED  BY <3>3, <3>5
  <2> QED  BY <2>1, <2>2
<1>3. Taken(row) = CHOOSE n \in 0..N : Leads(n)  BY DEF Taken, N
<1>4. PICK n \in 0..N : n = Taken(row) /\ Leads(n)
  BY <1>2, <1>3
<1>5. \A i \in 1..n : cells[i].row = row  BY <1>4
<1>6. ASSUME NEW i \in 1..N, ~(i <= n)  PROVE row < cells[i].row
  <2>1. n < N /\ n + 1 \in 1..N /\ n + 1 <= i  BY <1>1, <1>6
  <2>2. cells[n + 1].row # row  BY <1>4, <2>1
  <2>3. row < cells[n + 1].row  BY <1>1, <2>1, <2>2
  <2>4. cells[n + 1].row <= cells[i].row
    <3>1. n + 1 = i \/ n + 1 < i  BY <1>1, <2>1
    <3>2. CASE n + 1 = i  BY <1>1, <2>1, <3>2
    <3>3. CASE n + 1 < i  BY <1>1, <2>1, <3>3
    <3> QED  BY <3>1, <3>2, <3>3
  <2> QED  BY <1>1, <2>1, <2>3, <2>4
<1> QED  BY <1>1, <1>4, <1>5, <1>6 DEF N

(* The row built of it is the sheet's. *)
LEMMA RowIsLatest ==
  ASSUME NEW row \in Rows, Rest(row), sparse, lastCol \in Nat,
         sheet \in [Rows -> [Cols -> Nat]], NEW c \in Cols, c <= lastCol
  PROVE  RowOf(row, Taken(row))[c] = sheet[row][c]
<1>1. PICK n \in Nat : /\ n = Taken(row) /\ n \in 0..Len(cells) /\ Len(cells) \in Nat
                       /\ DOMAIN cells = 1..Len(cells)
                       /\ \A i \in 1..n : cells[i].row = row
                       /\ \A i \in DOMAIN cells : ~(i <= n) => row < cells[i].row
  <2>1. row \in Nat  BY Grid
  <2> QED  BY <2>1, FrontRow
<1> DEFINE at == {i \in 1..n : cells[i].col = c}
<1>2. RowOf(row, n)[c] = IF at = {} THEN 0 ELSE cells[Max(at)].id
  <2>1. c \in 0..lastCol  BY Grid
  <2> QED  BY <2>1 DEF RowOf
<1>3. /\ \A i \in DOMAIN cells : cells[i].id <= sheet[cells[i].row][cells[i].col]
      /\ sheet[row][c] # 0 =>
            \E i \in DOMAIN cells : cells[i].row = row /\ cells[i].col = c
                                    /\ cells[i].id = sheet[row][c]
      /\ Orderly(cells)
      /\ \A i \in DOMAIN cells : cells[i].id \in Nat /\ cells[i].row \in Nat
  <2>1. row >= row /\ row \in Nat  BY Grid
  <2>2. cells \in Seq(HeldCell)  BY DEF Rest
  <2>3. \A i \in DOMAIN cells : cells[i] \in HeldCell  BY <1>1, <2>2, ElementOfSeq
  <2>4. \A i \in DOMAIN cells : cells[i].id \in Nat /\ cells[i].row \in Nat
    BY <2>3, Grid, SMTT(60) DEF HeldCell
  <2> QED  BY <2>1, <2>4 DEF Rest, LatestIn
<1>4. sheet[row][c] # 0 => \E i \in at : cells[i].id = sheet[row][c]
  <2> SUFFICES ASSUME sheet[row][c] # 0  PROVE \E i \in at : cells[i].id = sheet[row][c]
    OBVIOUS
  <2>1. PICK i \in DOMAIN cells : cells[i].row = row /\ cells[i].col = c
                                  /\ cells[i].id = sheet[row][c]
    BY <1>3
  <2>2. row \in Nat  BY Grid
  <2>3. i <= n  BY <1>1, <2>1, <2>2
  <2>4. i \in 1..n  BY <1>1, <2>3
  <2> QED  BY <2>1, <2>4
<1>5. CASE at = {}  BY <1>1, <1>2, <1>4, <1>5
<1>6. CASE at # {}
  <2>1. at \subseteq 0..n  OBVIOUS
  <2> HIDE DEF at
  <2>2. PICK m \in at : m = Max(at) /\ \A x \in at : x <= m
    BY <1>6, <2>1, Extremes
  <2>3. \A i \in at : i \in 1..n /\ i \in DOMAIN cells /\ cells[i].row = row /\ cells[i].col = c
    BY <1>1 DEF at
  <2>4. cells[m].id <= sheet[row][c] /\ cells[m].id \in Nat /\ sheet[row][c] \in Nat
    BY <1>3, <2>2, <2>3
  <2>5. cells[m].id = sheet[row][c]
    <3>1. CASE sheet[row][c] = 0  BY <2>4, <3>1
    <3>2. CASE sheet[row][c] # 0
      <4>1. PICK i \in at : cells[i].id = sheet[row][c]  BY <1>4, <3>2
      <4>2. i = m \/ i < m
        <5>1. i <= m /\ i \in Nat /\ m \in Nat  BY <2>2, <2>3, <4>1
        <5> QED  BY <5>1
      <4>3. ASSUME i < m  PROVE FALSE
        <5>1. cells[i].id < cells[m].id  BY <1>3, <2>2, <2>3, <4>3 DEF Orderly
        <5> QED  BY <2>4, <4>1, <5>1
      <4> QED  BY <4>1, <4>2, <4>3
    <3> QED  BY <3>1, <3>2
  <2> QED  BY <1>1, <1>2, <1>6, <2>2, <2>5
<1> QED  BY <1>5, <1>6

(* And what is left behind it is the rest of the sheet. *)
LEMMA RestShrinks ==
  ASSUME NEW row \in Rows, Rest(row), last' = last, sheet' = sheet,
         cells' = SubSeq(cells, Taken(row) + 1, Len(cells))
  PROVE  Rest(row + 1)'
<1>0. row \in Nat  BY Grid
<1>1. PICK n \in Nat, N \in Nat :
           /\ n = Taken(row) /\ N = Len(cells) /\ n <= N /\ DOMAIN cells = 1..N
           /\ \A i \in 1..n : cells[i].row = row
           /\ \A i \in DOMAIN cells : ~(i <= n) => row < cells[i].row
  <2>1. /\ Taken(row) \in 0..Len(cells) /\ Len(cells) \in Nat /\ DOMAIN cells = 1..Len(cells)
        /\ \A i \in 1..Taken(row) : cells[i].row = row
        /\ \A i \in DOMAIN cells : ~(i <= Taken(row)) => row < cells[i].row
    BY <1>0, FrontRow
  <2>2. Taken(row) \in Nat /\ Taken(row) <= Len(cells)  BY <2>1
  <2> QED  BY <2>1, <2>2, Zenon
<1>2. cells \in Seq(HeldCell) /\ \A i \in DOMAIN cells : cells[i] \in HeldCell
  <2>1. cells \in Seq(HeldCell)  BY DEF Rest
  <2> QED  BY <1>1, <2>1, ElementOfSeq
<1>3. /\ cells' \in Seq(HeldCell) /\ DOMAIN cells' = 1..(N - n)
      /\ \A i \in 1..(N - n) : n + i \in 1..N /\ cells'[i] = cells[n + i]
  <2> DEFINE t == SubSeq(cells, n + 1, N)
  <2>1. cells' = t  BY <1>1
  <2>2. n + 1 \in Int /\ N \in Int /\ \A i \in (n + 1)..N : cells[i] \in HeldCell
    BY <1>1, <1>2
  <2>3. /\ t \in Seq(HeldCell)
        /\ Len(t) = IF n + 1 <= N THEN N - (n + 1) + 1 ELSE 0
        /\ \A i \in 1..(N - (n + 1) + 1) : t[i] = cells[(n + 1) + i - 1]
    BY <2>2, SubSeqProperties
  <2> HIDE DEF t
  <2>4. Len(t) = N - n /\ N - (n + 1) + 1 = N - n  BY <1>1, <2>3
  <2>5. DOMAIN t = 1..(N - n)  BY <2>3, <2>4, LenProperties
  <2>6. ASSUME NEW i \in 1..(N - n)  PROVE n + i \in 1..N /\ t[i] = cells[n + i]
    <3>1. n + i \in 1..N /\ (n + 1) + i - 1 = n + i  BY <1>1
    <3> QED  BY <2>3, <2>4, <3>1
  <2> QED  BY <2>1, <2>3, <2>5, <2>6
<1>4. /\ \A i, j \in 1..N : i < j => cells[i].row <= cells[j].row
      /\ \A i \in 1..N : row <= cells[i].row /\ cells[i].row <= last
      /\ Orderly(cells) /\ LatestIn(cells, sheet, row)
  BY <1>1 DEF Rest
<1>5. \A i, j \in DOMAIN cells' : i < j => cells'[i].row <= cells'[j].row
  <2> SUFFICES ASSUME NEW i \in 1..(N - n), NEW j \in 1..(N - n), i < j
               PROVE  cells'[i].row <= cells'[j].row
    BY <1>3
  <2>1. /\ n + i \in 1..N /\ n + j \in 1..N /\ n + i < n + j
        /\ cells'[i] = cells[n + i] /\ cells'[j] = cells[n + j]
    BY <1>3, SMTT(60)
  <2> QED  BY <1>4, <2>1
<1>6. \A i \in DOMAIN cells' : row + 1 <= cells'[i].row /\ cells'[i].row <= last'
  <2> SUFFICES ASSUME NEW i \in 1..(N - n)
               PROVE  row + 1 <= cells[n + i].row /\ cells[n + i].row <= last
    BY <1>3
  <2>1. n + i \in 1..N /\ ~(n + i <= n)  BY <1>3
  <2>2. cells[n + i].row \in Nat  BY <1>1, <1>2, <2>1, Grid DEF HeldCell
  <2>3. row < cells[n + i].row  BY <1>1, <2>1
  <2> QED  BY <1>0, <1>4, <2>1, <2>2, <2>3
<1>7. Orderly(cells')
  <2> SUFFICES ASSUME NEW i \in DOMAIN cells', NEW j \in DOMAIN cells', i < j,
                      cells'[i].row = cells'[j].row, cells'[i].col = cells'[j].col
               PROVE  cells'[i].id < cells'[j].id
    BY DEF Orderly
  <2>1. /\ n + i \in DOMAIN cells /\ n + j \in DOMAIN cells /\ n + i < n + j
        /\ cells'[i] = cells[n + i] /\ cells'[j] = cells[n + j]
    <3>1. i \in 1..(N - n) /\ j \in 1..(N - n)  BY <1>3
    <3>2. /\ n + i \in 1..N /\ n + j \in 1..N /\ n + i < n + j  BY <3>1
    <3>3. cells'[i] = cells[n + i] /\ cells'[j] = cells[n + j]  BY <1>3, <3>1
    <3> QED  BY <1>1, <3>2, <3>3
  <2> QED  BY <1>4, <2>1 DEF Orderly
<1>8. LatestIn(cells', sheet, row + 1)
  <2>1. \A i \in DOMAIN cells' : cells'[i].id <= sheet[cells'[i].row][cells'[i].col]
    BY <1>1, <1>3, <1>4, SMTT(60) DEF LatestIn
  <2>2. ASSUME NEW r \in Rows, NEW c \in Cols, r >= row + 1, sheet[r][c] # 0
        PROVE  \E i \in DOMAIN cells' : /\ cells'[i].row = r /\ cells'[i].col = c
                                        /\ cells'[i].id = sheet[r][c]
    <3>1. r \in Nat /\ r >= row /\ r # row  BY <1>0, <2>2, Grid
    <3>2. PICK k \in DOMAIN cells : /\ cells[k].row = r /\ cells[k].col = c
                                    /\ cells[k].id = sheet[r][c]
      BY <1>4, <2>2, <3>1 DEF LatestIn
    <3>3. ~(k <= n)  BY <1>1, <3>1, <3>2
    <3>4. k - n \in 1..(N - n) /\ n + (k - n) = k  BY <1>1, <3>3
    <3> QED  BY <1>3, <3>2, <3>4
  <2> QED  BY <2>1, <2>2 DEF LatestIn
<1> QED  BY <1>3, <1>5, <1>6, <1>7, <1>8 DEF Rest

(* push keeps the formulas in the order they are read. *)
LEMMA CollectGathers ==
  ASSUME RowsInv, NEW row \in Rows, NEW col \in Cols, NEW length \in TextLengths,
         Collect(row, col, length)
  PROVE  Gathering' /\ Sending' /\ RowsFaithful'
<1>1. /\ sparse /\ phase = "collecting" /\ sparse' = sparse /\ header' = header /\ wire' = wire
      /\ read \in Nat /\ read' = read + 1
      /\ sheet \in [Rows -> [Cols -> Nat]] /\ sheet' = [sheet EXCEPT ![row][col] = read + 1]
  BY DEF RowsInv, FormulaInv, SheetRead, Collect, Arrives
<1>2. /\ wire = <<>> /\ header = NoHeader /\ cells \in Seq(HeldCell)
      /\ \A i \in DOMAIN cells : cells[i].id <= read
      /\ Orderly(cells) /\ LatestIn(cells, sheet, 0)
  BY <1>1 DEF RowsInv, FormulaInv, Gathered, Gathering
<1>3. phase' \in {"collecting", "overCells", "overBytes"}  BY <1>1 DEF Collect
<1>4. Sending'  BY <1>3 DEF Sending
<1>5. RowsFaithful'
  <2>1. DOMAIN wire' = {}  BY <1>1, <1>2
  <2> QED  BY <1>3, <2>1 DEF RowsFaithful
<1>6. Gathering'
  <2> SUFFICES ASSUME phase' = "collecting"  PROVE Gathering'
    BY DEF Gathering
  <2> DEFINE new == [row |-> row, col |-> col, id |-> read + 1, length |-> length]
             t == Append(cells, new)
             n == Len(cells)
  <2>1. cells' = t  BY <1>1 DEF Collect
  <2>2. new.row = row /\ new.col = col /\ new.id = read + 1  OBVIOUS
  <2> HIDE DEF new
  <2>3. /\ n \in Nat /\ DOMAIN cells = 1..n /\ DOMAIN t = 1..(n + 1)
        /\ \A i \in 1..n : t[i] = cells[i]
        /\ t[n + 1] = new
    BY <1>2, LenProperties
  <2>4. \A i \in 1..n : /\ cells[i].id \in Nat /\ cells[i].id <= read
                        /\ cells[i].row \in Rows /\ cells[i].col \in Cols
    <3>1. \A i \in 1..n : cells[i] \in HeldCell  BY <1>2, <2>3, ElementOfSeq
    <3> QED  BY <1>2, <2>3, <3>1 DEF HeldCell
  <2> HIDE DEF t, n
  <2>5. \A i \in 1..(n + 1) : i \in 1..n \/ i = n + 1  BY <2>3
  <2>6. \A i \in DOMAIN t : t[i].id <= read + 1  BY <1>1, <2>2, <2>3, <2>4, <2>5
  <2>7. Orderly(t)
    <3> SUFFICES ASSUME NEW i \in 1..(n + 1), NEW j \in 1..(n + 1), i < j,
                        t[i].row = t[j].row, t[i].col = t[j].col
                 PROVE  t[i].id < t[j].id
      BY <2>3 DEF Orderly
    <3>1. i \in 1..n  BY <2>3
    <3>2. CASE j \in 1..n  BY <1>2, <2>3, <3>1, <3>2 DEF Orderly
    <3>3. CASE j = n + 1
      <4>1. t[j].id = read + 1  BY <2>2, <2>3, <3>3
      <4>2. t[i].id \in Nat /\ t[i].id <= read  BY <2>3, <2>4, <3>1
      <4> QED  BY <1>1, <4>1, <4>2
    <3> QED  BY <2>5, <3>2, <3>3
  <2>8. \A r \in Rows, c \in Cols :
           sheet'[r][c] = IF r = row /\ c = col THEN read + 1 ELSE sheet[r][c]
    BY <1>1
  <2>9. LatestIn(t, sheet', 0)
    <3>1. ASSUME NEW i \in 1..(n + 1)  PROVE t[i].id <= sheet'[t[i].row][t[i].col]
      <4>1. CASE i \in 1..n
        <5>1. cells[i].id <= sheet[cells[i].row][cells[i].col]
          BY <1>2, <2>3, <4>1 DEF LatestIn
        <5> QED  BY <1>1, <2>3, <2>4, <2>8, <4>1, <5>1
      <4>2. CASE i = n + 1  BY <1>1, <2>2, <2>3, <2>8, <4>2
      <4> QED  BY <2>5, <4>1, <4>2
    <3>2. ASSUME NEW r \in Rows, NEW c \in Cols, sheet'[r][c] # 0
          PROVE  \E i \in 1..(n + 1) : t[i].row = r /\ t[i].col = c /\ t[i].id = sheet'[r][c]
      <4>1. CASE r = row /\ c = col
        <5>1. n + 1 \in 1..(n + 1)  BY <2>3
        <5> QED  BY <2>2, <2>3, <2>8, <4>1, <5>1
      <4>2. CASE ~(r = row /\ c = col)
        <5>1. sheet'[r][c] = sheet[r][c] /\ r >= 0  BY <2>8, <4>2, Grid
        <5>2. PICK i \in 1..n : cells[i].row = r /\ cells[i].col = c /\ cells[i].id = sheet[r][c]
          BY <1>2, <2>3, <3>2, <5>1 DEF LatestIn
        <5>3. i \in 1..(n + 1)  BY <2>3
        <5> QED  BY <2>3, <5>1, <5>2, <5>3
      <4> QED  BY <4>1, <4>2
    <3> QED  BY <2>3, <3>1, <3>2 DEF LatestIn
  <2> QED  BY <1>1, <1>2, <2>1, <2>6, <2>7, <2>9 DEF Gathering
<1> QED  BY <1>4, <1>5, <1>6

LEMMA InRangeGathers ==
  ASSUME RowsInv, NEW row \in Rows, NEW col \in Cols, InRange(row, col)
  PROVE  Gathering' /\ Sending' /\ RowsFaithful'
<1>1. /\ sparse = FALSE /\ phase = "collecting" /\ sparse' = sparse /\ phase' = phase
      /\ header' = header /\ wire' = wire /\ cells' = cells
      /\ read \in Nat /\ read' = read + 1
  BY DEF RowsInv, FormulaInv, SheetRead, InRange, Arrives, collected
<1>2. wire = <<>> /\ header = NoHeader /\ cells = <<>>
  BY <1>1 DEF RowsInv, Gathering
<1>3. Gathering' /\ Sending'  BY <1>1, <1>2 DEF Gathering, Sending
<1>4. RowsFaithful'
  <2>1. DOMAIN wire' = {}  BY <1>1, <1>2
  <2> QED  BY <1>1, <2>1 DEF RowsFaithful
<1> QED  BY <1>3, <1>4

(* A stable sort leaves the later of two formulas of a cell behind. *)
LEMMA SortedRest ==
  ASSUME NEW s \in Seq(HeldCell), NEW p \in Sorts(s), NEW t,
         t = [i \in DOMAIN s |-> s[p[i]]], NEW g, Orderly(s), LatestIn(s, g, 0)
  PROVE  /\ t \in Seq(HeldCell) /\ Len(s) \in Nat /\ DOMAIN t = 1..Len(s)
         /\ \A i \in 1..Len(s) : p[i] \in 1..Len(s) /\ t[i] = s[p[i]]
         /\ \A i, j \in DOMAIN t : i < j => t[i].row <= t[j].row
         /\ Orderly(t) /\ \A from \in Nat : LatestIn(t, g, from)
<1> DEFINE n == Len(s)
<1>1. /\ n \in Nat /\ DOMAIN s = 1..n
      /\ p \in [1..n -> 1..n]
      /\ \A i, j \in 1..n : i < j => s[p[i]].row <= s[p[j]].row
      /\ \A k \in 1..n : \E i \in 1..n : p[i] = k
  BY SortIsOrdered
<1>2. \A i \in 1..n : s[i] \in HeldCell  BY <1>1, ElementOfSeq
<1>3. /\ \A i, j \in 1..n : i < j => p[i] # p[j]
      /\ \A i, j \in 1..n : i < j /\ ~Before(s[p[i]], s[p[j]]) => p[i] < p[j]
  BY <1>1, Zenon DEF Sorts
<1> HIDE DEF n
<1>4. t = [i \in 1..n |-> s[p[i]]]  BY <1>1
<1>5. \A i \in 1..n : t[i] = s[p[i]] /\ p[i] \in 1..n /\ t[i] \in HeldCell
  BY <1>1, <1>2, <1>4
<1>6. t \in Seq(HeldCell) /\ DOMAIN t = 1..n
  <2>1. t \in [1..n -> HeldCell]  BY <1>4, <1>5
  <2>2. t \in Seq(HeldCell)  BY <1>1, <2>1, SeqDef, Zenon
  <2>3. DOMAIN t = 1..n  BY <1>4
  <2> QED  BY <2>2, <2>3
<1>7. \A i, j \in DOMAIN t : i < j => t[i].row <= t[j].row  BY <1>1, <1>5, <1>6
<1>8. Orderly(t)
  <2> SUFFICES ASSUME NEW i \in 1..n, NEW j \in 1..n, i < j,
                      t[i].row = t[j].row, t[i].col = t[j].col
               PROVE  t[i].id < t[j].id
    BY <1>6 DEF Orderly
  <2>1. /\ t[i] = s[p[i]] /\ t[j] = s[p[j]] /\ p[i] \in 1..n /\ p[j] \in 1..n
        /\ s[p[i]] \in HeldCell /\ s[p[j]] \in HeldCell
    BY <1>5
  <2>2. ~Before(s[p[i]], s[p[j]])
    <3>1. s[p[i]].row = s[p[j]].row /\ s[p[i]].col = s[p[j]].col  BY <2>1
    <3>2. s[p[i]].row \in Rows /\ s[p[i]].col \in Cols  BY <2>1 DEF HeldCell
    <3> QED  BY <3>1, <3>2, Grid DEF Before
  <2>3. p[i] < p[j]  BY <1>3, <2>2
  <2> QED  BY <1>1, <2>1, <2>3 DEF Orderly
<1>9. ASSUME NEW from \in Nat  PROVE LatestIn(t, g, from)
  <2>1. \A i \in DOMAIN t : t[i].id <= g[t[i].row][t[i].col]
    BY <1>1, <1>5, <1>6 DEF LatestIn
  <2>2. ASSUME NEW r \in Rows, NEW c \in Cols, g[r][c] # 0
        PROVE  \E i \in DOMAIN t : t[i].row = r /\ t[i].col = c /\ t[i].id = g[r][c]
    <3>1. r >= 0  BY Grid
    <3>2. \E k \in DOMAIN s : s[k].row = r /\ s[k].col = c /\ s[k].id = g[r][c]
      BY <2>2, <3>1, Zenon DEF LatestIn
    <3>3. PICK k \in 1..n : s[k].row = r /\ s[k].col = c /\ s[k].id = g[r][c]
      BY <1>1, <3>2, Zenon
    <3>4. PICK i \in 1..n : p[i] = k  BY <1>1
    <3> QED  BY <1>5, <1>6, <3>3, <3>4
  <2> QED  BY <2>1, <2>2 DEF LatestIn
<1> QED  BY <1>1, <1>5, <1>6, <1>7, <1>8, <1>9 DEF n

LEMMA EmitSparseSends ==
  ASSUME RowsInv, EmitSparse
  PROVE  Gathering' /\ Sending' /\ RowsFaithful'
<1>1. /\ FormulaInv /\ sparse /\ phase = "collecting" /\ sparse' = sparse /\ wire' = wire
      /\ sheet' = sheet /\ read' = read
  BY DEF RowsInv, EmitSparse
<1>2. /\ wire = <<>> /\ cells \in Seq(HeldCell)
      /\ RowsUsed = {cells[i].row : i \in DOMAIN cells}
      /\ Orderly(cells) /\ LatestIn(cells, sheet, 0)
      /\ SpanOf(first, last, lastCol, RowsUsed, ColsUsed)
  BY <1>1 DEF RowsInv, FormulaInv, Gathered, Gathering, Spans, EmitSparse
<1>3. /\ phase' = "sending"
      /\ first' = first /\ last' = last /\ lastCol' = lastCol
      /\ header' = [corners |-> <<first, Min(ColsUsed), last, lastCol>>,
                    total |-> (last - first + 1) * (lastCol - Min(ColsUsed) + 1)]
      /\ \E p \in Sorts(cells) : cells' = [i \in DOMAIN cells |-> cells[p[i]]]
  BY <1>1, SparseStarts
<1>4. PICK p \in Sorts(cells) : cells' = [i \in DOMAIN cells |-> cells[p[i]]]
  BY <1>3
<1>5. first \in Nat /\ last \in Nat /\ lastCol \in Nat /\ first <= last
  BY <1>2, Grid, SpanMeans
<1>6. /\ cells' \in Seq(HeldCell) /\ Len(cells) \in Nat /\ DOMAIN cells' = 1..Len(cells)
      /\ \A i \in 1..Len(cells) : p[i] \in 1..Len(cells) /\ cells'[i] = cells[p[i]]
      /\ \A i, j \in DOMAIN cells' : i < j => cells'[i].row <= cells'[j].row
      /\ Orderly(cells') /\ LatestIn(cells', sheet, first)
  BY <1>2, <1>4, <1>5, SortedRest
<1>7. \A i \in DOMAIN cells' : first <= cells'[i].row /\ cells'[i].row <= last
  <2>1. DOMAIN cells = 1..Len(cells)  BY <1>2, LenProperties
  <2> QED  BY <1>2, <1>6, <2>1 DEF SpanOf
<1>8. RowsUsed' = RowsUsed /\ ColsUsed' = ColsUsed  BY <1>1 DEF RowsUsed, ColsUsed
<1>9. Rest(first)'  BY <1>1, <1>3, <1>6, <1>7 DEF Rest
<1>10. Sending'
  <2>1. Len(wire') = 0 /\ wire' \in Seq([0..lastCol' -> Nat])  BY <1>1, <1>2, EmptySeq
  <2>2. first' + Len(wire') = first /\ Len(wire') <= last' - first' + 1
    BY <1>3, <1>5, <2>1
  <2>3. Rest(first + Len(wire))'
    <3>1. first' + Len(wire') = first'  BY <1>3, <2>2
    <3> QED  BY <1>3, <1>9, <3>1
  <2>4. Spans' /\ Started'  BY <1>2, <1>3, <1>8 DEF Spans, Started
  <2> QED  BY <1>1, <2>1, <2>2, <2>3, <2>4 DEF Sending
<1>11. RowsFaithful'
  <2>1. DOMAIN wire' = {}  BY <1>1, <1>2
  <2> QED  BY <1>3, <2>1 DEF RowsFaithful
<1>12. Gathering'  BY <1>3 DEF Gathering
<1> QED  BY <1>10, <1>11, <1>12

LEMMA EmitDenseSends ==
  ASSUME RowsInv, EmitDense
  PROVE  Gathering' /\ Sending' /\ RowsFaithful'
<1>1. /\ SheetRead /\ sparse = FALSE /\ phase = "collecting" /\ sparse' = sparse
      /\ cells' = cells /\ wire' = wire /\ wire = <<>> /\ cells = <<>>
      /\ sheet' = sheet /\ read' = read /\ read > 0
  BY DEF RowsInv, FormulaInv, SheetRead, Gathering, EmitDense
<1>2. RowsUsed # {} /\ ColsUsed # {}  BY <1>1 DEF SheetRead
<1>3. /\ Min(RowsUsed) \in RowsUsed /\ Max(RowsUsed) \in RowsUsed
      /\ Min(ColsUsed) \in ColsUsed /\ Max(ColsUsed) \in ColsUsed
      /\ \A x \in RowsUsed : Min(RowsUsed) <= x /\ x <= Max(RowsUsed)
      /\ \A x \in ColsUsed : Min(ColsUsed) <= x /\ x <= Max(ColsUsed)
  BY <1>2, Grid, Extremes
<1>4. PICK a, b, k, l : a = Min(RowsUsed) /\ b = Max(RowsUsed) /\ k = Min(ColsUsed)
                        /\ l = Max(ColsUsed)
  OBVIOUS
<1>5. a \in Nat /\ b \in Nat /\ k \in Nat /\ l \in Nat /\ a <= b
  <2>1. \A x \in RowsUsed : x \in Nat  BY Grid
  <2>2. \A x \in ColsUsed : x \in Nat  BY Grid
  <2> QED  BY <1>3, <1>4, <2>1, <2>2
<1>6. RowsUsed' = RowsUsed /\ ColsUsed' = ColsUsed  BY <1>1 DEF RowsUsed, ColsUsed
<1>7. (phase' = "sending" /\ Announce(a, b, k, l)) \/ phase' = "overCells"
  BY <1>4, Zenon DEF EmitDense
<1>8. Gathering'  BY <1>7 DEF Gathering
<1>9. RowsFaithful'
  <2>1. DOMAIN wire' = {}  BY <1>1
  <2> QED  BY <1>7, <2>1 DEF RowsFaithful
<1>10. Sending'
  <2> SUFFICES ASSUME phase' = "sending"  PROVE Sending'
    BY DEF Sending
  <2>1. /\ first' = a /\ last' = b /\ lastCol' = l
        /\ header' = [corners |-> <<a, k, b, l>>, total |-> (b - a + 1) * (l - k + 1)]
    BY <1>7 DEF Announce
  <2>2. Spans' /\ Started'
    BY <1>3, <1>4, <1>6, <2>1 DEF Spans, SpanOf, Started
  <2>3. Len(wire') = 0 /\ wire' \in Seq([0..lastCol' -> Nat])  BY <1>1, EmptySeq
  <2>4. Len(wire') <= last' - first' + 1  BY <1>5, <2>1, <2>3
  <2> QED  BY <1>1, <2>2, <2>3, <2>4 DEF Sending
<1> QED  BY <1>8, <1>9, <1>10

(* One more row goes out, as the sheet has it. *)
LEMMA SendRowSends ==
  ASSUME RowsInv, SendRow
  PROVE  Gathering' /\ Sending' /\ RowsFaithful'
<1>1. /\ phase = "sending" /\ phase' = phase /\ sparse' = sparse /\ sparse \in BOOLEAN
      /\ first' = first /\ last' = last /\ lastCol' = lastCol /\ header' = header
      /\ read' = read /\ sheet' = sheet
      /\ sheet \in [Rows -> [Cols -> Nat]]
      /\ first + Len(wire) <= last
      /\ wire' = Append(wire, RowOf(first + Len(wire), Taken(first + Len(wire))))
      /\ cells' = SubSeq(cells, Taken(first + Len(wire)) + 1, Len(cells))
      /\ Spans /\ Started /\ wire \in Seq([0..lastCol -> Nat])
      /\ IF sparse THEN Rest(first + Len(wire)) ELSE cells = <<>>
      /\ RowsFaithful
  BY DEF RowsInv, FormulaInv, SheetRead, Sending, SendRow
<1>2. PICK row, n : row = first + Len(wire) /\ n = Len(wire)  OBVIOUS
<1>3. first \in Nat /\ last \in Nat /\ lastCol \in Nat /\ n \in Nat /\ DOMAIN wire = 1..n
  BY <1>1, <1>2, Grid, SpanMeans, LenProperties DEF Spans
<1>4. /\ first \in RowsUsed /\ last \in RowsUsed /\ lastCol \in ColsUsed
      /\ \A x \in ColsUsed : x <= lastCol
  BY <1>1 DEF Spans, SpanOf
<1>5. row \in Rows /\ row \in Nat /\ row = first + n
  <2>1. row \in Nat /\ row <= last /\ row = first + n  BY <1>1, <1>2, <1>3
  <2>2. last \in 0..MaxRow /\ MaxRow \in Nat  BY <1>4, Grid
  <2> QED  BY <2>1, <2>2, Grid
<1> DEFINE new == RowOf(row, Taken(row))
<1>6. ASSUME NEW c \in Cols  PROVE sheet[row][c] = IF c <= lastCol THEN new[c] ELSE 0
  <2>1. CASE ~(c <= lastCol)
    <3>1. c \notin ColsUsed  BY <1>4, <2>1
    <3>2. sheet[row][c] = 0  BY <1>5, <3>1 DEF ColsUsed
    <3> QED  BY <2>1, <3>2
  <2>2. CASE c <= lastCol /\ sparse
    <3>1. Rest(row)  BY <1>1, <1>2, <2>2
    <3>2. new[c] = sheet[row][c]  BY <1>1, <1>3, <1>5, <2>2, <3>1, RowIsLatest
    <3> QED  BY <2>2, <3>2
  <2>3. CASE c <= lastCol /\ ~sparse
    <3>1. c \in 0..lastCol  BY <1>3, <2>3, Grid
    <3>2. new[c] = sheet[row][c]  BY <2>3, <3>1 DEF RowOf
    <3> QED  BY <2>3, <3>2
  <2> QED  BY <2>1, <2>2, <2>3
<1>7. new \in [0..lastCol -> Nat]
  <2>1. new = [c \in 0..lastCol |-> new[c]]  BY DEF RowOf
  <2>2. ASSUME NEW c \in 0..lastCol  PROVE new[c] \in Nat
    <3>1. lastCol \in 0..MaxCol /\ MaxCol \in Nat  BY <1>4, Grid
    <3>2. c \in Cols /\ c <= lastCol  BY <3>1, Grid
    <3>3. sheet[row][c] \in Nat  BY <1>1, <1>5, <3>2
    <3> QED  BY <1>6, <3>2, <3>3
  <2> HIDE DEF new
  <2> QED  BY <2>1, <2>2
<1> HIDE DEF new
<1>8. /\ wire' = Append(wire, new) /\ wire' \in Seq([0..lastCol -> Nat])
      /\ Len(wire') = n + 1 /\ DOMAIN wire' = 1..(n + 1)
      /\ \A i \in 1..n : wire'[i] = wire[i]
      /\ wire'[n + 1] = new
  <2>1. wire' = Append(wire, new)  BY <1>1, <1>2 DEF new
  <2> QED  BY <1>1, <1>2, <1>7, <2>1, AppendProperties, LenProperties
<1>9. IF sparse THEN Rest(row + 1)' ELSE cells' = <<>>
  <2>1. CASE sparse
    <3>1. Rest(row)  BY <1>1, <1>2, <2>1
    <3>2. cells' = SubSeq(cells, Taken(row) + 1, Len(cells))  BY <1>1, <1>2
    <3>3. Rest(row + 1)'  BY <1>1, <1>5, <3>1, <3>2, RestShrinks
    <3> QED  BY <2>1, <3>3
  <2>2. CASE ~sparse
    <3>1. cells = <<>>  BY <1>1, <2>2
    <3>2. Len(cells) = 0  BY <3>1, EmptySeq
    <3>3. Taken(row) \in 0..0
      <4>1. Taken(row) = CHOOSE k \in 0..0 : /\ \A i \in 1..k : cells[i].row = row
                                             /\ k < 0 => cells[k + 1].row # row
        BY <3>2 DEF Taken
      <4>2. \E k \in 0..0 : /\ \A i \in 1..k : cells[i].row = row
                            /\ k < 0 => cells[k + 1].row # row
        OBVIOUS
      <4> QED  BY <4>1, <4>2, Zenon
    <3>4. Taken(row) = 0  BY <3>3
    <3>5. cells' = SubSeq(cells, 1, 0)  BY <1>1, <1>2, <3>2, <3>4
    <3>6. SubSeq(cells, 1, 0) = <<>>
      <4>1. 1 \in Int /\ 0 \in Int /\ 0 < 1  OBVIOUS
      <4> QED  BY <4>1, SubSeqEmpty
    <3>7. cells' = <<>>  BY <3>5, <3>6
    <3> QED  BY <2>2, <3>7
  <2> QED  BY <2>1, <2>2
<1>10. RowsUsed' = RowsUsed /\ ColsUsed' = ColsUsed  BY <1>1 DEF RowsUsed, ColsUsed
<1>11. Gathering'  BY <1>1 DEF Gathering
<1>12. Sending'
  <2>1. Spans' /\ Started'  BY <1>1, <1>10 DEF Spans, Started
  <2>2. Len(wire') <= last' - first' + 1  BY <1>1, <1>2, <1>3, <1>8
  <2>3. first' + Len(wire') = row + 1
    <3>1. first' = first /\ Len(wire') = n + 1  BY <1>1, <1>8
    <3>2. first + (n + 1) = row + 1  BY <1>3, <1>5
    <3> QED  BY <3>1, <3>2
  <2>4. IF sparse' THEN Rest(first + Len(wire))' ELSE cells' = <<>>
    <3>1. CASE sparse  BY <1>1, <1>9, <2>3, <3>1 DEF Rest
    <3>2. CASE ~sparse  BY <1>1, <1>9, <3>2
    <3> QED  BY <3>1, <3>2
  <2> QED  BY <1>1, <1>8, <2>1, <2>2, <2>4 DEF Sending
<1>13. RowsFaithful'
  <2> SUFFICES ASSUME NEW i \in 1..(n + 1), NEW c \in Cols
               PROVE  sheet'[first' + i - 1][c] = IF c <= lastCol' THEN wire'[i][c] ELSE 0
    BY <1>1, <1>8 DEF RowsFaithful
  <2>1. CASE i \in 1..n
    <3>1. sheet[first + i - 1][c] = IF c <= lastCol THEN wire[i][c] ELSE 0
      BY <1>1, <1>3, <2>1 DEF RowsFaithful
    <3> QED  BY <1>1, <1>8, <2>1, <3>1
  <2>2. CASE i = n + 1
    <3>1. first + i - 1 = row  BY <1>3, <1>5, <2>2
    <3> QED  BY <1>1, <1>6, <1>8, <2>2, <3>1
  <2>3. i \in 1..n \/ i = n + 1  BY <1>3
  <2> QED  BY <2>1, <2>2, <2>3
<1> QED  BY <1>11, <1>12, <1>13

(* When the last row is out, nothing is left behind. *)
LEMMA AllSentEnds ==
  ASSUME RowsInv, AllSent
  PROVE  Gathering' /\ Sending' /\ RowsFaithful'
<1>1. /\ phase = "sending" /\ phase' = "ended" /\ sparse \in BOOLEAN
      /\ UNCHANGED <<sparse, collected, header, wire, read, sheet>>
      /\ first + Len(wire) > last
      /\ Spans /\ Started /\ wire \in Seq([0..lastCol -> Nat])
      /\ Len(wire) <= last - first + 1
      /\ IF sparse THEN Rest(first + Len(wire)) ELSE cells = <<>>
      /\ RowsFaithful
  BY DEF RowsInv, FormulaInv, SheetRead, Sending, AllSent
<1>2. /\ first' = first /\ last' = last /\ lastCol' = lastCol /\ header' = header
      /\ wire' = wire /\ cells' = cells /\ sheet' = sheet /\ read' = read
  BY <1>1 DEF collected
<1>3. Gathering' /\ Sending'  BY <1>1 DEF Gathering, Sending
<1>4. SpanOf(first, last, lastCol, RowsUsed, ColsUsed)  BY <1>1 DEF Spans
<1>5. /\ Min(RowsUsed) = first /\ Max(RowsUsed) = last /\ Max(ColsUsed) = lastCol
      /\ first \in Nat /\ last \in Nat /\ lastCol \in Nat /\ first <= last
  BY <1>4, Grid, SpanMeans
<1>6. PICK n \in Nat : n = Len(wire)  BY <1>1, LenProperties
<1>7. n = last - first + 1  BY <1>1, <1>5, <1>6
<1>8. cells = <<>>
  <2>1. CASE ~sparse  BY <1>1, <2>1
  <2>2. CASE sparse
    <3>1. /\ cells \in Seq(HeldCell)
          /\ \A i \in DOMAIN cells : first + n <= cells[i].row /\ cells[i].row <= last
      BY <1>1, <1>6, <2>2 DEF Rest
    <3>2. ASSUME NEW i \in DOMAIN cells  PROVE FALSE
      <4>1. cells[i] \in HeldCell  BY <3>1, ElementOfSeq, LenProperties
      <4>2. cells[i].row \in Nat  BY <4>1, Grid DEF HeldCell
      <4> QED  BY <1>1, <1>5, <1>6, <3>1, <4>2
    <3>3. Len(cells) \in Nat /\ DOMAIN cells = 1..Len(cells)  BY <3>1, LenProperties
    <3>4. Len(cells) = 0  BY <3>2, <3>3
    <3> QED  BY <3>1, <3>4, EmptySeq
  <2> QED  BY <2>1, <2>2
<1>9. \A r \in RowsUsed : first <= r /\ r < first + n
  <2>1. \A r \in RowsUsed : r \in Nat /\ first <= r /\ r <= last  BY <1>4, Grid DEF SpanOf
  <2> QED  BY <1>5, <1>7, <2>1
<1>10. RowsUsed # {}  BY <1>4 DEF SpanOf
<1>11. PICK k \in Nat : k = Min(ColsUsed) /\ k <= lastCol
  <2>1. ColsUsed # {}  BY <1>4 DEF SpanOf
  <2>2. Min(ColsUsed) \in ColsUsed /\ lastCol \in ColsUsed /\ \A x \in ColsUsed : Min(ColsUsed) <= x
    BY <1>4, <2>1, Grid, Extremes DEF SpanOf
  <2>3. \A x \in ColsUsed : x \in Nat  BY Grid
  <2> QED  BY <2>2, <2>3
<1>12. Cardinality(k..lastCol) = lastCol - k + 1
  BY <1>5, <1>11, FS_Interval
<1>13. /\ header.corners = <<Min(RowsUsed), Min(ColsUsed), Max(RowsUsed), Max(ColsUsed)>>
       /\ header.total = Len(wire) * Cardinality(Min(ColsUsed)..Max(ColsUsed))
  <2>1. header = [corners |-> <<first, k, last, lastCol>>, total |-> n * (lastCol - k + 1)]
    BY <1>1, <1>7, <1>11, Zenon DEF Started
  <2>2. Len(wire) * Cardinality(Min(ColsUsed)..Max(ColsUsed)) = n * (lastCol - k + 1)
    BY <1>5, <1>6, <1>11, <1>12, Zenon
  <2> QED  BY <1>5, <1>11, <2>1, <2>2
<1>14. RowsUsed' = RowsUsed /\ ColsUsed' = ColsUsed  BY <1>2 DEF RowsUsed, ColsUsed
<1>15. RowsFaithful'
  <2>1. \A i \in DOMAIN wire : \A c \in Cols :
          sheet[first + i - 1][c] = IF c <= lastCol THEN wire[i][c] ELSE 0
    BY <1>1 DEF RowsFaithful
  <2> QED  BY <1>2, <1>6, <1>8, <1>9, <1>10, <1>13, <1>14, <2>1, Zenon DEF RowsFaithful
<1> QED  BY <1>3, <1>15

LEMMA NoFormulasEnds ==
  ASSUME RowsInv, NoFormulas
  PROVE  Gathering' /\ Sending' /\ RowsFaithful'
<1>1. /\ phase = "collecting" /\ phase' = "ended" /\ sparse \in BOOLEAN
      /\ UNCHANGED <<sparse, collected, header, wire, read, sheet>>
      /\ IF sparse THEN cells = <<>> ELSE read = 0
      /\ wire = <<>> /\ header = NoHeader
      /\ ~sparse => cells = <<>> /\ (read = 0 => RowsUsed = {})
      /\ sparse => RowsUsed = {cells[i].row : i \in DOMAIN cells}
  BY DEF RowsInv, FormulaInv, SheetRead, Gathering, Gathered, NoFormulas
<1>2. cells' = cells /\ wire' = wire /\ header' = header /\ sheet' = sheet
  BY <1>1 DEF collected
<1>3. Gathering' /\ Sending'  BY <1>1 DEF Gathering, Sending
<1>4. cells = <<>> /\ RowsUsed = {}
  <2>1. CASE sparse
    <3>1. DOMAIN cells = {}  BY <1>1, <2>1
    <3> QED  BY <1>1, <2>1, <3>1
  <2>2. CASE ~sparse  BY <1>1, <2>2
  <2> QED  BY <2>1, <2>2
<1>5. RowsUsed' = {}  BY <1>2, <1>4 DEF RowsUsed
<1>6. DOMAIN wire' = {} /\ header'.total = 0  BY <1>1, <1>2 DEF NoHeader
<1> QED  BY <1>2, <1>3, <1>4, <1>5, <1>6 DEF RowsFaithful

(* The steps that end a stream otherwise, and those that change nothing. *)
LEMMA RowsQuiet ==
  ASSUME RowsInv, UNCHANGED <<sparse, collected, header, wire, read, sheet>>,
         phase' \in {"failed", "gone"} \/ phase' = phase
  PROVE  Gathering' /\ Sending' /\ RowsFaithful'
<1>1. /\ first' = first /\ last' = last /\ lastCol' = lastCol /\ header' = header
      /\ wire' = wire /\ cells' = cells /\ sheet' = sheet /\ read' = read /\ sparse' = sparse
  BY DEF collected
<1>2. RowsUsed' = RowsUsed /\ ColsUsed' = ColsUsed  BY <1>1 DEF RowsUsed, ColsUsed
<1>3. Gathering /\ Sending /\ RowsFaithful  BY DEF RowsInv
<1>4. Gathering'  BY <1>1, <1>2, <1>3 DEF Gathering
<1>5. Sending'  BY <1>1, <1>2, <1>3 DEF Sending, Rest, Spans, Started
<1>6. RowsFaithful'
  <2>1. phase' = "ended" => phase = "ended"  OBVIOUS
  <2> QED  BY <1>1, <1>2, <1>3, <2>1 DEF RowsFaithful
<1> QED  BY <1>4, <1>5, <1>6

LEMMA RowsStart == Init => RowsInv
<1> SUFFICES ASSUME Init  PROVE RowsInv
  OBVIOUS
<1>1. /\ phase = "collecting" /\ cells = <<>> /\ wire = <<>> /\ header = NoHeader
      /\ read = 0 /\ sheet = [r \in Rows |-> [c \in Cols |-> 0]]
  BY DEF Init
<1>2. RowsUsed = {}  BY <1>1 DEF RowsUsed
<1>3. DOMAIN cells = {} /\ DOMAIN wire = {}  BY <1>1
<1>4. LatestIn(cells, sheet, 0) /\ Orderly(cells)
  BY <1>1, <1>3 DEF LatestIn, Orderly
<1>5. Gathering  BY <1>1, <1>2, <1>3, <1>4 DEF Gathering
<1>6. Sending /\ RowsFaithful  BY <1>1, <1>3 DEF Sending, RowsFaithful
<1> QED  BY <1>5, <1>6, FormulaStart DEF RowsInv

LEMMA RowsStep == RowsInv /\ [Next]_vars => RowsInv'
<1> SUFFICES ASSUME RowsInv, [Next]_vars  PROVE Gathering' /\ Sending' /\ RowsFaithful'
  BY FormulaStep DEF RowsInv
<1>1. ASSUME NEW row \in Rows, NEW col \in Cols, InRange(row, col)
      PROVE  Gathering' /\ Sending' /\ RowsFaithful'
  BY <1>1, InRangeGathers
<1>2. ASSUME NEW row \in Rows, NEW col \in Cols, NEW length \in TextLengths,
             Collect(row, col, length)
      PROVE  Gathering' /\ Sending' /\ RowsFaithful'
  BY <1>2, CollectGathers
<1>3. CASE EmitSparse  BY <1>3, EmitSparseSends
<1>4. CASE EmitDense  BY <1>4, EmitDenseSends
<1>5. CASE NoFormulas  BY <1>5, NoFormulasEnds
<1>6. CASE SendRow  BY <1>6, SendRowSends
<1>7. CASE AllSent  BY <1>7, AllSentEnds
<1>8. CASE ReadFails \/ ClientGone
  BY <1>8, RowsQuiet DEF ReadFails, ClientGone
<1>9. CASE UNCHANGED vars
  BY <1>9, RowsQuiet DEF vars
<1> QED  BY <1>1, <1>2, <1>3, <1>4, <1>5, <1>6, <1>7, <1>8, <1>9 DEF Next

(* What the collector holds is the latest formula of each cell of the      *)
(* sheet that is not on the wire yet, in order once sorted.                *)
THEOREM RowsInvariance == Spec => []RowsInv
BY RowsStart, RowsStep, PTL DEF Spec

(* emit_sparse_formulas and the dense copy send the sheet's rows as they   *)
(* are: of two formulas at one cell the one read later, no cell moved and  *)
(* none left behind, for every sheet and order of arrival.                 *)
THEOREM RowsCorrect == Spec => []RowsFaithful
<1>1. RowsInv => RowsFaithful  BY DEF RowsInv
<1> QED  BY <1>1, RowsInvariance, PTL

-----------------------------------------------------------------------------
(* FormulaStream, what it holds.                                           *)

Weights(s) == [i \in 1..Len(s) |-> s[i].length + SlotBytes]

(* The count is what the cells weigh, until they are sorted.               *)
HeldInv ==
    /\ cells \in Seq(HeldCell) /\ bytes \in Nat
    /\ MaxFormulaBytes < Word - 1 =>
        \A f : Sums(f, Weights(cells), Len(cells)) =>
            /\ f[Len(cells)] <= MaxFormulaBytes
            /\ phase = "collecting" => f[Len(cells)] = bytes

LEMMA WeightsAre ==
  ASSUME NEW s \in Seq(HeldCell)
  PROVE  /\ Len(s) \in Nat /\ Weights(s) \in Numbers(Len(s)) /\ DOMAIN s = 1..Len(s)
         /\ \A i \in 1..Len(s) : s[i] \in HeldCell /\ Weights(s)[i] = s[i].length + SlotBytes
<1>1. Len(s) \in Nat /\ DOMAIN s = 1..Len(s) /\ \A i \in 1..Len(s) : s[i] \in HeldCell
  BY ElementOfSeq, LenProperties
<1>2. \A i \in 1..Len(s) : s[i].length + SlotBytes \in Nat
  <2> SUFFICES ASSUME NEW i \in 1..Len(s)  PROVE s[i].length + SlotBytes \in Nat
    OBVIOUS
  <2>1. s[i].length \in TextLengths  BY <1>1 DEF HeldCell
  <2>2. s[i].length \in Nat /\ SlotBytes \in Nat  BY <2>1, GridAssumption, Zenon
  <2> QED  BY <2>2
<1> QED  BY <1>1, <1>2 DEF Weights, Numbers

LEMMA HeldMeans == ASSUME HeldInv PROVE HeldWithinBudget
<1>0. cells \in Seq(HeldCell)  BY DEF HeldInv
<1>1. /\ Len(cells) \in Nat /\ Weights(cells) \in Numbers(Len(cells))
      /\ \A i \in 1..Len(cells) : /\ cells[i] \in HeldCell
                                  /\ Weights(cells)[i] = cells[i].length + SlotBytes
  BY <1>0, WeightsAre
<1> DEFINE Held(f) == f = [i \in 0..Len(cells) |->
                              IF i = 0 THEN 0 ELSE f[i - 1] + (cells[i].length + SlotBytes)]
           h == CHOOSE f : Held(f)
<1>2. ASSUME NEW f  PROVE Held(f) <=> Sums(f, Weights(cells), Len(cells))
  <2>1. \A i \in 0..Len(cells) :
            (IF i = 0 THEN 0 ELSE f[i - 1] + (cells[i].length + SlotBytes)) =
            (IF i = 0 THEN 0 ELSE f[i - 1] + Weights(cells)[i])
    BY <1>1
  <2>2. [i \in 0..Len(cells) |->
            IF i = 0 THEN 0 ELSE f[i - 1] + (cells[i].length + SlotBytes)] =
        [i \in 0..Len(cells) |-> IF i = 0 THEN 0 ELSE f[i - 1] + Weights(cells)[i]]
    BY <2>1, Zenon
  <2> QED  BY <2>2, Zenon DEF Sums
<1>3. \E f : Sums(f, Weights(cells), Len(cells))  BY <1>1, SumExists
<1>4. Held(h)
  <2>1. \E f : Held(f)  BY <1>2, <1>3, Zenon
  <2> QED  BY <2>1, Zenon
<1>5. Sums(h, Weights(cells), Len(cells))  BY <1>2, <1>4, Zenon
<1>6. MaxFormulaBytes < Word - 1 => h[Len(cells)] <= MaxFormulaBytes
  <2> HIDE DEF h
  <2> QED  BY <1>5, Zenon DEF HeldInv
<1> QED  BY <1>6, Zenon DEF HeldWithinBudget

(* A formula more. *)
LEMMA CollectHolds ==
  ASSUME RowsInv, HeldInv, NEW row \in Rows, NEW col \in Cols, NEW length \in TextLengths,
         Collect(row, col, length)
  PROVE  HeldInv'
<1>0. cells \in Seq(HeldCell) /\ bytes \in Nat  BY DEF HeldInv
<1>20. cells' \in Seq(HeldCell) /\ bytes' \in Nat
  <2>1. \/ cells' = cells
        \/ cells' = Append(cells, [row |-> row, col |-> col, id |-> read + 1, length |-> length])
    BY DEF Collect
  <2>2. [row |-> row, col |-> col, id |-> read + 1, length |-> length] \in HeldCell
    BY DEF RowsInv, FormulaInv, SheetRead, HeldCell
  <2>3. cells' \in Seq(HeldCell)  BY <1>0, <2>1, <2>2, AppendProperties
  <2>4. bytes' \in Nat
    <3>1. bytes' = bytes \/ bytes' = Lesser(bytes + Cost(length), Word - 1)  BY DEF Collect
    <3>2. Cost(length) \in Nat /\ Word - 1 \in Nat
      <4>1. length \in Nat /\ SlotBytes \in Nat /\ Word \in Nat /\ Word # 0
        BY GridAssumption, Zenon
      <4> QED  BY <4>1 DEF Cost
    <3> QED  BY <1>0, <3>1, <3>2 DEF Lesser
  <2> QED  BY <2>3, <2>4
<1> SUFFICES ASSUME MaxFormulaBytes < Word - 1,
                    NEW f, Sums(f, Weights(cells'), Len(cells'))
             PROVE  /\ f[Len(cells')] <= MaxFormulaBytes
                    /\ phase' = "collecting" => f[Len(cells')] = bytes'
  BY <1>20 DEF HeldInv
<1>1. sparse /\ phase = "collecting" /\ cells \in Seq(HeldCell)
  BY <1>0 DEF Collect
<1>2. CASE cells' = cells /\ phase' # "collecting"
  BY <1>2, <1>1 DEF HeldInv
<1>3. CASE ~(cells' = cells /\ phase' # "collecting")
  <2> DEFINE x == [row |-> row, col |-> col, id |-> read + 1, length |-> length]
  <2>1. /\ bytes' = Lesser(bytes + Cost(length), Word - 1) /\ ~(bytes' > MaxFormulaBytes)
        /\ cells' = Append(cells, x) /\ phase' = "collecting"
    BY <1>1, <1>3 DEF Collect
  <2>2. x \in HeldCell /\ x.length = length
    BY DEF RowsInv, FormulaInv, SheetRead, HeldCell
  <2> HIDE DEF x
  <2> DEFINE n == Len(cells)
  <2>3. /\ n \in Nat /\ Weights(cells) \in Numbers(n)
        /\ \A i \in 1..n : Weights(cells)[i] = cells[i].length + SlotBytes
    BY <1>1, WeightsAre
  <2>4. /\ cells' \in Seq(HeldCell) /\ Len(cells') = n + 1
        /\ \A i \in 1..n : cells'[i] = cells[i]
        /\ cells'[n + 1] = x
    BY <1>1, <2>1, <2>2, AppendProperties
  <2>5. /\ Weights(cells') \in Numbers(n + 1)
        /\ \A i \in 1..(n + 1) : Weights(cells')[i] = cells'[i].length + SlotBytes
    BY <2>4, WeightsAre
  <2>6. PICK e : Sums(e, Weights(cells), n)  BY <2>3, SumExists
  <2> HIDE DEF n
  <2>7. e[n] = bytes /\ e[n] <= MaxFormulaBytes
    BY <1>1, <2>6, Zenon DEF HeldInv, n
  <2>8. Sums(f, Weights(cells'), n + 1)  BY <2>4
  <2>9. \A i \in 1..n : Weights(cells')[i] = Weights(cells)[i]
    <3> SUFFICES ASSUME NEW i \in 1..n  PROVE Weights(cells')[i] = Weights(cells)[i]
      OBVIOUS
    <3>1. i \in 1..(n + 1)  BY <2>3
    <3> QED  BY <2>3, <2>4, <2>5, <3>1
  <2>10. f[n] = e[n]
    <3>1. n + 1 \in Nat /\ n <= n + 1 /\ n \in 0..n  BY <2>3
    <3>2. \A k \in 0..n : f[k] = e[k]
      BY <2>3, <2>5, <2>6, <2>8, <2>9, <3>1, SumOfFront
    <3> QED  BY <3>1, <3>2
  <2>11. f[n + 1] = f[n] + (length + SlotBytes)
    <3>1. n + 1 \in Nat /\ n + 1 \in 1..(n + 1) /\ (n + 1) - 1 = n  BY <2>3
    <3>2. \A i \in 1..(n + 1) : f[i] = f[i - 1] + Weights(cells')[i]
      BY <2>5, <2>8, <3>1, SumMeans
    <3>3. f[n + 1] = f[n] + Weights(cells')[n + 1]  BY <3>1, <3>2
    <3>4. Weights(cells')[n + 1] = length + SlotBytes  BY <2>2, <2>4, <2>5, <3>1
    <3> QED  BY <3>3, <3>4
  <2>12. f[n + 1] = bytes'
    <3>1. PICK b \in Nat, l \in Nat, z \in Nat : b = bytes /\ l = length /\ z = SlotBytes
      <4>1. bytes \in Nat /\ length \in Nat /\ SlotBytes \in Nat
        BY <1>0, GridAssumption, Zenon
      <4> QED  BY <4>1, Zenon
    <3>2. f[n + 1] = b + (l + z)  BY <2>7, <2>10, <2>11, <3>1
    <3>3. bytes' = Lesser(b + (l + z), Word - 1)  BY <2>1, <3>1 DEF Cost
    <3>4. b + (l + z) < Word - 1
      <4>1. Word \in Nat /\ MaxFormulaBytes \in Nat  BY GridAssumption
      <4>2. ~(Lesser(b + (l + z), Word - 1) > MaxFormulaBytes)  BY <2>1, <3>3
      <4> QED  BY <4>1, <4>2 DEF Lesser
    <3> QED  BY <3>2, <3>3, <3>4 DEF Lesser
  <2>13. f[n + 1] <= MaxFormulaBytes
    <3>1. f[n + 1] \in Nat
      BY <2>3, <2>5, <2>8, SumMeans
    <3> QED  BY <2>1, <2>12, <3>1, GridAssumption
  <2> QED  BY <2>1, <2>4, <2>12, <2>13
<1> QED  BY <1>2, <1>3

(* The formulas in order. *)
LEMMA SortHolds ==
  ASSUME RowsInv, HeldInv, EmitSparse
  PROVE  HeldInv'
<1>0. cells \in Seq(HeldCell) /\ bytes \in Nat  BY DEF HeldInv
<1>20. cells' \in Seq(HeldCell) /\ bytes' \in Nat
  <2>1. Orderly(cells) /\ LatestIn(cells, sheet, 0)
    BY Zenon DEF RowsInv, Gathering, EmitSparse
  <2>2. PICK p \in Sorts(cells) : cells' = [i \in DOMAIN cells |-> cells[p[i]]]
    BY Zenon DEF EmitSparse
  <2>3. cells' \in Seq(HeldCell)  BY <1>0, <2>1, <2>2, SortedRest
  <2> QED  BY <1>0, <2>3 DEF EmitSparse
<1> SUFFICES ASSUME MaxFormulaBytes < Word - 1,
                    NEW f, Sums(f, Weights(cells'), Len(cells'))
             PROVE  /\ f[Len(cells')] <= MaxFormulaBytes
                    /\ phase' = "collecting" => f[Len(cells')] = bytes'
  BY <1>20 DEF HeldInv
<1>1. /\ phase = "collecting" /\ phase' # "collecting" /\ cells \in Seq(HeldCell)
      /\ \E p \in Sorts(cells) : cells' = [i \in DOMAIN cells |-> cells[p[i]]]
  BY <1>0 DEF EmitSparse
<1>2. PICK p \in Sorts(cells) : cells' = [i \in DOMAIN cells |-> cells[p[i]]]
  BY <1>1
<1> DEFINE n == Len(cells)
<1>3. /\ n \in Nat /\ Weights(cells) \in Numbers(n) /\ DOMAIN cells = 1..n
      /\ \A i \in 1..n : Weights(cells)[i] = cells[i].length + SlotBytes
  BY <1>1, WeightsAre
<1>4. /\ p \in [1..n -> 1..n] /\ \A k \in 1..n : \E i \in 1..n : p[i] = k
  BY <1>1, SortIsOrdered
<1>5. Distinct(p, n)  BY <1>3, Zenon DEF Sorts, Distinct
<1>6. cells' \in Seq(HeldCell) /\ Len(cells') = n /\ \A i \in 1..n : cells'[i] = cells[p[i]]
  <2>1. Orderly(cells) /\ LatestIn(cells, sheet, 0)
    BY <1>1, Zenon DEF RowsInv, Gathering, EmitSparse
  <2>2. /\ cells' \in Seq(HeldCell) /\ DOMAIN cells' = 1..n
        /\ \A i \in 1..n : cells'[i] = cells[p[i]]
    BY <1>1, <1>2, <2>1, SortedRest
  <2>3. Len(cells') = n  BY <1>3, <2>2, LenProperties
  <2> QED  BY <2>2, <2>3
<1>7. /\ Weights(cells') \in Numbers(n) /\ Moves(Weights(cells), p, Weights(cells'), n)
  <2>1. /\ Weights(cells') \in Numbers(n)
        /\ \A i \in 1..n : Weights(cells')[i] = cells'[i].length + SlotBytes
    BY <1>6, WeightsAre
  <2>2. ASSUME NEW i \in 1..n  PROVE Weights(cells')[i] = Weights(cells)[p[i]]
    BY <1>3, <1>4, <1>6, <2>1, ZenonT(60)
  <2> QED  BY <2>1, <2>2 DEF Moves
<1>8. PICK e : Sums(e, Weights(cells), n)  BY <1>3, SumExists
<1> HIDE DEF n
<1>9. e[n] <= MaxFormulaBytes  BY <1>8, Zenon DEF HeldInv, n
<1>10. f[n] = e[n]
  <2>1. Sums(f, Weights(cells'), n)  BY <1>6
  <2>2. n \in Nat /\ Weights(cells) \in Numbers(n)  BY <1>3
  <2>3. p \in [1..n -> 1..n]  BY <1>4
  <2> QED  BY ONLY <1>4, <1>5, <1>7, <1>8, <2>1, <2>2, <2>3, SumPermuted,
              ZenonT(60)
<1> QED  BY <1>1, <1>6, <1>9, <1>10

(* A row less. *)
LEMMA SendHolds ==
  ASSUME RowsInv, HeldInv, SendRow
  PROVE  HeldInv'
<1>0. cells \in Seq(HeldCell) /\ bytes \in Nat  BY DEF HeldInv
<1>1. /\ phase = "sending" /\ phase' = phase /\ cells \in Seq(HeldCell)
      /\ ~sparse => cells = <<>>
  <2>1. phase = "sending" /\ phase' = phase  BY DEF SendRow
  <2>2. sparse \in BOOLEAN /\ (~sparse => cells = <<>>)
    BY <2>1, Zenon DEF RowsInv, FormulaInv, SheetRead, Sending
  <2> QED  BY <1>0, <2>1, <2>2
<1> DEFINE N == Len(cells)
           row == first + Len(wire)
<1>2. /\ N \in Nat /\ Weights(cells) \in Numbers(N)
      /\ \A i \in 1..N : /\ cells[i] \in HeldCell
                         /\ Weights(cells)[i] = cells[i].length + SlotBytes
  BY <1>1, WeightsAre
<1>3. PICK m \in 0..N : cells' = SubSeq(cells, m + 1, N)
  <2>1. cells' = SubSeq(cells, Taken(row) + 1, N)  BY DEF SendRow
  <2>2. CASE sparse
    <3>1. Rest(row) /\ Spans /\ wire \in Seq([0..lastCol -> Nat])
      BY <1>1, <2>2 DEF RowsInv, Sending
    <3>2. row \in Nat
      <4>1. Len(wire) \in Nat  BY <3>1, LenProperties
      <4>2. first \in Nat  BY <3>1, Grid, SpanMeans, Zenon DEF Spans
      <4> QED  BY <4>1, <4>2
    <3> HIDE DEF row
    <3>3. Taken(row) \in 0..N  BY <3>1, <3>2, FrontRow
    <3> QED  BY <2>1, <3>3
  <2>3. CASE ~sparse
    <3>1. cells = <<>> /\ N = 0  BY <1>1, <2>3
    <3> HIDE DEF row
    <3>2. cells' = SubSeq(<<>>, Taken(row) + 1, 0)  BY <2>1, <3>1
    <3>3. Taken(row) \in 0..0
      <4>1. /\ \A i \in 1..0 : cells[i].row = row
            /\ 0 < Len(cells) => cells[0 + 1].row # row
        BY <3>1
      <4>2. \E n \in 0..Len(cells) : /\ \A i \in 1..n : cells[i].row = row
                                     /\ n < Len(cells) => cells[n + 1].row # row
        BY <3>1, <4>1
      <4>3. Taken(row) \in 0..Len(cells)  BY <4>2, Zenon DEF Taken
      <4> QED  BY <3>1, <4>3
    <3> QED  BY <2>1, <3>1, <3>3
  <2> QED  BY <1>1, <2>2, <2>3
<1> HIDE DEF N
<1>4. /\ cells' \in Seq(HeldCell) /\ Len(cells') = N - m
      /\ \A i \in 1..(N - m) : cells'[i] = cells[m + i]
  <2>1. m + 1 \in Int /\ N \in Int /\ \A i \in (m + 1)..N : cells[i] \in HeldCell
    BY <1>2, <1>3
  <2> DEFINE t == SubSeq(cells, m + 1, N)
  <2>2. /\ t \in Seq(HeldCell)
        /\ Len(t) = IF m + 1 <= N THEN N - (m + 1) + 1 ELSE 0
        /\ \A i \in 1..(N - (m + 1) + 1) : t[i] = cells[(m + 1) + i - 1]
    BY <2>1, SubSeqProperties
  <2> HIDE DEF t
  <2>3. Len(t) = N - m /\ N - (m + 1) + 1 = N - m
    <3>1. m \in Nat /\ m <= N  BY <1>2
    <3> QED  BY <1>2, <2>2, <3>1
  <2>4. ASSUME NEW i \in 1..(N - m)  PROVE t[i] = cells[m + i]
    <3>1. (m + 1) + i - 1 = m + i  BY <1>2
    <3> QED  BY <2>2, <2>3, <3>1
  <2>5. cells' = t  BY <1>3 DEF t
  <2> QED  BY <2>2, <2>3, <2>4, <2>5
<1>21. bytes' \in Nat  BY <1>0 DEF SendRow
<1> SUFFICES ASSUME MaxFormulaBytes < Word - 1,
                    NEW f, Sums(f, Weights(cells'), Len(cells'))
             PROVE  /\ f[Len(cells')] <= MaxFormulaBytes
                    /\ phase' = "collecting" => f[Len(cells')] = bytes'
  BY <1>4, <1>21 DEF HeldInv
<1>5. N - m \in Nat /\ m \in Nat /\ \A i \in 1..(N - m) : m + i \in 1..N  BY <1>2
<1> DEFINE u == [i \in 1..(N - m) |-> Weights(cells)[m + i]]
<1>6. Weights(cells') = u
  <2>1. DOMAIN Weights(cells') = 1..(N - m) /\ Weights(cells') = [i \in 1..(N - m) |-> Weights(cells')[i]]
    BY <1>4 DEF Weights
  <2>2. ASSUME NEW i \in 1..(N - m)  PROVE Weights(cells')[i] = Weights(cells)[m + i]
    <3>1. Weights(cells')[i] = cells'[i].length + SlotBytes  BY <1>4 DEF Weights
    <3> QED  BY <1>2, <1>4, <1>5, <3>1
  <2> QED  BY <2>1, <2>2
<1>7. PICK e : Sums(e, Weights(cells), N)  BY <1>2, SumExists
<1>8. e[N] <= MaxFormulaBytes  BY <1>7, Zenon DEF HeldInv, N
<1>9. Sums(f, u, N - m)  BY <1>4, <1>6
<1>10. f[N - m] <= e[N]  BY <1>2, <1>7, <1>9, SumOfRest
<1>11. f[N - m] \in Nat /\ e[N] \in Nat
  <2>1. u \in Numbers(N - m)
    <3> SUFFICES ASSUME NEW i \in 1..(N - m)  PROVE Weights(cells)[m + i] \in Nat
      BY DEF Numbers
    <3> QED  BY <1>2, <1>5 DEF Numbers
  <2> HIDE DEF u
  <2>2. f \in [0..(N - m) -> Nat] /\ e \in [0..N -> Nat]
    BY <1>2, <1>5, <1>7, <1>9, <2>1, SumMeans
  <2> QED  BY <1>2, <1>5, <2>2
<1>12. f[N - m] <= MaxFormulaBytes
  <2>1. MaxFormulaBytes \in Nat  BY GridAssumption
  <2> QED  BY <1>8, <1>10, <1>11, <2>1
<1> QED  BY <1>1, <1>4, <1>12

LEMMA HeldQuiet ==
  ASSUME RowsInv, HeldInv, UNCHANGED <<cells, bytes>>, phase' = "collecting" => phase = "collecting"
  PROVE  HeldInv'
BY Zenon DEF HeldInv

LEMMA HeldStart == Init => HeldInv
<1>0. Init => cells \in Seq(HeldCell) /\ bytes \in Nat  BY EmptySeq DEF Init
<1> SUFFICES ASSUME Init, NEW f, Sums(f, Weights(cells), Len(cells))
             PROVE  f[Len(cells)] <= MaxFormulaBytes /\ f[Len(cells)] = bytes
  BY <1>0 DEF HeldInv
<1>1. cells = <<>> /\ Len(cells) = 0 /\ bytes = 0  BY DEF Init
<1>2. f[0] = 0
  <2>1. <<>> \in Seq(HeldCell)  BY EmptySeq
  <2>2. Weights(cells) \in Numbers(0)  BY <1>1, <2>1, WeightsAre
  <2>3. Sums(f, Weights(cells), 0)  BY <1>1
  <2> QED  BY <2>2, <2>3, SumMeans
<1> QED  BY <1>1, <1>2, GridAssumption

LEMMA HeldStep == RowsInv /\ HeldInv /\ [Next]_vars => HeldInv'
<1> SUFFICES ASSUME RowsInv, HeldInv, [Next]_vars  PROVE HeldInv'
  OBVIOUS
<1>1. ASSUME NEW row \in Rows, NEW col \in Cols, InRange(row, col)  PROVE HeldInv'
  BY <1>1, HeldQuiet DEF InRange, collected
<1>2. ASSUME NEW row \in Rows, NEW col \in Cols, NEW length \in TextLengths,
             Collect(row, col, length)
      PROVE  HeldInv'
  BY <1>2, CollectHolds
<1>3. CASE EmitSparse  BY <1>3, SortHolds
<1>4. CASE EmitDense
  <2>1. phase' # "collecting"  BY <1>4 DEF EmitDense
  <2>2. UNCHANGED <<cells, bytes>>  BY <1>4 DEF EmitDense
  <2> QED  BY <2>1, <2>2, HeldQuiet
<1>5. CASE SendRow  BY <1>5, SendHolds
<1>6. CASE NoFormulas \/ AllSent \/ ReadFails \/ ClientGone
  <2>1. phase' # "collecting" /\ UNCHANGED <<cells, bytes>>
    BY <1>6 DEF NoFormulas, AllSent, ReadFails, ClientGone, collected
  <2> QED  BY <2>1, HeldQuiet
<1>7. CASE UNCHANGED vars
  BY <1>7, HeldQuiet DEF vars, collected
<1> QED  BY <1>1, <1>2, <1>3, <1>4, <1>5, <1>6, <1>7 DEF Next

(* The bytes FormulaCollector counts are those it holds, which sorting and *)
(* sending do not add to: the formulas held stay within the byte budget,   *)
(* for every order, length and repetition of them.                         *)
THEOREM HeldCorrect == Spec => []HeldWithinBudget
<1>1. HeldInv => HeldWithinBudget  BY HeldMeans
<1> QED  BY RowsStart, RowsStep, HeldStart, HeldStep, <1>1, PTL DEF Spec

-----------------------------------------------------------------------------
(* ItemStream.                                                             *)

Events == [kind : {"item", "error", "info", "absent"}, item : Nat, size : Nat, terminal : BOOLEAN]

(* What stands for the k-th item. *)
StandsFor(e, item, k) ==
    IF item.readable /\ item.size <= FrameLimit
    THEN e.item = k
    ELSE e.kind = "error" /\ ~e.terminal

(* sent holds h events of header, then one for each of the first n items. *)
AnsweredTo(items, sent, h, n) ==
    /\ sent \in Seq(Events) /\ Len(sent) = h + n
    /\ n \in 0..Len(items)
    /\ \A k \in 1..n : StandsFor(sent[h + k], items[k], k)

(* The loop is at the item after the last one answered. *)
Answered ==
    /\ itemsOf \in Seq([size : Nat, readable : BOOLEAN])
    /\ stageOf = "start" => (events = <<>> /\ next = 1)
    /\ stageOf = "items" =>
        (next \in Nat \ {0} /\ AnsweredTo(itemsOf, events, HeaderCount, next - 1))
    /\ stageOf = "ended" => AnsweredTo(itemsOf, events, HeaderCount, Len(itemsOf))

(* What an item is answered with. *)
LEMMA AnswerMeans ==
  ASSUME NEW item \in [size : Nat, readable : BOOLEAN], NEW i \in Nat
  PROVE  /\ Result(item, i) \in Events
         /\ IF item.readable /\ item.size <= FrameLimit
            THEN Result(item, i).item = i
            ELSE Result(item, i).kind = "error" /\ ~Result(item, i).terminal
<1> DEFINE e == [Event("item", item.size) EXCEPT !.item = i]
           f == StreamError(FALSE)
<1>1. /\ e \in Events
      /\ e.size = item.size /\ e.item = i
  BY DEF Event, Events
<1>2. /\ f \in Events
      /\ f.kind = "error" /\ f.terminal = FALSE
  BY DEF StreamError, Events
<1>3. Result(item, i) = IF item.readable /\ item.size <= FrameLimit THEN e ELSE f
  <2> HIDE DEF f
  <2>1. Result(item, i) = IF item.readable THEN WithinFrame(e) ELSE f
    BY DEF Result, f
  <2>2. WithinFrame(e) = IF e.size <= FrameLimit THEN e ELSE f  BY DEF WithinFrame, f
  <2> HIDE DEF e
  <2> QED  BY <1>1, <2>1, <2>2
<1> HIDE DEF e, f
<1> QED  BY <1>1, <1>2, <1>3

(* What is left without the header. *)
LEMMA AfterHeader ==
  ASSUME NEW e \in Seq(Events), NEW h \in 0..1, h <= Len(e)
  PROVE  /\ Len(SubSeq(e, h + 1, Len(e))) = Len(e) - h
         /\ DOMAIN SubSeq(e, h + 1, Len(e)) = 1..(Len(e) - h)
         /\ \A k \in 1..(Len(e) - h) : SubSeq(e, h + 1, Len(e))[k] = e[h + k]
<1>1. Len(e) \in Nat  BY LenProperties
<1>2. h + 1 \in 1..(Len(e) + 1) /\ Len(e) \in ((h + 1) - 1)..Len(e)  BY <1>1
<1> DEFINE t == SubSeq(e, h + 1, Len(e))
<1>3. /\ t \in Seq(Events) /\ Len(t) = Len(e) - (h + 1) + 1
      /\ \A k \in 1..(Len(e) - (h + 1) + 1) : t[k] = e[(h + 1) + k - 1]
  <2>1. h + 1 \in Int /\ Len(e) \in Int /\ \A i \in (h + 1)..Len(e) : e[i] \in Events
    BY <1>1, <1>2, ElementOfSeq
  <2>2. /\ t \in Seq(Events)
        /\ Len(t) = IF h + 1 <= Len(e) THEN Len(e) - (h + 1) + 1 ELSE 0
        /\ \A k \in 1..(Len(e) - (h + 1) + 1) : t[k] = e[(h + 1) + k - 1]
    BY <2>1, SubSeqProperties
  <2> HIDE DEF t
  <2> QED  BY <1>1, <1>2, <2>2
<1>4. Len(e) - (h + 1) + 1 = Len(e) - h  BY <1>1
<1>5. \A k \in 1..(Len(e) - h) : (h + 1) + k - 1 = h + k  BY <1>1, SMTT(60)
<1>6. DOMAIN t = 1..(Len(e) - h)  BY <1>3, <1>4, LenProperties
<1>7. /\ Len(t) = Len(e) - h
      /\ \A k \in 1..(Len(e) - h) : t[k] = e[h + k]
  BY <1>3, <1>4, <1>5
<1> QED  BY <1>6, <1>7 DEF t

LEMMA AnsweredMeans == Answered => ItemsAnswered
<1> SUFFICES ASSUME Answered, stageOf \in {"items", "ended"}
             PROVE  /\ \A k \in DOMAIN Answers : StandsFor(Answers[k], itemsOf[k], k)
                    /\ stageOf = "ended" => Len(Answers) = Len(itemsOf)
  BY DEF ItemsAnswered, StandsFor
<1> DEFINE n == IF stageOf = "items" THEN next - 1 ELSE Len(itemsOf)
<1>1. AnsweredTo(itemsOf, events, HeaderCount, n) /\ n \in Nat /\ HeaderCount \in 0..1
  BY LenProperties DEF Answered, HeaderCount
<1>2. stageOf = "ended" => n = Len(itemsOf)  OBVIOUS
<1> HIDE DEF n
<1>3. /\ events \in Seq(Events) /\ HeaderCount <= Len(events) /\ Len(events) - HeaderCount = n
      /\ \A k \in 1..n : StandsFor(events[HeaderCount + k], itemsOf[k], k)
  BY <1>1 DEF AnsweredTo
<1>4. /\ Len(Answers) = n
      /\ DOMAIN Answers = 1..n
      /\ \A k \in 1..n : Answers[k] = events[HeaderCount + k]
  BY <1>1, <1>3, AfterHeader DEF Answers
<1> QED  BY <1>2, <1>3, <1>4

LEMMA ItemStart == ItemInit => Answered
<1> SUFFICES ASSUME ItemInit PROVE Answered
  OBVIOUS
<1> DEFINE S == [size : Nat, readable : BOOLEAN]
<1>1. itemsOf \in Seq(S)
  <2>1. PICK n \in 0..MaxItems :
          itemsOf \in [1..n -> {Unreadable} \cup {Readable(s) : s \in ItemSizes}]
    BY DEF ItemInit, ItemLists
  <2>2. ASSUME NEW x \in {Unreadable} \cup {Readable(s) : s \in ItemSizes}  PROVE x \in S
    <3>1. CASE x = Unreadable  BY <3>1 DEF Unreadable
    <3>2. CASE x # Unreadable
      <4>1. PICK s \in ItemSizes : x = Readable(s)  BY <3>2
      <4>2. s \in Nat  BY FrameAssumption
      <4> QED  BY <4>1, <4>2 DEF Readable
    <3> QED  BY <3>1, <3>2
  <2> HIDE DEF S
  <2>3. itemsOf \in [1..n -> S]  BY <2>1, <2>2
  <2>4. n \in Nat  BY FrameAssumption
  <2>5. \A m \in Nat : [1..m -> S] \subseteq Seq(S)  OBVIOUS
  <2> QED  BY <2>3, <2>4, <2>5
<1> QED  BY <1>1 DEF ItemInit, Answered

(* One more item answered. *)
LEMMA AnswerOneMore ==
  ASSUME NEW items \in Seq([size : Nat, readable : BOOLEAN]), NEW sent, NEW h \in 0..1,
         NEW i \in Nat \ {0}, i <= Len(items), AnsweredTo(items, sent, h, i - 1)
  PROVE  AnsweredTo(items, Append(sent, Result(items[i], i)), h, i)
<1> DEFINE a == Result(items[i], i)
           after == Append(sent, a)
<1>1. /\ sent \in Seq(Events) /\ Len(sent) = h + i - 1 /\ Len(sent) \in Nat
      /\ \A k \in 1..(i - 1) : StandsFor(sent[h + k], items[k], k)
  BY DEF AnsweredTo
<1>2. Len(items) \in Nat /\ i \in 1..Len(items) /\ i \in 0..Len(items)  BY LenProperties
<1>3. items[i] \in [size : Nat, readable : BOOLEAN]  BY <1>2, ElementOfSeq
<1>4. a \in Events /\ StandsFor(a, items[i], i)
  BY <1>3, AnswerMeans DEF StandsFor
<1> HIDE DEF a
<1>5. /\ after \in Seq(Events) /\ Len(after) = Len(sent) + 1
      /\ \A k \in 1..Len(sent) : after[k] = sent[k]
      /\ after[Len(sent) + 1] = a
  BY <1>1, <1>4, AppendProperties
<1> HIDE DEF after
<1>6. Len(after) = h + i  BY <1>1, <1>5
<1>7. ASSUME NEW k \in 1..i  PROVE StandsFor(after[h + k], items[k], k)
  <2>1. CASE k = i
    <3>1. h + k = Len(sent) + 1  BY <1>1, <2>1
    <3> QED  BY <1>4, <1>5, <2>1, <3>1
  <2>2. CASE k # i
    <3>1. k \in 1..(i - 1) /\ h + k \in 1..Len(sent)  BY <1>1, <2>2
    <3> QED  BY <1>1, <1>5, <3>1
  <2> QED  BY <2>1, <2>2
<1>8. AnsweredTo(items, after, h, i)  BY <1>2, <1>5, <1>6, <1>7 DEF AnsweredTo
<1> QED  BY <1>8 DEF after, a

LEMMA ItemStep == Answered /\ [ItemNext]_itemVars => Answered'
<1> SUFFICES ASSUME Answered, [ItemNext]_itemVars  PROVE Answered'
  OBVIOUS
<1> USE DEF Finish
<1>1. CASE ReaderRefused
  BY <1>1 DEF ReaderRefused, Answered
<1>2. CASE NoProject
  <2>1. /\ rpc = "vba" /\ itemsOf = <<>> /\ UNCHANGED <<rpc, itemsOf>>
        /\ stageOf' = "ended" /\ events' = <<>> \o <<Event("absent", 1)>>
    BY <1>2 DEF NoProject, Answered
  <2> DEFINE e == Event("absent", 1)
  <2>2. e \in Events  BY DEF Event, Events
  <2> HIDE DEF e
  <2>3. events' = <<e>> /\ <<e>> \in Seq(Events) /\ Len(<<e>>) = 1
    BY <2>1, <2>2, ConcatEmptySeq DEF e
  <2>4. HeaderCount' = 1 /\ Len(itemsOf') = 0  BY <2>1 DEF HeaderCount
  <2>5. AnsweredTo(itemsOf', events', HeaderCount', Len(itemsOf'))
    BY <2>3, <2>4 DEF AnsweredTo
  <2> QED  BY <2>1, <2>5 DEF Answered
<1>3. CASE ProjectFails
  BY <1>3 DEF ProjectFails, Answered
<1>4. CASE Begin
  <2>1. /\ events = <<>> /\ next = 1 /\ UNCHANGED <<rpc, itemsOf, next>> /\ stageOf' = "items"
        /\ itemsOf \in Seq([size : Nat, readable : BOOLEAN])
    BY <1>4 DEF Begin, Answered
  <2>2. events' \in Seq(Events) /\ Len(events') = HeaderCount'
    <3>1. CASE rpc = "vba"
      <4>1. PICK size \in ItemSizes : events' = <<Event("info", size)>>
        BY <1>4, <3>1 DEF Begin
      <4> DEFINE e == Event("info", size)
      <4>2. e \in Events  BY FrameAssumption DEF Event, Events
      <4> HIDE DEF e
      <4>3. events' = <<e>>  BY <4>1 DEF e
      <4> QED  BY <2>1, <3>1, <4>2, <4>3 DEF HeaderCount
    <3>2. CASE rpc # "vba"
      <4>1. events' = <<>>  BY <1>4, <2>1, <3>2 DEF Begin
      <4> QED  BY <2>1, <3>2, <4>1 DEF HeaderCount
    <3> QED  BY <3>1, <3>2
  <2>3. AnsweredTo(itemsOf', events', HeaderCount', 0)
    <3>1. HeaderCount' \in 0..1 /\ itemsOf' = itemsOf /\ Len(itemsOf) \in Nat
      BY <2>1, LenProperties DEF HeaderCount
    <3>2. PICK h, sent : h = HeaderCount' /\ sent = events'  OBVIOUS
    <3>3. h \in 0..1 /\ sent \in Seq(Events) /\ Len(sent) = h  BY <2>2, <3>1, <3>2
    <3>4. AnsweredTo(itemsOf, sent, h, 0)  BY <3>1, <3>3 DEF AnsweredTo
    <3> QED  BY <3>1, <3>2, <3>4
  <2>4. next' \in Nat \ {0} /\ next' - 1 = 0  BY <2>1
  <2> QED  BY <2>1, <2>3, <2>4 DEF Answered
<1>5. CASE SendItem
  <2>1. /\ stageOf = "items" /\ UNCHANGED <<rpc, itemsOf, stageOf>> /\ next <= Len(itemsOf)
        /\ events' = Append(events, Result(itemsOf[next], next))
    BY <1>5 DEF SendItem, Tell
  <2>2. /\ itemsOf \in Seq([size : Nat, readable : BOOLEAN]) /\ next \in Nat \ {0}
        /\ AnsweredTo(itemsOf, events, HeaderCount, next - 1) /\ HeaderCount \in 0..1
    BY <2>1 DEF Answered, HeaderCount
  <2>3. PICK n : n = next' /\ n = next + 1
    BY <1>5 DEF SendItem, Tell
  <2>4. n \in Nat \ {0} /\ n - 1 = next  BY <2>2, <2>3
  <2>5. AnsweredTo(itemsOf, events', HeaderCount, next)
    BY <2>1, <2>2, AnswerOneMore
  <2>6. HeaderCount' = HeaderCount  BY <2>1 DEF HeaderCount
  <2>7. AnsweredTo(itemsOf', events', HeaderCount', next' - 1)
    BY <2>1, <2>3, <2>4, <2>5, <2>6
  <2> QED  BY <2>1, <2>2, <2>3, <2>4, <2>7 DEF Answered
<1>6. CASE AllItemsSent
  <2>1. /\ stageOf = "items" /\ stageOf' = "ended" /\ UNCHANGED <<rpc, itemsOf, next>>
        /\ next > Len(itemsOf) /\ events' = events \o <<>>
    BY <1>6 DEF AllItemsSent
  <2>2. /\ itemsOf \in Seq([size : Nat, readable : BOOLEAN]) /\ next \in Nat \ {0}
        /\ AnsweredTo(itemsOf, events, HeaderCount, next - 1)
    BY <2>1 DEF Answered
  <2>3. next - 1 = Len(itemsOf)
    BY <2>1, <2>2, LenProperties DEF AnsweredTo
  <2>4. events' = events  BY <2>1, <2>2, ConcatEmptySeq DEF AnsweredTo
  <2>5. HeaderCount' = HeaderCount  BY <2>1 DEF HeaderCount
  <2> QED  BY <2>1, <2>2, <2>3, <2>4, <2>5 DEF Answered
<1>7. CASE ClientLeft
  BY <1>7 DEF ClientLeft, Answered
<1>8. CASE UNCHANGED itemVars
  BY <1>8 DEF itemVars, Answered, HeaderCount
<1> QED
  BY <1>1, <1>2, <1>3, <1>4, <1>5, <1>6, <1>7, <1>8 DEF ItemNext

(* Every item is answered in its place, for every list of items, every     *)
(* frame limit and both calls: StreamVbaProject and GetPictures.           *)
THEOREM ItemsCorrect == ItemSpec => []ItemsAnswered
<1>1. ItemSpec => []Answered
  BY ItemStart, ItemStep, PTL DEF ItemSpec
<1> QED  BY <1>1, AnsweredMeans, PTL
=============================================================================
