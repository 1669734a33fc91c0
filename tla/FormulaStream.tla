--------------------------- MODULE FormulaStream ---------------------------
(***************************************************************************)
(* StreamWorksheetFormula (src/service.rs) over one sheet.  For XLSX and   *)
(* XLSB a FormulaCollector takes the formulas cell by cell under two       *)
(* budgets, the cells the stream would densify and the bytes they hold,    *)
(* and emit_sparse_formulas sorts them and builds one row at a time.  For  *)
(* XLS and ODS calamine has built the range when it opened the workbook,   *)
(* and the stream copies it out.                                           *)
(*                                                                         *)
(* A formula is the number of its arrival, 0 an empty string, and has a    *)
(* length in bytes.  Cells may come in any order and more than once.       *)
(***************************************************************************)
EXTENDS Integers, Sequences, FiniteSets, FiniteSetsExt, Bounds

CONSTANTS
    MaxRow, MaxCol,     \* the corner of the grid: rows 0..MaxRow, columns 0..MaxCol
    TextLengths,            \* the bytes a formula's text may have
    SlotBytes,          \* size_of::<FormulaCell>()
    MaxDenseCells,      \* GRPC_CALAMINE_MAX_DENSE_CELLS
    MaxFormulaBytes,    \* GRPC_CALAMINE_MAX_FORMULA_BYTES
    Word,               \* 2^64: what a u64 cannot hold
    MaxCells            \* bound: formulas read before the sheet ends

Rows == 0..MaxRow
Cols == 0..MaxCol
Nowhere == -1

ASSUME GridAssumption ==
    /\ MaxRow \in Nat /\ MaxCol \in Nat /\ MaxCells \in Nat
    /\ TextLengths \subseteq Nat \ {0} /\ SlotBytes \in Nat
    /\ Word \in Nat \ {0}
    /\ MaxDenseCells \in 0..(Word - 1) /\ MaxFormulaBytes \in 0..(Word - 1)

VARIABLES
    sparse,         \* whether the format is XLSX or XLSB
    phase,          \* where the body is, or what it came to
    cells,          \* FormulaCollector::cells, sorted once they are all in
    first,          \* FormulaCollector::rows, and then the rows to send
    last,
    lastCol,        \* FormulaCollector::last_col, and then the last column
    bytes,          \* FormulaCollector::bytes
    header,         \* RangeStarted: its dimensions and total_cells
    wire,           \* the rows sent
    read,           \* history: formulas read
    sheet           \* history: the formula read last at each cell, 0 for none

collected == <<cells, first, last, lastCol, bytes>>
vars == <<sparse, phase, collected, header, wire, read, sheet>>

NoHeader == [corners |-> <<>>, total |-> 0]

Init ==
    /\ sparse \in BOOLEAN
    /\ phase = "collecting"
    /\ cells = <<>>
    /\ first = Nowhere /\ last = Nowhere
    /\ lastCol = 0
    /\ bytes = 0
    /\ header = NoHeader
    /\ wire = <<>>
    /\ read = 0
    /\ sheet = [r \in Rows |-> [c \in Cols |-> 0]]


(* check_dense: u64::saturating_mul. *)
FitsWrapping(rows, columns) == (rows * columns) % Word <= MaxDenseCells
Fits(rows, columns) == Lesser(rows * columns, Word - 1) <= MaxDenseCells

-----------------------------------------------------------------------------
(***************************************************************************)
(* FormulaCollector.                                                       *)
(***************************************************************************)
CostOfText(length) == length
Cost(length) == length + SlotBytes

ExtentLast(row) == [lo |-> IF first = Nowhere THEN row ELSE first, hi |-> row]
Extent(row) ==
    [lo |-> IF first = Nowhere THEN row ELSE Lesser(first, row),
     hi |-> Greater(last, row)]

Arrives(row, col) ==
    /\ read < MaxCells
    /\ read' = read + 1
    /\ sheet' = [sheet EXCEPT ![row][col] = read + 1]

(* push: the extent first, then the bytes; a cell past either is not kept. *)
Collect(row, col, length) ==
    /\ sparse /\ phase = "collecting"
    /\ Arrives(row, col)
    /\ first' = Extent(row).lo /\ last' = Extent(row).hi
    /\ lastCol' = Greater(lastCol, col)
    /\ IF ~Fits(last' - first' + 1, lastCol' + 1)
       THEN phase' = "overCells" /\ UNCHANGED <<cells, bytes>>
       ELSE /\ bytes' = Lesser(bytes + Cost(length), Word - 1)
            /\ IF bytes' > MaxFormulaBytes
               THEN phase' = "overBytes" /\ UNCHANGED cells
               ELSE /\ cells' = Append(cells, [row |-> row, col |-> col,
                                               id |-> read + 1, length |-> length])
                    /\ UNCHANGED phase
    /\ UNCHANGED <<sparse, header, wire>>

(* calamine read the formulas of the other formats with the workbook. *)
InRange(row, col) ==
    /\ ~sparse /\ phase = "collecting"
    /\ Arrives(row, col)
    /\ UNCHANGED <<sparse, phase, collected, header, wire>>

(* calamine cannot read the sheet. *)
ReadFails ==
    /\ phase = "collecting"
    /\ phase' = "failed"
    /\ UNCHANGED <<sparse, collected, header, wire, read, sheet>>

-----------------------------------------------------------------------------
(***************************************************************************)
(* emit_sparse_formulas and the dense path.                                *)
(***************************************************************************)
(* A stable sort by row and column; an unstable one may swap two formulas  *)
(* of one cell.                                                            *)
Before(x, y) == x.row < y.row \/ (x.row = y.row /\ x.col < y.col)
SortsUnstable(s) ==
    {p \in [DOMAIN s -> DOMAIN s] :
        \A i, j \in DOMAIN s : i < j => p[i] # p[j] /\ ~Before(s[p[j]], s[p[i]])}
Sorts(s) ==
    {p \in [DOMAIN s -> DOMAIN s] :
        \A i, j \in DOMAIN s : i < j =>
            /\ p[i] # p[j] /\ ~Before(s[p[j]], s[p[i]])
            /\ ~Before(s[p[i]], s[p[j]]) => p[i] < p[j]}

NoFormulas ==
    /\ phase = "collecting"
    /\ IF sparse THEN cells = <<>> ELSE read = 0
    /\ phase' = "ended"
    /\ UNCHANGED <<sparse, collected, header, wire, read, sheet>>

Announce(top, bottom, left, right) ==
    /\ header' = [corners |-> <<top, left, bottom, right>>,
                  total |-> (bottom - top + 1) * (right - left + 1)]
    /\ first' = top /\ last' = bottom /\ lastCol' = right

(* The cells are all in.  The extent is worked out, and checked, again. *)
EmitSparse ==
    LET used == {cells[i].col : i \in DOMAIN cells} IN
    /\ sparse /\ phase = "collecting" /\ cells # <<>>
    /\ \E p \in Sorts(cells) :
        LET sorted == [i \in DOMAIN cells |-> cells[p[i]]]
            top == sorted[1].row
            bottom == sorted[Len(sorted)].row IN
        /\ cells' = sorted
        /\ IF Fits(bottom - top + 1, Max(used) + 1)
           THEN /\ Announce(top, bottom, Min(used), Max(used))
                /\ phase' = "sending"
           ELSE /\ phase' = "overLate"
                /\ UNCHANGED <<first, last, lastCol, header>>
    /\ UNCHANGED <<sparse, bytes, wire, read, sheet>>

(* The corners of what calamine's range spans. *)
RowsUsed == {r \in Rows : \E c \in Cols : sheet[r][c] # 0}
ColsUsed == {c \in Cols : \E r \in Rows : sheet[r][c] # 0}

EmitDense ==
    LET height == Max(RowsUsed) - Min(RowsUsed) + 1
        width == Max(ColsUsed) - Min(ColsUsed) + 1 IN
    /\ ~sparse /\ phase = "collecting" /\ read > 0
    /\ IF Fits(height, Min(ColsUsed) + width)
       THEN /\ Announce(Min(RowsUsed), Max(RowsUsed), Min(ColsUsed), Max(ColsUsed))
            /\ phase' = "sending"
       ELSE /\ phase' = "overCells"
            /\ UNCHANGED <<first, last, lastCol, header>>
    /\ UNCHANGED <<sparse, cells, bytes, wire, read, sheet>>

(* One row, as wide as the last column: the cells of its row are taken off *)
(* the front and written one over the other, or the range's row is padded. *)
Taken(row) ==
    CHOOSE n \in 0..Len(cells) :
        /\ \A i \in 1..n : cells[i].row = row
        /\ n < Len(cells) => cells[n + 1].row # row

RowOf(row, n) ==
    [c \in 0..lastCol |->
        IF ~sparse THEN sheet[row][c]
        ELSE LET at == {i \in 1..n : cells[i].col = c} IN
             IF at = {} THEN 0 ELSE cells[Max(at)].id]

SendRow ==
    LET row == first + Len(wire) IN
    /\ phase = "sending" /\ row <= last
    /\ wire' = Append(wire, RowOf(row, Taken(row)))
    /\ cells' = SubSeq(cells, Taken(row) + 1, Len(cells))
    /\ UNCHANGED <<sparse, phase, first, last, lastCol, bytes, header, read, sheet>>

AllSent ==
    /\ phase = "sending" /\ first + Len(wire) > last
    /\ phase' = "ended"
    /\ UNCHANGED <<sparse, collected, header, wire, read, sheet>>

(* send_event finds the client gone, or stalled for too long. *)
ClientGone ==
    /\ phase \in {"collecting", "sending"}
    /\ phase' = "gone"
    /\ UNCHANGED <<sparse, collected, header, wire, read, sheet>>

Next ==
    \/ \E row \in Rows, col \in Cols :
        InRange(row, col) \/ \E length \in TextLengths : Collect(row, col, length)
    \/ ReadFails \/ NoFormulas \/ EmitSparse \/ EmitDense
    \/ SendRow \/ AllSent \/ ClientGone

Spec == Init /\ [][Next]_vars
-----------------------------------------------------------------------------
Cell == [row : Rows, col : Cols, id : 1..MaxCells, length : TextLengths]

TypeOK ==
    /\ sparse \in BOOLEAN
    /\ phase \in {"collecting", "sending", "ended", "failed", "gone",
                  "overCells", "overBytes", "overLate"}
    /\ cells \in Seq(Cell)
    /\ first \in Rows \cup {Nowhere} /\ last \in Rows \cup {Nowhere}
    /\ first <= last
    /\ lastCol \in Cols
    /\ bytes \in 0..(Word - 1)
    /\ header.total \in Nat
    /\ \A i \in DOMAIN wire : wire[i] \in [0..lastCol -> 0..MaxCells]
    /\ read \in 0..MaxCells
    /\ sheet \in [Rows -> [Cols -> 0..MaxCells]]

(* What a sparse sheet streams is what the range calamine would densify    *)
(* holds, row by row, in both paths alike: of two formulas at one cell the *)
(* later, nothing moved to another row or column, nothing left behind.     *)
(* The header gave its corners and its size.                               *)
RowsFaithful ==
    /\ \A i \in DOMAIN wire : \A c \in Cols :
        sheet[first + i - 1][c] = IF c <= lastCol THEN wire[i][c] ELSE 0
    /\ phase = "ended" =>
        /\ cells = <<>>
        /\ \A r \in RowsUsed : first <= r /\ r < first + Len(wire)
        /\ IF RowsUsed = {} THEN header.total = 0
           ELSE /\ header.corners =
                    <<Min(RowsUsed), Min(ColsUsed), Max(RowsUsed), Max(ColsUsed)>>
                /\ header.total = Len(wire) * Cardinality(Min(ColsUsed)..Max(ColsUsed))

(* No stream sends more cells than the budget, and none is refused inside  *)
(* it: what is refused would send more.  Sizes that pass 2^64 included,    *)
(* but for a budget of u64::MAX, which what saturates still fits.          *)
(* The collector has refused whatever emit_sparse_formulas could: its own  *)
(* check of the extent, from other data, never fires.                      *)
DenseWithinBudget ==
    LET dense == (Max(RowsUsed) - Min(RowsUsed) + 1) * (Max(ColsUsed) + 1) IN
    /\ phase = "sending" /\ MaxDenseCells < Word - 1 => dense <= MaxDenseCells
    /\ phase = "overCells" => dense > MaxDenseCells
    /\ phase # "overLate"

(* The formulas a collector holds stay within the byte budget, whatever    *)
(* order they are sorted into and however many are sent; but for a budget  *)
(* of u64::MAX, which the count that saturates never passes.               *)
HeldWithinBudget ==
    LET held[i \in 0..Len(cells)] ==
            IF i = 0 THEN 0 ELSE held[i - 1] + (cells[i].length + SlotBytes) IN
    MaxFormulaBytes < Word - 1 => held[Len(cells)] <= MaxFormulaBytes

=============================================================================
