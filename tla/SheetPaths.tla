----------------------------- MODULE SheetPaths -----------------------------
(***************************************************************************)
(* The body of StreamWorksheetRange from its selector to its end           *)
(* (run_stream_worksheet_range, src/service.rs).  XLSX and XLSB sheets go  *)
(* out cell by cell, as module RowStream says; the other formats, and the  *)
(* sheets whose cells reader calamine refuses (chartsheets), are read as   *)
(* one range, put under the dense-cell budget and copied out row by row    *)
(* through the same batcher.                                               *)
(*                                                                         *)
(* phase of RowStream tells how the stream ended, the refusals that leave  *)
(* by status included.                                                     *)
(***************************************************************************)
EXTENDS RowStream, FiniteSets, FiniteSetsExt

CONSTANTS
    MaxDenseCells,  \* GRPC_CALAMINE_MAX_DENSE_CELLS
    Declared,       \* the extents a sheet may declare: top, left, bottom, right
    Grids,          \* the sheets that may be read as a range
    Word            \* 2^64: what a u64 cannot hold

ASSUME DenseAssumption ==
    /\ Word \in Nat \ {0} /\ MaxDenseCells \in 0..(Word - 1)
    /\ Declared \subseteq Nat \X Nat \X Nat \X Nat
    /\ Grids \subseteq [Rows -> Widths]

VARIABLES
    stage,          \* how far the body is
    lazy,           \* whether calamine has a cells reader for the format
    range,          \* the range calamine built: its corner and its size
    offset,         \* the rows of it gone through
    header          \* RangeStarted: its corners and total_cells

bodyVars == <<stage, lazy, range, offset, header>>
allVars == <<bodyVars, vars>>

NoExtent == [top |-> 0, left |-> 0, height |-> 0, width |-> 0]
NotSent == [corners |-> <<>>, total |-> -1]
Statuses == {"invalid argument", "not found", "resource exhausted"}

BodyInit ==
    /\ Init
    /\ stage = "start"
    /\ lazy \in BOOLEAN
    /\ range = NoExtent
    /\ offset = 0
    /\ header = NotSent

At(s) == phase = "reading" /\ stage = s
EndsWith(how) ==
    /\ phase' = how
    /\ UNCHANGED <<rowVars, batchVars, stringVars, histVars>>

-----------------------------------------------------------------------------
(* resolve_sheet_name: a name is taken as it is, an index is looked up. *)
ResolveSheet(selector) ==
    /\ At("start")
    /\ CASE selector \in {"absent", "empty"} -> EndsWith("invalid argument") /\ UNCHANGED stage
         [] selector = "index past the end" -> EndsWith("not found") /\ UNCHANGED stage
         [] OTHER -> stage' = "resolved" /\ UNCHANGED vars
    /\ UNCHANGED <<lazy, range, offset, header>>

(* checkout: no room for a further reader, or calamine cannot re-open. *)
Checkout(reader) ==
    /\ At("resolved")
    /\ CASE reader = "over budget" -> EndsWith("resource exhausted") /\ UNCHANGED stage
         [] reader = "unreadable" -> EndsWith("failed") /\ UNCHANGED stage
         [] OTHER -> stage' = "borrowed" /\ UNCHANGED vars
    /\ UNCHANGED <<lazy, range, offset, header>>

(* declared_total_cells. *)
DeclaredTotalUnchecked(top, left, bottom, right) ==
    ((bottom - top + 1) * (right - left + 1)) % Word
DeclaredTotal(top, left, bottom, right) ==
    IF bottom < top \/ right < left THEN 0
    ELSE ((bottom - top + 1) * (right - left + 1)) % Word

(* The cells reader opens: emit_incremental starts with what is declared. *)
OpenCells(d) ==
    /\ At("borrowed") /\ lazy
    /\ header' = [corners |-> d, total |-> DeclaredTotal(d[1], d[2], d[3], d[4])]
    /\ stage' = "cells"
    /\ UNCHANGED <<lazy, range, offset, vars>>

(* The format has none, or calamine refuses one for this sheet.  With a    *)
(* header already out, the fallback could no longer be refused by status.  *)
HeaderThenFallBack ==
    /\ At("borrowed")
    /\ stage' = "whole"
    /\ header' = IF lazy THEN [corners |-> <<0, 0, 0, 0>>, total |-> 1] ELSE header
    /\ UNCHANGED <<lazy, range, offset, vars>>
FallBack ==
    /\ At("borrowed")
    /\ stage' = "whole"
    /\ UNCHANGED <<lazy, range, offset, header, vars>>

-----------------------------------------------------------------------------
(* The range calamine builds spans the cells that hold something, from the *)
(* selected header row on where there is one.                              *)
TopRow == IF HeaderRow = NoRow THEN 0 ELSE HeaderRow
InSheet(r) == r >= TopRow
UsedRows(s) == {r \in Rows : InSheet(r) /\ \E c \in Cols : s[r][c] # 0}
UsedCols(s) == {c \in Cols : \E r \in UsedRows(s) : s[r][c] # 0}
Spanned(s) ==
    IF UsedRows(s) = {} THEN NoExtent
    ELSE LET top == IF HeaderRow # NoRow THEN HeaderRow ELSE Min(UsedRows(s)) IN
         [top |-> top, left |-> Min(UsedCols(s)),
          height |-> Max(UsedRows(s)) - top + 1,
          width |-> Max(UsedCols(s)) - Min(UsedCols(s)) + 1]

ReadRange(found) ==
    /\ At("whole")
    /\ sheet' = [r \in Rows |-> IF InSheet(r) THEN found[r] ELSE EmptyRow]
    /\ range' = Spanned(sheet')
    /\ stage' = "built"
    /\ UNCHANGED <<lazy, offset, header, phase, rowVars, batchVars, stringVars, read, ref>>

(* abort_with: calamine cannot read the sheet. *)
RangeFails ==
    /\ At("whole")
    /\ EndsWith("failed")
    /\ UNCHANGED bodyVars

(* check_dense_range: columns are counted from A. *)
FitsAsStored == range.height * range.width <= MaxDenseCells
FitsDense == Least(range.height * (range.left + range.width), Word - 1) <= MaxDenseCells

TooDense ==
    /\ At("built") /\ ~FitsDense
    /\ EndsWith("resource exhausted")
    /\ UNCHANGED bodyVars

(* range_header, then open_at; the header is the whole of an empty range. *)
RangeHeader ==
    IF range.height = 0 THEN [corners |-> <<>>, total |-> 0]
    ELSE [corners |-> <<range.top, range.left, range.top + range.height - 1,
                        range.left + range.width - 1>>,
          total |-> (range.height * range.width) % Word]

StartRange ==
    /\ At("built") /\ FitsDense
    /\ header' = RangeHeader
    /\ IF range.height = 0
       THEN phase' = "ended" /\ UNCHANGED <<stage, nextExpected>>
       ELSE /\ stage' = "copying"
            /\ nextExpected' = range.top
            /\ UNCHANGED phase
    /\ UNCHANGED <<lazy, range, offset, rowVars, queue, highestSent, wire,
                   stringVars, histVars>>

(* A row of the range, moved to its absolute columns. *)
RangeRow(i) == [j \in 0..(range.width - 1) |-> sheet[range.top + i][range.left + j]]
UnpaddedRow(i) == [c \in Cols |-> IF c < range.width THEN RangeRow(i)[c] ELSE 0]
PaddedRow(i) ==
    [c \in Cols |-> IF c - range.left \in 0..(range.width - 1)
                    THEN RangeRow(i)[c - range.left] ELSE 0]

(* A row that holds nothing is left for a gap to announce. *)
CopyRow ==
    /\ At("copying") /\ offset < range.height
    /\ offset' = offset + 1
    /\ UNCHANGED <<interned, stage, lazy, range, header, phase, rowVars, histVars>>
    /\ IF PaddedRow(offset) = EmptyRow
       THEN UNCHANGED <<batchVars, defined>>
       ELSE Push(range.top + offset, PaddedRow(offset))

EndRange ==
    /\ At("copying") /\ offset = range.height
    /\ phase' = "ended"
    /\ UNCHANGED <<interned, bodyVars, rowVars, histVars>>
    /\ Flush(queue)

(* A send finds the client gone; in RowStream for the cells. *)
GoneEarly ==
    /\ stage \in {"borrowed", "built", "copying"}
    /\ ClientGone
    /\ UNCHANGED bodyVars

StreamCells == stage = "cells" /\ Next /\ UNCHANGED bodyVars

BodyNext ==
    \/ \E selector \in {"absent", "empty", "index past the end", "name or index"} :
            ResolveSheet(selector)
    \/ \E reader \in {"over budget", "unreadable", "lent"} : Checkout(reader)
    \/ (\E d \in Declared : OpenCells(d)) \/ FallBack
    \/ (\E found \in Grids : ReadRange(found)) \/ RangeFails
    \/ TooDense \/ StartRange \/ CopyRow \/ EndRange
    \/ GoneEarly
    \/ StreamCells

BodySpec == BodyInit /\ [][BodyNext]_allVars
-----------------------------------------------------------------------------
(* A refusal by status is sent before anything else of the stream: its     *)
(* blocking_send has no time limit, and finds the channel empty only so.   *)
(* The fallback of a refused cells reader is no exception.  And a stream   *)
(* that ends well has started.                                             *)
RefusedBeforeStarted ==
    /\ phase \in Statuses => header = NotSent /\ wire = <<>>
    /\ phase = "ended" \/ wire # <<>> => header # NotSent

(* Whichever path a sheet takes, its client ends with the cells calamine's *)
(* worksheet_range holds, each at its absolute row and column, and gets no *)
(* row that holds nothing.  A range's rows strictly ascend.                *)
SameCells ==
    LET at(r) == {i \in DOMAIN wire : wire[i].row = r} IN
    phase = "ended" =>
        /\ \A r \in Rows, c \in Cols : sheet[r][c] # 0 => Sent(r, c, sheet[r][c])
        /\ \A i \in DOMAIN wire :
            /\ wire[i].vals # EmptyRow
            /\ at(wire[i].row) = {i} => wire[i].vals = sheet[wire[i].row]
        /\ stage = "copying" => \A i, j \in DOMAIN wire : i < j => wire[i].row < wire[j].row

(* total_cells counts the cells between the header's corners, also where a *)
(* sheet declares them the wrong way round, or is empty; a count past u64  *)
(* wraps.  Of a range the corners are those of its cells, which is what a  *)
(* client may size its grid by.                                            *)
HeaderCounts ==
    header # NotSent =>
        LET d == header.corners IN
        IF d = <<>> THEN header.total = 0 /\ UsedRows(sheet) = {}
        ELSE /\ header.total = Cardinality((d[1]..d[3]) \X (d[2]..d[4])) % Word
             /\ stage = "copying" => \A i \in DOMAIN wire :
                    wire[i].row \in d[1]..d[3]
                    /\ \A c \in Cols : wire[i].vals[c] # 0 => c \in d[2]..d[4]

(* A range streams if and only if its rows, from column A to its last      *)
(* column, are within the budget; a budget of all that a u64 can say       *)
(* refuses nothing, for saturating_mul stops there.                        *)
RangeWithinBudget ==
    LET dense == Cardinality((range.top..(range.top + range.height - 1))
                             \X (0..(range.left + range.width - 1))) IN
    /\ stage = "copying" /\ MaxDenseCells < Word - 1 => dense <= MaxDenseCells
    /\ stage = "built" /\ phase = "resource exhausted" => dense > MaxDenseCells
=============================================================================
