----------------------------- MODULE BenchWalk -----------------------------
(***************************************************************************)
(* The proof of same work of the benchmarks (bench/src/main.rs and         *)
(* bench/src/bin/packed.rs): while the server streams a sheet (module      *)
(* RowStream, the third arm), an arm walks the same cells into a dense     *)
(* grid of its own.  Both sides feed an order-sensitive digest, which is   *)
(* taken here for what it is fed, and packed.rs also encodes the grid in   *)
(* three ways and digests what they decode to.                             *)
(*                                                                         *)
(* Values are those of RowStream; value 0 is also a formatted blank cell,  *)
(* which the server drops and the walk keeps.  A row of the walk is a      *)
(* sequence, from column A on.                                             *)
(***************************************************************************)
EXTENDS RowStream, SequencesExt

CONSTANTS
    Kinds,          \* DataRef's variants of values 1, 2, ..., unless shared
    BatchRows       \* rows per Batch of packed.rs

Variants == {"Int", "Float", "String", "Bool", "DateTime", "DateTimeIso",
             "DurationIso", "Error"}

ASSUME WalkAssumption ==
    /\ Kinds \in Seq(Variants) /\ Len(Kinds) >= MaxCells
    /\ BatchRows \in Nat \ {0}

VARIABLES
    declared,       \* dims.end.1: the last column the sheet declares
    began,          \* open, of the walk
    at,             \* its current_row
    line,           \* its values; their number is its width
    hasValue,       \* row_has_value
    started,
    pendingEmpty,   \* pending_empty
    grid,           \* the rows on_row was called for
    batch,          \* batches, and the pending one: first_row, width, cells
    inOrder         \* history: no cell came after one of a later row

walkVars == <<declared, began, at, line, hasValue, started, pendingEmpty,
              grid, batch, inOrder>>

Blank(n) == [i \in 1..n |-> 0]

WalkInit ==
    /\ declared \in Cols
    /\ began = FALSE /\ at = 0
    /\ line = Blank(declared + 1)
    /\ hasValue = FALSE /\ started = FALSE
    /\ pendingEmpty = 0
    /\ grid = <<>>
    /\ batch = [done |-> <<>>, first |-> 0, width |-> declared + 1, cells |-> <<>>]
    /\ inOrder = TRUE

-----------------------------------------------------------------------------
(* The rows a completed row releases: the blank ones before it, and it. *)
Released ==
    IF ~hasValue THEN <<>>
    ELSE Append([i \in 1..pendingEmpty |->
                    [row |-> at - pendingEmpty + i - 1, vals |-> Blank(Len(line))]],
                [row |-> at, vals |-> line])

(* push_row: what is pending is padded to the width of a wider row. *)
KeptNarrow(cells, old, width) == cells
Repadded(cells, old, width) ==
    [k \in 1..((Len(cells) \div old) * width) |->
        LET r == (k - 1) \div width  c == (k - 1) % width IN
        IF c < old THEN cells[r * old + c + 1] ELSE 0]

Closed(b) == Append(b.done, [first |-> b.first, width |-> b.width, cells |-> b.cells])

PushRow(b, r) ==
    LET w == Len(r.vals)
        ready == IF b.cells = <<>> THEN [b EXCEPT !.first = r.row, !.width = w]
                 ELSE IF b.width < w
                 THEN [b EXCEPT !.width = w, !.cells = Repadded(b.cells, b.width, w)]
                 ELSE b
        more == [ready EXCEPT !.cells = @ \o r.vals] IN
    IF Len(more.cells) \div more.width >= BatchRows
    THEN [more EXCEPT !.done = Closed(more), !.cells = <<>>]
    ELSE more

PushAll(b, rows) ==
    LET upTo[i \in 0..Len(rows)] == IF i = 0 THEN b ELSE PushRow(upTo[i - 1], rows[i]) IN
    upTo[Len(rows)]

(* Rows without a value wait, after the first, for one with a value. *)
WaitingUncleared(row) ==
    IF started \/ hasValue THEN pendingEmpty + row - at - 1 ELSE 0
EmptyUntil(row) ==
    IF hasValue THEN row - at - 1
    ELSE IF started THEN pendingEmpty + row - at
    ELSE 0

(* A cell of the walk: the rows before its own are completed first.  One   *)
(* that comes late lands in whatever row is being built.                   *)
Walk(row, col, v) ==
    LET closes == began /\ at < row
        fresh == IF closes THEN Blank(Len(line)) ELSE line
        grown == fresh \o Blank(col + 1 - Len(fresh)) IN
    /\ began' = TRUE
    /\ at' = IF began /\ row < at THEN at ELSE row
    /\ line' = [grown EXCEPT ![col + 1] = v]
    /\ hasValue' = (v # 0 \/ (hasValue /\ ~closes))
    /\ inOrder' = (inOrder /\ (began => at <= row))
    /\ UNCHANGED declared
    /\ IF closes
       THEN /\ started' = (started \/ hasValue)
            /\ pendingEmpty' = EmptyUntil(row)
            /\ grid' = grid \o Released
            /\ batch' = PushAll(batch, Released)
       ELSE UNCHANGED <<started, pendingEmpty, grid, batch>>

WalkEnds ==
    LET last == PushAll(batch, Released) IN
    /\ grid' = grid \o Released
    /\ batch' = IF last.cells = <<>> THEN last
                ELSE [last EXCEPT !.done = Closed(last), !.cells = <<>>]
    /\ UNCHANGED <<declared, began, at, line, hasValue, started, pendingEmpty, inOrder>>

-----------------------------------------------------------------------------
BothRead(row, col, id) ==
    /\ \/ FirstCell(row, col, id) \/ SameRow(row, col, id) \/ NextRow(row, col, id)
       \/ LateRow(row, col, id) \/ TooLate(row, col, id)
    /\ Walk(row, col, read + 1)

(* The server skips a formatted blank cell; a sheet lists a cell once. *)
BothMeetBlank(row, col) ==
    /\ phase = "reading"
    /\ began => at < row \/ (at = row /\ (col + 1 \in DOMAIN line => line[col + 1] = 0))
    /\ Walk(row, col, 0)
    /\ UNCHANGED vars

BothEnd == EndOfSheet /\ WalkEnds

BenchInit == Init /\ WalkInit
BenchNext ==
    \/ \E row \in Rows, col \in Cols :
        \/ \E id \in 0..Least(interned + 1, MaxCells) : BothRead(row, col, id)
        \/ BothMeetBlank(row, col)
    \/ BothEnd
    \/ (ReadFails \/ ClientGone) /\ UNCHANGED walkVars
BenchSpec == BenchInit /\ [][BenchNext]_<<vars, walkVars>>

-----------------------------------------------------------------------------
(***************************************************************************)
(* What a cell becomes on each side, and its bytes.                        *)
(***************************************************************************)
KindOf(n) ==
    IF n = 0 THEN "Empty" ELSE IF ref[n] # 0 THEN "SharedString" ELSE Kinds[n]
Fixed == {"Int", "Float", "Bool", "DateTime"}
Text == {"String", "SharedString", "DateTimeIso", "DurationIso"}
Payload(n) ==
    CASE KindOf(n) \in {"Empty", "Error"} -> <<>>
      [] KindOf(n) = "SharedString" -> [i \in 1..ref[n] |-> -ref[n]]
      [] KindOf(n) \in Text \ {"SharedString"} -> [i \in 1..(n % 3) |-> n]
      [] OTHER -> <<n>>

TagOfRef == [Empty |-> 0, Int |-> 1, Float |-> 2, String |-> 3, SharedString |-> 4,
             Bool |-> 5, DateTime |-> 6, DateTimeIso |-> 7, DurationIso |-> 8, Error |-> 9]
data_ref_value ==
    [Empty |-> "empty", Int |-> "int_value", Float |-> "float_value",
     String |-> "string_value", SharedString |-> "shared_string_value",
     Bool |-> "bool_value", DateTime |-> "date_time", DateTimeIso |-> "date_time_iso",
     DurationIso |-> "duration_iso", Error |-> "error"]
TagOfValue == [empty |-> 0, int_value |-> 1, float_value |-> 2, string_value |-> 3,
               shared_string_value |-> 4, bool_value |-> 5, date_time |-> 6,
               date_time_iso |-> 7, duration_iso |-> 8, error |-> 9]

RowMark(row) == <<"row", row>>
FromRef(n) == <<TagOfRef[KindOf(n)], Payload(n)>>
FromValue(n) == <<TagOfValue[data_ref_value[KindOf(n)]], Payload(n)>>
OfRows(rows, ofRefs) ==
    LET OfCell(n) == IF ofRefs THEN FromRef(n) ELSE FromValue(n) IN
    FlattenSeq([i \in DOMAIN rows |->
        <<RowMark(rows[i].row)>> \o [k \in DOMAIN rows[i].vals |-> OfCell(rows[i].vals[k])]])

(* arm_grpc: a gap is filled as wide as the row before it, and an id is    *)
(* looked up in the table streamed so far.                                 *)
Resolved(n, defs) ==
    IF n # 0 /\ ref[n] # 0
    THEN IF ref[n] <= defs THEN <<4, Payload(n)>> ELSE <<"no such id", ref[n]>>
    ELSE FromValue(n)

LastCol(vals) == CHOOSE c \in Cols : vals[c] # 0 /\ \A d \in Cols : d > c => vals[d] = 0

FeedBareGaps(d, r) ==
    [fed |-> d.fed \o [k \in 1..r.gap |-> RowMark(r.row - r.gap + k - 1)]
             \o <<RowMark(r.row)>>
             \o [k \in 1..(LastCol(r.vals) + 1) |-> Resolved(r.vals[k - 1], r.defs)],
     width |-> LastCol(r.vals) + 1]
Feed(d, r) ==
    [fed |-> d.fed \o OfRows([k \in 1..r.gap |->
                            [row |-> r.row - r.gap + k - 1, vals |-> Blank(d.width)]],
                            FALSE)
             \o <<RowMark(r.row)>>
             \o [k \in 1..(LastCol(r.vals) + 1) |-> Resolved(r.vals[k - 1], r.defs)],
     width |-> LastCol(r.vals) + 1]

Arm1 == OfRows(grid, TRUE)
Arm2 == OfRows(grid, FALSE)
Arm3 ==
    LET upTo[i \in 0..Len(wire)] ==
        IF i = 0 THEN [fed |-> <<>>, width |-> 0] ELSE Feed(upTo[i - 1], wire[i]) IN
    upTo[Len(wire)].fed

-----------------------------------------------------------------------------
(***************************************************************************)
(* The encodings of packed.rs.  A batch's cells are numbered from 1.       *)
(***************************************************************************)
Height(b) == Len(b.cells) \div b.width
Marked(b, i) == IF (i - 1) % b.width = 0 THEN <<RowMark(b.first + (i - 1) \div b.width)>>
                ELSE <<>>

encode_contract(b) ==
    [r \in 1..Height(b) |->
        [row_index |-> b.first + r - 1,
         values |-> [c \in 1..b.width |->
                        LET n == b.cells[(r - 1) * b.width + c] IN
                        [value |-> data_ref_value[KindOf(n)], bytes |-> Payload(n)]]]]
decode_contract(m) ==
    FlattenSeq([r \in DOMAIN m |->
        <<RowMark(m[r].row_index)>> \o
        [c \in DOMAIN m[r].values |->
            <<TagOfValue[m[r].values[c].value], m[r].values[c].bytes>>]])

(* What one cell adds to fixed, lens and text.  With the dictionary a       *)
(* shared string is a number.                                              *)
ById(n, useDict) == useDict /\ KindOf(n) = "SharedString"
InText(n, useDict) == KindOf(n) \in Text /\ ~ById(n, useDict)
FixedOf(n, useDict) ==
    IF ById(n, useDict) THEN <<ref[n]>> ELSE IF KindOf(n) \in Fixed THEN <<n>> ELSE <<>>
LensOf(n, useDict) == IF InText(n, useDict) THEN <<Len(Payload(n))>> ELSE <<>>
TextOf(n, useDict) == IF InText(n, useDict) THEN Payload(n) ELSE <<>>

encode_packed(b, useDict) ==
    [first |-> b.first, width |-> b.width, count |-> Height(b),
     tags  |-> [i \in DOMAIN b.cells |-> TagOfRef[KindOf(b.cells[i])]],
     fixed |-> FlattenSeq([i \in DOMAIN b.cells |-> FixedOf(b.cells[i], useDict)]),
     lens  |-> FlattenSeq([i \in DOMAIN b.cells |-> LensOf(b.cells[i], useDict)]),
     text  |-> FlattenSeq([i \in DOMAIN b.cells |-> TextOf(b.cells[i], useDict)])]

DictGet(id) == [i \in 1..id |-> -id]

(* The cursor: numbers and texts taken, bytes of text taken, cells out. *)
TakeTextKeepingOffset(p, d, tag) ==
    [d EXCEPT !.texts = @ + 1,
              !.out = Append(@, <<tag, SubSeq(p.text, d.bytes + 1, d.bytes + p.lens[d.texts + 1])>>)]
TakeText(p, d, tag) ==
    LET len == p.lens[d.texts + 1] IN
    [d EXCEPT !.texts = @ + 1, !.bytes = @ + len,
              !.out = Append(@, <<tag, SubSeq(p.text, d.bytes + 1, d.bytes + len)>>)]
TakeFixed(p, d, tag, useDict) ==
    LET v == p.fixed[d.numbers + 1] IN
    [d EXCEPT !.numbers = @ + 1,
              !.out = Append(@, <<tag, IF tag = 4 /\ useDict THEN DictGet(v) ELSE <<v>> >>)]

TakeCell(p, d, i, useDict) ==
    LET tag == p.tags[i]
        m == [d EXCEPT !.out = @ \o Marked(p, i)] IN
    CASE tag \in {0, 9} -> [m EXCEPT !.out = Append(@, <<tag, <<>> >>)]
      [] tag \in {1, 2, 5, 6} \/ (tag = 4 /\ useDict) -> TakeFixed(p, m, tag, useDict)
      [] OTHER -> TakeText(p, m, tag)
decode_packed(p, useDict) ==
    LET upTo[i \in 0..(p.count * p.width)] ==
        IF i = 0 THEN [numbers |-> 0, texts |-> 0, bytes |-> 0, out |-> <<>>]
        ELSE TakeCell(p, upTo[i - 1], i, useDict) IN
    upTo[p.count * p.width].out

SourceGrid(b) ==
    FlattenSeq([i \in DOMAIN b.cells |-> Append(Marked(b, i), FromRef(b.cells[i]))])

-----------------------------------------------------------------------------
ValuedRows == {r \in Rows : \E c \in Cols : sheet[r][c] # 0}
InGrid(i, r, c) == grid[i].row = r /\ c < Len(grid[i].vals)

(* The walk of a sheet in order comes to calamine's own range: every row   *)
(* from the first with a value to the last, none before or after whatever  *)
(* blank cells are there, each value in its row and column.                *)
WalkIsRange ==
    phase = "ended" /\ inOrder =>
        /\ \A i \in DOMAIN grid :
            /\ grid[i].row \in Rows
            /\ i > 1 => grid[i].row = grid[i - 1].row + 1
            /\ \A c \in 1..Len(grid[i].vals) : grid[i].vals[c] = sheet[grid[i].row][c - 1]
        /\ grid # <<>> => {grid[1].row, Last(grid).row} \subseteq ValuedRows
        /\ \A r \in ValuedRows, c \in Cols :
            sheet[r][c] # 0 => \E i \in DOMAIN grid : InGrid(i, r, c)

(* packed.rs: every batch is rectangular, whatever widened while it was    *)
(* pending, and the batches are the grid, in order.                        *)
BatchesCarryGrid ==
    phase = "ended" =>
        LET rowsOf(b) == [r \in 1..Height(b) |->
                [row |-> b.first + r - 1,
                 vals |-> SubSeq(b.cells, (r - 1) * b.width + 1, r * b.width)]]
            all == FlattenSeq([i \in DOMAIN batch.done |-> rowsOf(batch.done[i])]) IN
        /\ \A i \in DOMAIN batch.done : Len(batch.done[i].cells) % batch.done[i].width = 0
        /\ Len(all) = Len(grid)
        /\ \A i \in DOMAIN grid :
            LET w == Len(grid[i].vals) IN
            /\ all[i].row = grid[i].row
            /\ SubSeq(all[i].vals, 1, w) = grid[i].vals
            /\ \A k \in (w + 1)..Len(all[i].vals) : all[i].vals[k] = 0

(* Each of the three encodings decodes to its batch, cell for cell, with   *)
(* texts of any length, numbers and ids interleaved in any way.            *)
EncodingsLossless ==
    phase = "ended" =>
        \A i \in DOMAIN batch.done :
            LET b == batch.done[i] IN
            /\ decode_contract(encode_contract(b)) = SourceGrid(b)
            /\ \A useDict \in BOOLEAN :
                decode_packed(encode_packed(b, useDict), useDict) = SourceGrid(b)

(* So what packed.rs measures stands for the sheet: its grid, in batches   *)
(* that decode to what they encode.                                        *)
PackedLossless == BatchesCarryGrid /\ EncodingsLossless

(* The gate of main.rs passes on a sheet in order whose rows all end at    *)
(* the declared last column, gaps and string ids included, wherever the    *)
(* server's batches close.  arm_grpc selects no header row.                *)
GateHolds ==
    phase = "ended" /\ inOrder /\ HeaderRow = NoRow /\ Len(line) = declared + 1
    /\ (\A i \in DOMAIN wire : LastCol(wire[i].vals) = declared)
    => Arm1 = Arm2 /\ Arm2 = Arm3
=============================================================================
