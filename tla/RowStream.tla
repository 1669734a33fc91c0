----------------------------- MODULE RowStream -----------------------------
(***************************************************************************)
(* The one-pass row stream of StreamWorksheetRange over XLSX and XLSB      *)
(* (src/service.rs): emit_incremental turns cells in file order into rows, *)
(* RowBatcher queues rows, repairs what arrives out of order while it is   *)
(* still queued, and sends the queue in ascending order with gaps for the  *)
(* rows that hold nothing, StringTable defines shared strings before the   *)
(* rows that reference them.                                               *)
(*                                                                         *)
(* A cell's value is the number of its arrival, 0 an empty cell: that is   *)
(* enough to tell which of two values of one cell survives.  A row on the  *)
(* wire carries the gap announced just before it and the string ids        *)
(* defined by then; whether rows leave one by one or in batches is not     *)
(* told apart.  Whether a batch closes below its row cap (bytes, linger)   *)
(* is up to a size estimate and the clock, so here to chance.              *)
(***************************************************************************)
EXTENDS Integers, Sequences

CONSTANTS
    MaxRow,         \* the rows of the sheet are 0..MaxRow
    MaxCol,         \* the columns are 0..MaxCol
    Cap,            \* RowBatcher::cap
    HeaderRow,      \* HeaderRow::Row(n), or NoRow without a selection
    UseTable,       \* use_string_table
    ChunkMax,       \* strings that fit one StringTableChunk
    MaxCells        \* bound: cells read before the sheet ends

NoRow == -1
Rows == 0..MaxRow
Cols == 0..MaxCol
Serials == 1..MaxCells

ASSUME SizeAssumption ==
    /\ MaxRow \in Nat /\ MaxCol \in Nat /\ MaxCells \in Nat
    /\ Cap \in Nat \ {0} /\ ChunkMax \in Nat \ {0}
ASSUME HeaderAssumption == HeaderRow \in Rows \cup {NoRow}
ASSUME TableAssumption == UseTable \in BOOLEAN

VARIABLES
    phase,          \* what emit_incremental came to
    open,           \* whether a row is under construction
    current,        \* current_row
    values,         \* values, by column
    queue,          \* RowBatcher::rows
    nextExpected,   \* RowBatcher::next_expected
    highestSent,    \* RowBatcher::highest_sent
    wire,           \* the rows sent, with their gaps
    interned,       \* StringTable::next_id
    defined,        \* next_id - pending.len(): ids already on the wire
    read,           \* history: cells of the sheet read
    sheet,          \* history: the last value read for each cell
    ref             \* history: 1 + the string id each value refers to, or 0

rowVars    == <<open, current, values>>
batchVars  == <<queue, nextExpected, highestSent, wire>>
stringVars == <<interned, defined>>
histVars   == <<read, sheet, ref>>
vars == <<phase, rowVars, batchVars, stringVars, histVars>>

EmptyRow == [c \in Cols |-> 0]
OneCell(col, v) == [EmptyRow EXCEPT ![col] = v]

Init ==
    /\ phase = "reading"                    \* RangeStarted is on the wire
    /\ open = FALSE
    /\ current = 0
    /\ values = EmptyRow
    /\ queue = <<>>
    /\ nextExpected = HeaderRow             \* open_at
    /\ highestSent = NoRow
    /\ wire = <<>>
    /\ interned = 0 /\ defined = 0
    /\ read = 0
    /\ sheet = [r \in Rows |-> EmptyRow]
    /\ ref = [n \in Serials |-> 0]

-----------------------------------------------------------------------------
(***************************************************************************)
(* RowBatcher.                                                             *)
(***************************************************************************)
Accepts(row) == row > highestSent

(* merge_row_values: later values win where they carry something. *)
MergeKeepingOld(into, from) ==
    [c \in Cols |-> IF into[c] # 0 THEN into[c] ELSE from[c]]
Merge(into, from) ==
    [c \in Cols |-> IF from[c] # 0 THEN from[c] ELSE into[c]]

(* The queue push leaves.  Only a row that is not past the last one queued *)
(* is looked for.                                                          *)
FirstAt(q, row) ==
    CHOOSE i \in DOMAIN q :
        q[i].row = row /\ \A j \in DOMAIN q : q[j].row = row => i <= j

Queued(q, row, vals) ==
    IF q # <<>> /\ row <= q[Len(q)].row /\ \E i \in DOMAIN q : q[i].row = row
    THEN [q EXCEPT ![FirstAt(q, row)] = [row |-> row, vals |-> Merge(@.vals, vals)]]
    ELSE Append(q, [row |-> row, vals |-> vals])

(* sort_unstable_by_key: any order of the queue that ascends. *)
AnyOrder(q) ==
    {p \in [DOMAIN q -> DOMAIN q] : \A i, j \in DOMAIN q : i < j => p[i] # p[j]}
Orders(q) ==
    {p \in [DOMAIN q -> DOMAIN q] :
        \A i, j \in DOMAIN q :
            i < j => p[i] # p[j] /\ q[p[i]].row <= q[p[j]].row}

(* send_run announces the rows between what was expected and a run's first *)
(* row; inside a run every row is the one expected.                        *)
GapUnguarded(expected, row) ==
    IF expected # NoRow THEN row - expected ELSE 0
GapFromLast(expected, row) ==
    IF expected # NoRow /\ row > expected THEN row - expected + 1 ELSE 0
Gap(expected, row) ==
    IF expected # NoRow /\ row > expected THEN row - expected ELSE 0

Least(m, n) == IF m < n THEN m ELSE n

(* send_new_strings: chunk after chunk until nothing is pending, what the  *)
(* cell of this very step interned included.                               *)
DefinedAfterOneChunk(from) == Least(interned', from + ChunkMax)
DefinedAfter(from) == interned'

Flush(q) ==
    IF q = <<>>
    THEN UNCHANGED <<batchVars, defined>>
    ELSE /\ queue' = <<>>
         /\ defined' = DefinedAfter(defined)
         /\ \E p \in Orders(q) :
              LET row(i) == q[p[i]].row
                  expected(i) == IF i = 1 THEN nextExpected ELSE row(i - 1) + 1 IN
              /\ wire' = wire \o [i \in DOMAIN q |->
                            [row  |-> row(i),
                             vals |-> q[p[i]].vals,
                             gap  |-> Gap(expected(i), row(i)),
                             defs |-> defined']]
              /\ nextExpected' = row(Len(q)) + 1
              /\ highestSent' = row(Len(q))

Push(row, vals) ==
    LET q == Queued(queue, row, vals) IN
    \/ /\ Len(q) < Cap
       /\ queue' = q
       /\ UNCHANGED <<nextExpected, highestSent, wire, defined>>
    \/ Flush(q)

-----------------------------------------------------------------------------
(***************************************************************************)
(* emit_incremental.                                                       *)
(***************************************************************************)
(* cell_tuple: the value of a cell may be a shared string, met before or   *)
(* not, which the table interns as the cell is read.  An id is stood for   *)
(* by id + 1, 0 is a value that is no shared string.                       *)
Intern(id) ==
    /\ id = 0 \/ UseTable
    /\ interned' = IF id > interned THEN interned + 1 ELSE interned

(* A cell that is part of the sheet, valued read + 1. *)
Receive(row, col, id) ==
    /\ phase = "reading"
    /\ read < MaxCells
    /\ HeaderRow # NoRow => row >= HeaderRow
    /\ Intern(id)
    /\ read' = read + 1
    /\ sheet' = [sheet EXCEPT ![row][col] = read + 1]
    /\ ref' = [ref EXCEPT ![read + 1] = id]

(* A cell above the selected header row is skipped, but it was interned. *)
SkipAbove(row, id) ==
    /\ phase = "reading"
    /\ HeaderRow # NoRow /\ row < HeaderRow
    /\ Intern(id)
    /\ UNCHANGED <<phase, rowVars, batchVars, defined, histVars>>

FirstCell(row, col, id) ==
    /\ Receive(row, col, id)
    /\ ~open
    /\ open' = TRUE
    /\ current' = row
    /\ values' = OneCell(col, read + 1)
    /\ UNCHANGED <<phase, batchVars, defined>>

SameRow(row, col, id) ==
    /\ Receive(row, col, id)
    /\ open /\ row = current
    /\ values' = [values EXCEPT ![col] = read + 1]
    /\ UNCHANGED <<phase, open, current, batchVars, defined>>

(* A later row closes the one under construction.  The code ends the       *)
(* stream where the batcher no longer accepts that row; CurrentAccepted    *)
(* says it never gets there.                                               *)
NextRow(row, col, id) ==
    /\ Receive(row, col, id)
    /\ open /\ row > current
    /\ IF Accepts(current)
       THEN /\ Push(current, values)
            /\ current' = row
            /\ values' = OneCell(col, read + 1)
            /\ UNCHANGED <<phase, open>>
       ELSE /\ phase' = "failed"
            /\ UNCHANGED <<rowVars, batchVars, defined>>

(* A cell of a row the walk has left behind, not yet sent. *)
LateRow(row, col, id) ==
    /\ Receive(row, col, id)
    /\ open /\ row < current
    /\ Accepts(row)
    /\ Push(row, OneCell(col, read + 1))
    /\ UNCHANGED <<phase, rowVars>>

(* abort_unsorted: what is queued is never sent. *)
TooLate(row, col, id) ==
    /\ Receive(row, col, id)
    /\ open /\ row < current
    /\ ~Accepts(row)
    /\ phase' = "failed"
    /\ UNCHANGED <<rowVars, batchVars, defined>>

(* The reader fails: abort_with. *)
ReadFails ==
    /\ phase = "reading"
    /\ phase' = "failed"
    /\ UNCHANGED <<rowVars, batchVars, stringVars, histVars>>

(* A send finds the client gone, or stalled for too long.  The batch it    *)
(* was part of may be out in part: a prefix of what Flush leaves.          *)
ClientGone ==
    /\ phase = "reading"
    /\ phase' = "gone"
    /\ UNCHANGED <<rowVars, batchVars, stringVars, histVars>>

EndOfSheet ==
    /\ phase = "reading"
    /\ UNCHANGED interned
    /\ IF open /\ ~Accepts(current)
       THEN /\ phase' = "failed"
            /\ UNCHANGED <<batchVars, defined>>
       ELSE /\ phase' = "ended"
            /\ Flush(IF open THEN Queued(queue, current, values) ELSE queue)
    /\ UNCHANGED <<rowVars, histVars>>

CellNext == \E row \in Rows, col \in Cols, id \in 0..Least(interned + 1, MaxCells) :
    \/ FirstCell(row, col, id) \/ SameRow(row, col, id) \/ NextRow(row, col, id)
    \/ LateRow(row, col, id) \/ TooLate(row, col, id)

Next ==
    \/ CellNext
    \/ \E row \in Rows, id \in 1..Least(interned + 1, MaxCells) : SkipAbove(row, id)
    \/ ReadFails \/ ClientGone \/ EndOfSheet

Spec == Init /\ [][Next]_vars
-----------------------------------------------------------------------------
Widths == [Cols -> 0..MaxCells]
QueuedRow == [row : Rows, vals : Widths]
SentRow == [row : Rows, vals : Widths, gap : 0..MaxRow, defs : 0..MaxCells]

TypeOK ==
    /\ phase \in {"reading", "ended", "failed", "gone"}
    /\ open \in BOOLEAN
    /\ current \in Rows
    /\ values \in Widths
    /\ queue \in Seq(QueuedRow)
    /\ nextExpected \in -1..(MaxRow + 1)
    /\ highestSent \in Rows \cup {NoRow}
    /\ wire \in Seq(SentRow)
    /\ interned \in 0..MaxCells
    /\ defined \in 0..MaxCells
    /\ read \in 0..MaxCells
    /\ sheet \in [Rows -> Widths]
    /\ ref \in [Serials -> 0..MaxCells]

(* No row is sent once a later one has been: what flush sorts, and what    *)
(* accepts refuses, keep every stream in order, however the sheet is       *)
(* shuffled and wherever its batches close.                                *)
RowsNeverRegress ==
    \A i, j \in DOMAIN wire : i < j => wire[i].row <= wire[j].row

(* The two aborts of emit_incremental that guard the row under             *)
(* construction never fire: only a late cell ends a stream as unsorted.    *)
CurrentAccepted == phase = "reading" /\ open => Accepts(current)

(* Gaps and rows tile the sheet: a gap starts right after the row before   *)
(* it, or at the selected header row, and ends right before its own row,   *)
(* whatever batches and runs the rows between left in; a row sent twice    *)
(* has no gap before its repetition.  So a client that counts rows and     *)
(* gaps agrees with one that reads row_index as long as no row is sent     *)
(* twice, and is ahead by the repetitions after.                           *)
GapsTile ==
    \A i \in DOMAIN wire :
        wire[i].gap =
            IF i > 1
            THEN IF wire[i].row = wire[i - 1].row
                 THEN 0 ELSE wire[i].row - wire[i - 1].row - 1
            ELSE IF HeaderRow = NoRow THEN 0 ELSE wire[i].row - HeaderRow

(* Where a value may be. *)
Sent(row, col, v) == \E i \in DOMAIN wire : wire[i].row = row /\ wire[i].vals[col] = v
Waiting(row, col, v) ==
    \/ \E i \in DOMAIN queue : queue[i].row = row /\ queue[i].vals[col] = v
    \/ open /\ current = row /\ values[col] = v

(* Until a stream ends in an error, the last value read for every cell is  *)
(* on the wire or on its way there; once the sheet ends, all are on the    *)
(* wire.  No batch boundary and no out-of-order cell loses one.  Where a   *)
(* row is sent twice, which of its two copies holds the last value is up   *)
(* to the unstable sort.                                                   *)
NoCellLost ==
    \A row \in Rows, col \in Cols :
        sheet[row][col] # 0 /\ phase \in {"reading", "ended"} =>
            \/ Sent(row, col, sheet[row][col])
            \/ phase = "reading" /\ Waiting(row, col, sheet[row][col])

(* Every string id a sent row holds was defined by a chunk before it, also *)
(* when the id was interned by a row still under construction, by a late   *)
(* cell, or by a cell above the header row.                                *)
StringsDefinedFirst ==
    \A i \in DOMAIN wire, c \in Cols :
        wire[i].vals[c] # 0 => ref[wire[i].vals[c]] <= wire[i].defs

(* "Rows arrive in strictly ascending order" (WorksheetRow in              *)
(* calamine_service.proto): no row is sent twice.                          *)
RowsAscend ==
    \A i, j \in DOMAIN wire : i < j => wire[i].row < wire[j].row
=============================================================================
