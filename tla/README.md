# TLA+ models of grpc-calamine

grpc-calamine serves spreadsheets over gRPC: a client uploads a workbook
(`OpenWorkbook`), the server parses it with calamine and keeps it in memory
under an id, and the client then streams worksheets, formulas, VBA modules and
pictures from it until it closes it or the server finds it idle. This directory
holds TLA+ models of that server and of the proofs of same work in its
benchmarks, TLC configurations that check them and TLAPS proofs about them.
Source paths below are relative to the crate's `src/`, those of the benchmarks
to `bench/src/`.

## 1. The system

| Component | Source | State | Operations |
|---|---|---|---|
| Workbook store | `store.rs` | registry (`entries`, `pending`) under an RwLock; `Budget::held` under a Mutex; one `ReaderPool` per workbook; `last_used` | `admits`, `open` (`reserve`, parse, `register`), `close`, `get`, `reader`, `evict_idle`/`sweep`, `spawn_reaper` |
| Opening a workbook | `store.rs`, `service.rs` | format list, hint, the reservation, the probe | `FormatSet::from_str`, `open`, `detect_accepted`, `open_as`, the statuses of `open_workbook` |
| Archive inspection | `archive.rs` | totals of one `inspect` call; `RecordCounter` | `inspect`, `inflated_size`, `scan_shared_strings`, `feed`, `declared_unique_count` |
| Upload | `service.rs` | `upload_slots`; the bytes buffered; two timers | `admit_upload`, `receive_upload`, `next_frame`, `open_workbook` |
| Streaming RPCs | `service.rs` | `stream_slots`; a bounded channel, a body on a pool thread and a supervisor task per stream; thread-local `STALL_REASON` | `admit`, `spawn_blocking_stream`, `send_event`, `abort_with` |
| Worksheet stream | `service.rs` | the path taken; position in a range | `resolve_sheet_name`, `checkout`, `run_stream_worksheet_range`, `check_dense_range`, `emit_range` |
| Row stream | `service.rs` | row under construction; `RowBatcher`; `StringTable` | `emit_incremental`, `push`, `flush`, `send_run`, `intern`, `take_chunk` |
| Formula stream | `service.rs` | `FormulaCollector`; sorted cells | `push`, `emit_sparse_formulas`, `run_stream_worksheet_formula` |
| VBA and picture streams | `service.rs` | position in the project or the pictures | `run_stream_vba_project`, `run_get_pictures`, `within_frame` |
| Unary RPCs | `service.rs` | none of their own | `close_workbook`, `get_metadata`, `get_defined_names` |
| Process | `main.rs` | settings, runtime, the server | `run`, `serve`, `shutdown_signal` |
| Benchmarks | `main.rs`, `bin/packed.rs` of the bench crate | a dense grid, three digests, three encodings | `walk_dense`, the arms of the gate, `push_row`, `encode_*`, `decode_*` |
| Conversions | `convert.rs` | none | field-by-field mappings |

How they interact. `open_workbook` holds an upload slot while `receive_upload`
buffers the file, asks the store `admits` at every chunk, and then hands slot
and bytes to a blocking task that calls `store.open`: `inspect` measures what
calamine would inflate, `reserve` takes room in the registry and the budget,
calamine parses, `register` publishes the workbook. A streaming RPC looks the
workbook up (`get`, an `Arc` clone), takes a stream slot, and runs its body on
the blocking pool, which borrows a reader from the workbook's pool, paying for
it unless it is the workbook's first. Events go through the bounded channel.
The reaper task and every open sweep the registry. Streams and parses share
the blocking pool of the one runtime, which is dropped when `serve` returns.

What is hard. The budget is shared by opens (under the registry lock) and
readers (without it). Workbooks can be closed or expire while RPCs use them,
and an open can be cancelled while it parses. Readers come back in any order
into a pool with one place. A stream has four parties (body, supervisor, pool
thread, client), each of which can end first; a body may panic; a signal may
end the server meanwhile. Threads are reused with their thread-locals. Rows may
arrive unsorted in a stream that cannot take anything back. Strings are
interned at one time and defined at another. Limits are judged on numbers the
file declares. `PROJECT.json` lists these hazards line by line, with the
properties that would catch each.

What makes each component correct:

* store: nothing leaks from the budget and nothing is returned twice; neither
  limit is passed; a handle in use survives; idle workbooks go, busy ones stay;
* opening: every check comes before calamine has the bytes, and a format the
  server refuses never reaches it;
* inspection: work and estimate stand in the relation to the limits that the
  comments promise; a count does not depend on where reads cut the bytes, nor,
  of a plain table head, on how it is spelled;
* upload: memory and parses are bounded by slots, and slots come back;
* streaming: an OK end means a whole stream; statuses reach their own stream;
  threads, slots, clients and the server all get to an end;
* worksheets: both paths deliver one and the same sheet, and refuse by status
  only before they start; order, completeness, gaps, strings before rows;
* formulas: the rows of the range calamine would build, within the budgets;
* items: each has its answer in its place, whatever its neighbours are;
* benchmarks: what the gate compares and what is encoded is the sheet.

## 2. The modules

| Module | Models | Runs |
|---|---|---|
| `WorkbookStore`, `MCWorkbookStore` | the store | `store_budget`, `store_expiry`, `store_refusal` |
| `WorkbookStoreProofs` | its theorems | |
| `OpenWorkbook` | `store.open` and its answers | `procedures` |
| `ArchiveInspection`, `RecordCounter`, `TableHead`, `MCArchive` | `inspect`, `RecordCounter`, `declared_unique_count` | `archive_tables`, `procedures` |
| `ArchiveProofs` | theorems of `OpenWorkbook`, `ArchiveInspection`, `RecordCounter`, `TableHead` | |
| `Upload` | an upload up to the store's answer | `upload_slots` |
| `UploadProofs` | its theorems | |
| `StreamPipeline`, `MCStreamPipeline` | slots, threads, channel, supervisor, client | `pipe_safety`, `pipe_terminal` |
| `EventStreams`, `SlotPool` | abstract: what a caller sees; what slots promise | refined in `pipe_safety`, `upload_slots` |
| `StreamPipelineProofs` | its theorems, the refinements among them | |
| `Server` | the process around `StreamPipeline` | `pipe_live` |
| `RowStream`, `MCRowStream` | `emit_incremental`, `RowBatcher`, `StringTable` | `row_ascend`, and as part of the next two |
| `SheetPaths`, `MCSheetPaths` | a worksheet stream, on `RowStream` | `sheet_paths` |
| `BenchWalk`, `MCBenchWalk` | the benchmarks' gate and encodings, beside `RowStream` | `bench_gate` |
| `RowStreamProofs` | theorems of `RowStream` | |
| `SheetProofs` | theorems of `SheetPaths`, and of the walk, the gate and the encodings of `BenchWalk` | |
| `FormulaStream`, `ItemStream` | formula stream; VBA and picture streams | `procedures` |
| `MCProcedures` | what runs by itself in one task, together | `procedures` |
| `Bounds` | the lesser and the greater of two numbers | |
| `BodyProofs` | theorems of these two | |
| `NumberLemmas` | lemmas the proofs share: least members, induction, sums, sequences in a row | |

Operators whose definition stands right before another and is used by none
(`ParkDroppingFirst`, `StallForgotten`, `FitsWrapping`, ...) are mutants: the
form a definition would have after a plausible mistake. Each property is known
to fail with one of them (`PROJECT.json`, `mutants`).

### WorkbookStore

An action is one critical section. `admits` takes the registry's lock twice,
once to read and, where there seems to be no room, once to sweep (`AskRoom`,
`AskSweeps`). `reserve` is `ReserveChecked` (which runs the sweep and `fits`, and
leaves with the registry lock held: `LockFree`) and `ReserveTake`/`ReserveBeaten`
(`budget.take`), because readers change the budget in between. `reader` looks
into the pool (`TakeParked`, or `MissReader` where it is empty), lets go of it,
and asks the budget (`ChargeReader`, `RefuseReader`): readers may come back
between the two. A park puts a reader into the pool (`Return`), and gives back
the charge of one that found no place after it has let go (`DropReader`).

A workbook goes `absent`, `asked` (by an upload that was refused at first look),
`checked`, `parsing`, `open`, and `closed` while an RPC outlives its registry
entry. An RPC goes `idle`, `held` (has the Arc), `missed` where the pool was
empty, then `first`/`extra` for the reader it borrows, or `opening` while it
opens a further one it was charged for, `dropping` while it drops one the pool
had no place for, and `done`. `opener` is the set of workbooks whose
`OpenWorkbook` handler still holds the `Arc`.

Time: `idle[b]` is `last_used` as an age, reset by `get`, `register` and by a
sweep that finds the workbook in use; `unused[b]` is a history variable with
the age the documentation means, the time since the last user went. A tick
cannot pass a due reaper.

Abstractions. Bytes are counted as cardinalities of sets of (owner, n) pairs.
A sweep removes all expired workbooks and returns their charges in one step;
the code drops the charged readers of pools one after another inside the same
write lock. What a parse produces has no bearing on any property.

### OpenWorkbook

One call of `store.open` in its stages: the hint against the accepted formats,
measuring, reserving, one `open_as` per candidate in detection order, metadata,
registering; every stage may fail, and calamine may panic where it is called.
Of a file it matters which formats it opens as, which is any set. The formats
accepted are a set as well, and the probe is given those it has not tried, in
the order of `DETECTION_ORDER` (`Precedes`). Whether measuring and reserving succeed is a choice here, because `ArchiveInspection`
and `WorkbookStore` say when they do. `Reader` stands for a later borrow that
opens the bytes again, in the format recorded.

### ArchiveInspection, RecordCounter and TableHead

`inspect` walks entries; a picture is the sizes its reads give, a table the
strings it holds, with the bytes and tags (xlsx) or record (xlsb) around each.
What calamine keeps of a table (a slot for every string it reserved or read,
and a heap block of at least 32 bytes for each string that is not empty) is
taken from the comments of `archive.rs` and marked external. The amounts are
those of the code. The record counter is modelled one iteration of `feed`'s
loop at a time; what a length byte is worth at its place is `PlaceValue`, and
`Base` values fit beside a byte's high bit, where the code has 128. The
reference, `HeadersFrom`, does not go byte by byte: it reads the format off the
whole stream, hopping from header to header.
`TableHead` writes what stands before the root of a table (nothing, a
declaration, a comment that holds a root of its own), the root, and attribute
after attribute, in pieces where the word that is searched for is one piece and
`.` is any character that is neither a letter or digit nor markup. It compares
what the scan gives with what the tag declares. The two agree on plain heads
(`PlainHead`) only. The scan takes the first `<sst` even in a comment, ends the
tag at the first `>` even in a quoted value, finds the word in the values of
other attributes, takes `x:uniqueCount` or `a-uniqueCount` for `uniqueCount`, and
of `1x0` reads 10. All of these are in the model, and in the states TLC visits;
`CountIsDeclared` says of them only, as of every head, that a cut does not give
part of a number (`CutAnywhere`). Between name, sign and quote there is at most
one white space.
`MCArchive` and `MCProcedures` explore these modules, `OpenWorkbook`,
`FormulaStream` and `ItemStream` beside each other, one in each behaviour: they
share no state.

### Upload

`Options`, `Chunk`, `BadFrame`, `EndOfFile` are the frames of `receive_upload`;
`StallOver` and `DeadlineOver` its timers, which fire before time goes on. The
deadline is a setting of the server, so it is chosen at the start, 0 for none.
The store's answers are either way.

### StreamPipeline, EventStreams, SlotPool and Server

A body stands for all four streams: it may refuse before its first event, send
up to `Events` events, end with an in-band terminal error, return, or panic,
and it parks in `waiting` when the channel is full. The stall limit is not
timed: `Stall` may happen whenever a body waits. `reason[t]` is `STALL_REASON`
of pool thread `t`. The supervisor joins, sends a status if there is one, drops
the permit, and then its sender. The client reads, sees the end, or leaves.

`EventStreams` has no threads, channels or supervisors: a caller sees the next
event, or a terminal error in its place, and an end that is OK only behind a
whole stream or that error. `IsEventStream` says `StreamPipeline` implements
it with what clients received. `SlotPool` is a semaphore whose permits cover
work; `stream_slots` implements it with threads for work, `upload_slots` with
parses (`IsSlotPool` of both modules), under one mapping of `free` to the
permits not held.

`Server` puts the process around the streams: the settings are read one by one,
the server comes up, takes calls until a signal, drains, and drops its runtime,
and with it what the pool has not begun, while it waits for what it has. One
upload competes for the pool's threads. Steps of the streams are those of
`StreamPipeline`, restricted to what the process allows at the time.

### RowStream

A cell is a row, a column and possibly a string id; its value is the number of
its arrival. `Push` may close the batch at any row, because bytes and linger
decide it below the cap. A batch leaves in one step, with its gaps and the
number of strings defined by then; a client that leaves in the middle of a
batch would have seen a prefix of it (`ClientGone`). `sort_unstable_by_key` is
any ascending order. Empty cells, which the code drops, are not read.

### SheetPaths

`run_stream_worksheet_range` from its selector on: refusals by status, the
cells reader where calamine has one and opens it, the whole range where not.
The first path goes on as `RowStream`, whose `Next` is one action here; the
second builds a range from any set of cells, judges it against the dense-cell
budget, and copies it through `RowStream`'s batcher, row by row. The declared
extent in the header is the file's word and any of a set, a reversed one and
one past the word among them; its count, and that of a range, are
modulo `Word`, which stands for 2^64. `RangeWithinBudget` is stated for budgets
below `Word - 1`: the multiplication saturates there, so a budget of `u64::MAX`
refuses nothing.

### BenchWalk

While `RowStream` sends a sheet, the benchmark's walk takes the same cells, and
formatted blanks, which the server drops, into a dense grid. A digest is the
sequence of what it is fed. `Arm1` and `Arm2` digest the grid from calamine's
values and from converted ones, `Arm3` what a client makes of the wire. The
grid is also cut into the batches of `packed.rs` and passed through its
encoders and decoders, which are operators; texts are sequences of bytes of
the length that matters, none included. `arm_grpc` selects no header row, so
`GateHolds` is about such streams. A value other than 0 is of one of `DataRef`'s
variants (`Kinds`, from `Variants`), or a shared string.

### FormulaStream and ItemStream

`sparse` tells the two paths of the formula stream apart. In the sparse path
`Collect` is `FormulaCollector::push`, `EmitSparse` the sort, the second check
and the header, `SendRow` one row, taken off the front of the sorted cells. In
the dense path the range is what calamine built. `Word` is 2^64, scaled down;
for the reason above `HeldWithinBudget` is about byte budgets below `Word - 1`.

`ItemStream` is the bodies of `StreamVbaProject` and `GetPictures`: a header in
the first, then one event for each item, which may be unreadable or encode to
more than a frame.

## 3. The runs

All bounds are small, chosen so that each limit is met and passed. State counts
are distinct states.

* `store_budget` (386 905). Three workbooks of 1, 2 and 3 bytes whose
  further readers cost 0, 1 and 2, three reads, room for two workbooks and
  seven bytes, TTL 2, the reaper every second tick. Two workbooks with two extra
  readers overfill the budget, three reads of one workbook meet the pool's one
  place with both kinds of reader. Shows `LedgerExact`, `WithinBudget`,
  `CapHolds`, `OneFreeReader`, `HandleOutlivesRead`.
* `store_expiry` (15 683). TTL of two reaper periods, so that a sweep can find
  a workbook at every age before and after its TTL. Shows that a workbook is
  swept at most a period early and late (`GoesNearTtl`), and that one nobody
  uses goes (`OrphanReaped`).
* `store_refusal`: expected violation, in the instance of `store_budget`. See
  findings.
* `procedures` (3 782 557). What is between an upload and its workbook, and the
  bodies of formula, VBA and picture streams. Two entries, pictures of up to 3 with a total
  of 5, read by up to 2: the second picture meets a total with room, with
  exactly its own limit of room, and with less (`PictureLimitsHold`). Tables of
  up to 160 bytes with strings of 0, 1 and 40 characters, which reach both
  sides of the block of 32 bytes (`PlainTablesCovered`). Record streams of up
  to 7 bytes cut everywhere: a header takes up to 6 (`CountsRecords`). Roots
  with two attributes and counts past 50, which stands for the greatest u64
  (`CountIsDeclared`), each cut after every piece, behind a comment with a root
  of its own and with `>` and a count inside values too (`CutAnywhere`): two
  attributes are enough for one that misleads the scan before one that counts,
  in either order. Every list of up to three words, every hint and every
  set of formats a file opens as, with two readers more
  (`CheckedBeforeParsed`, `DetectedAsEverywhere`). Up to four formulas over 4 x 3
  cells, a budget of 8 of its 12 cells, 12 also being the size of a word: the
  whole grid would wrap to zero. Up to three items, with a frame between their
  sizes.
* `archive_tables`: expected violation. See findings.
* `upload_slots` (40 127). Three uploads on two slots, files of up to three
  bytes, stall limit 2, deadline 3 or none. `SlotsComeBack` holds with neither
  deadline nor willing clients: a byte at a time meets the byte limit.
* `pipe_safety` (180 916). Two streams take turns on one slot, with two
  threads, a channel of two and three events: a stall leaves a full channel
  behind, a thread is reused after a panic. Symmetric in streams and threads.
  Two refinements and two invariants.
* `pipe_live` (142 528). Module `Server`, two calls, streams or an upload, on
  one thread with a channel of one, so that a stalled stream holds up another's
  body and a parse; a signal at any time, a setting that does not parse. One
  event is enough for a full channel, because the status is a message too.
* `pipe_terminal`: expected violation.
* `bench_gate` (1 090 077). Three cells of any kind over four rows and two
  columns, in any order, and four in column A; batches of at most three rows
  and string chunks of two: a late row meets an empty queue, a queue it belongs
  into, one that has it, and one already sent. A row met again while it waits
  before a lower one takes four cells and is sent twice (`NoCellLost`). The walk
  meets blanks before, between and after rows, and rows wider than what is
  declared; batches of two rows are padded again. Kinds put an empty text and a
  longer one around fixed-size values.
* `sheet_paths` (628 942). Header row 1 of 0..3, dense budget of four cells
  where the sheet has eight, one string in a chunk, batches of at most three
  rows, a declared extent of 4 x 4 for a word of 16. Three cells, or four in
  column A, which send a row twice, with rows before and after the repetition
  (`GapsTile`, `SameCells`).
* `row_ascend`: expected violation.

`CHECK_DEADLOCK FALSE` stands where the model ends: the streams, uploads,
inspections and servers of those modules are each made once and do come to an
end. The store never stops, and its runs check deadlock.

### Fairness

* Store: the clock and the reaper's tick are strongly fair, because opens
  without end can disable both for a moment; a reservation leaves its critical
  section and `OpenWorkbook` answers (weakly fair). The critical sections are
  short and wait for nothing. No client has to do anything.
* Server: a body's and a supervisor's steps are weakly fair, which is tokio
  scheduling its tasks and threads, and `send_timeout` timing out; so are a
  parse, which begins once a thread is free and is taken to end, and the end of
  the process, which is the runtime's own. Signals and clients owe nothing.
  `StreamsDrain` and `ShutsDown` assume of clients, in their own statement,
  that one that stays goes on reading (`WF` of its `Receive`); `UploadsGoOn`
  and `SlotsComeBack` assume nothing.
* Upload: time, timers and parses are weakly fair, clients owe nothing. So a
  parse of calamine's is taken to end.

### Findings

* `row_ascend` / `RowsAscend`: `push` searches the queue only for a row that is
  not past the last one queued. With rows 1, 0 queued, a late cell of row 1 is
  queued a second time and row 1 is sent twice, against the doc of `push` and
  the service contract. `RowsNeverRegress` is what holds instead. `NoCellLost`
  says that the last value of every cell is in some row on the wire; where a row
  is sent twice it does not say which of the two comes last, and the sort, which
  is unstable, does not either. `GapsTile` says that a repetition has no gap
  before it, so from there on a client that counts rows and gaps is ahead of
  `row_index`.
* `pipe_terminal` / `TerminalByStatus`: `abort_with` sends terminal failures in
  band and the stream ends with OK, against the contract. `IsEventStream` is
  what holds: an OK end is a whole stream or one with a terminal error in it.
* `archive_tables` / `TablesCovered`: the estimate takes the larger of what a
  table's text and its declared slots cost, where calamine holds both.
  `PlainTablesCovered` is what holds.
* `store_refusal` / `RefusedForAnother`: `reader` looks into the pool and then
  asks the budget. Between the two the read that held the first reader may end,
  so the refusal that follows says that another read holds it when none does.
  `OneFreeReader` is what holds: the first reader is never charged for, and the
  pool and the reads share one among them.

Two more disagreements have no run of their own. `attr_u64` (`archive.rs`, line
470) passes over the word only where an ASCII letter or digit is before it, and
so takes the count of `x:uniqueCount`, `a-uniqueCount` or `_uniqueCount`, which
the comment above it rules out ("A real attribute, not a tail of a longer
name"). `PlainCounts` in `CountIsDeclared` is about plain heads. And `walk_dense`
pads each row to the widest so far, at least to the declared last column, where the server ends a
row at its last value (`service.rs`, `emit_incremental`); the comment of
`bench/src/main.rs` at line 344 calls the walk an exact mirror. `GateHolds` is
stated for the sheets on which the two agree, those whose rows all end at the
declared column.

## 4. The proofs

All theorems are for every value of the constants under the modules' ASSUMEs
(streams, threads, uploads and reads finite where they are counted; sizes,
limits and words natural numbers; the grids a range may come from functions
from the sheet's cells to values). Each rests on one inductive invariant, named
`Invariance`, or after its part where a module has several. The two limits of
the state spaces of section 3, small sizes and few actors, are where the
proofs help most.

* `WorkbookStoreProofs`: `TypeCorrect`, `LedgerCorrect`, `BudgetCorrect`,
  `CapCorrect`, `FreeReaderCorrect`, `HandleCorrect`. The invariant adds to the
  properties that at most one workbook is between check and take
  (`OneReserver`, without which two opens could both count on the last place);
  that an RPC beyond `idle` holds a live workbook (`HandleInv`, without which a
  charge could lose its owner); that the room `fits` saw in the registry is
  still there at the take (`CapInv`). The ledger steps rest on lemmas about
  sums as cardinalities, one for each way an owner enters, leaves or is swept.
  `Give`, which saturates, is shown to be a true subtraction in every state, so
  no double return hides behind it.
  `ExpiryCorrect` (`GoesNearTtl`) stands on top of that. It is inductive only
  with what relates three clocks: `idle` is at most a period ahead of `unused`,
  and of a workbook in use no older than the last sweep (`ClockNotFast`);
  `unused` is not ahead of `idle` before the TTL, and afterwards of the TTL by
  less than the reaper has waited (`ClockNotSlow`).
* `RowStreamProofs`: `TypeCorrect`, `OrderCorrect` (`RowsNeverRegress`),
  `CurrentCorrect` and `GapsCorrect` (`GapsTile`). The order on the wire is not
  inductive: the invariant adds that all that is queued (`QueueAhead`) and the
  row under construction (`CurrentAhead`) lie past all that was sent, and that
  `highest_sent` and `next_expected` describe the last row sent (`MarksFit`).
  `GapsTile` covers every row on the wire, one sent twice among them.
  `CellsCorrect` (`NoCellLost`) and `StringsCorrect` (`StringsDefinedFirst`)
  add that the row under construction has the latest values (`ValuesLatest`)
  and that every value anywhere was read and its string interned
  (`ValuesKnown`). The lemmas on `push` say what becomes of a row already
  queued, on `flush` that an ascending order of the queue has all of it.
* `SheetProofs`: every invariant of `sheet_paths`: `SameCellsCorrect`,
  `RefusedCorrect`, `HeaderCorrect`, `DenseBudgetCorrect`, `SheetGapsCorrect`,
  `SheetStringsCorrect`. `SheetInv` goes by stage: nothing but the stage moves
  before there is a header (`Early`, `Built`); by cells, it is the invariants
  of `RowStreamProofs`, whose step lemmas are cited, and that a row holds
  nothing the sheet does not (`ByCells`); by range, that the rows before
  `offset` are queued or sent, ascend and continue the range's first row
  (`ByRange`). That a range has every cell between its corners, and is counted
  from column A as `check_dense_range` does, comes from what least and
  greatest members of a set of numbers are.
  `WalkCorrect` (`WalkIsRange`) is about `BenchWalk`. In every state of a sheet
  in order, the grid is calamine's range of the rows passed (`GridUpTo`), the
  rows without a value since its last are counted (`Waits`), and the line is
  the sheet's row up to where it has values (`LineIs`). A row with a value
  takes the ones that waited along (`GridGrows`), a cell widens the line
  (`LineGrows`).
  `GateCorrect` (`GateHolds`) adds the server's side. While a sheet is read in
  order, what is sent, queued and open is the sheet's used rows, ascending
  (`FlowInv`); the lines of the grid are no narrower than the sheet declares and
  no wider than the last (`WidthInv`). So at the end the wire is the used rows and
  the grid the used rows and those between them, all of one width if the rows end
  where the sheet declares; `GapsTile` says that each row's gap is the number of
  unused rows before it. The digest of the grid is then taken apart by rows
  (`FlattenRuns`), and after each row of the wire `Arm3` has been fed what the
  grid gives up to that row (`ArmsMeet`, by `Climbs`): a gap gives blank rows of
  the grid, and an id its own text, because `StringsDefinedFirst` has it defined.
  `PackedCorrect` (`PackedLossless`) has two halves. Batches carry the grid: in
  every state of the walk, of sheets out of order too, the batches closed and the
  one pending are the rows of the grid so far, cut where some marks are, and each
  batch has its rows at one width, padded with blanks (`PackUpTo`, kept by
  `RowPushed` through opening, widening and closing). That a batch is only ever
  widened, never narrowed, needs the rows to come one after the other, none
  narrower than the last (`PilesUp`), which the walk's waiting rows and its line
  give (`GapsPile`). And batches decode to themselves: a cell's number, length and
  text stand in the columns at places that are sums of what came before
  (`PartsAre`, `ColumnExists`), the cursor of `decode_packed` is at those places
  before the cell and behind them after it (`CellTaken`), so a cell takes its own
  parts whatever kinds surround it (`PackedDecodes`; rows without a column layout
  in `ContractDecodes`). Multiplication and division, by which cells are found in
  rows, are confined to `CellOfRow` and `RowOfCell`. TLC checked `PackInv`,
  written with these parts, over the states of `bench_gate` before it was proved.
* `StreamPipelineProofs`: `StreamCorrect` (`StreamPipeline` implements
  `EventStreams`), `PoolCorrect` (and `SlotPool`), `StallCorrect`,
  `SlotBackCorrect` (of streams that end OK; a status goes out before the permit
  is dropped), `TypeCorrect`. The invariant has three parts: how client,
  body, thread, supervisor and permit of a stream go along (`Wired`); that a
  thread holds a reason only for the body on it, or for nobody after a panic
  (`ReasonsOwn`); and that what a client received and what waits in its channel
  make one sequence, with what is not an event at its end, which tells how the
  stream ended once the senders are gone (`Flow`). Each action is then a step
  of the abstract module or changes nothing a client sees.
* `UploadProofs`: `BufferCorrect` (`BufferBounded`), `PoolCorrect` (`Upload`
  implements `SlotPool`), `TypeCorrect`, from types and `PermitsCover`: permits
  are held by exactly the uploads that receive or parse.
* `ArchiveProofs`: `PicturesCorrect` (`PictureLimitsHold`), `TablesCorrect`
  (`PlainTablesCovered`), `TypeCorrect`. `PictureInv` accounts for all that was
  inflated, `TableInv` says that the bytes and tags of the open table pay for
  its strings so far, which comes down to one inequality per string.
  `CheckedCorrect` (`CheckedBeforeParsed`) and `DetectionCorrect`
  (`DetectedAsEverywhere`), of `OpenWorkbook`, from `OpenInv`, which adds to them
  what `open` has done at each stage (`OpenStage`): nothing was given before the
  probe, no format tried so far did open, and from then on the format found is
  the first of the candidates that does (`Detected`).
  `CountCorrect` (`CountsRecords`), of `RecordCounter`: the bytes
  eaten settle where a record begins, at some byte p (`Standing`): the one whose
  type or length the counter is in, or the one behind the payload it skips; and
  the headers before p are counted whatever bytes follow (`Accounted`). The
  reference is a recursive function; `HopsExist` of `NumberLemmas` says there is
  one, because hops only go on.
  `HeadCorrect` (`CountIsDeclared`), of `TableHead`, for plain heads of any
  number of attributes and values of any length. Without `<sst` before it the
  root is found where it stands (`PrologPassed`). Every place of the tag belongs
  to the root, to one attribute or to the end (`TextIs`, from what `FlattenSeq`
  does, `FlattenLays`); within a plain attribute the word the scan looks for is
  part of the name, and counts where it is the whole name (`CountAtWord`,
  `NoCountElsewhere`); the closing quote is the first after the opening one, and
  holding the number at its greatest after each digit or once at the end is the
  same (`ValueMeans`, from `HeldAtMost`). Attributes stand in the order they
  were written, so the first count found is that of the first that declares one
  (`FoundIs`). Its second half, `CutAnywhere`, is about every head and
  needs none of this: what is left after a cut has the first `<sst` and the first `>` behind it
  where the whole has them, or has no end and gives nothing (`CutRoot`).
* `BodyProofs`: `DenseCorrect` (`DenseWithinBudget`), from the fact that the
  corners `FormulaCollector` keeps are those of the cells it holds, so that the
  collector and `emit_sparse_formulas` judge the same extent. `RowsCorrect`
  (`RowsFaithful`): the cells not yet sent are those of the rows from the next
  one on, in order (`Sending`), and what `Collect` gathered is the sheet
  (`Gathering`). `HeldCorrect` (`HeldWithinBudget`): `bytes` is the running sum
  of what is held, which a sort does not change. And `ItemsCorrect`
  (`ItemsAnswered`): the events after the header are as many as the items gone
  through (`Answered`).
* `NumberLemmas` has what these need of numbers: least and greatest members,
  induction up to n (`Climbs`, from the least member that fails), running sums
  and their independence of order, and hops. Induction is stated on sets of
  numbers, since a rule with an operator for a parameter cannot be
  instantiated; it also gives the existence of the recursive functions above
  (`CarriedExists`). `FlattenRuns` says what `FlattenSeq` is, as a sequence grown
  by one part at a time, `RunsOn` finds a part again in the whole, and `RunsAt`
  says where it stands.

Only model-checked. Liveness (`OrphanReaped`, `SlotsComeBack`, `StreamsDrain`,
`UploadsGoOn`, `ShutsDown`) is out of the prover's reach, so `Server`, whose
run checks nothing else, has no proofs of its own. Every invariant a passing run
checks is a theorem. What the runs of the findings violate is refuted, not proved.

## 5. Not modelled

* The linger clock of `RowBatcher` and the byte sizes of batches: a free choice
  of when a batch closes. Nothing runs while calamine gives no cell, so the
  bound the service contract states for linger has no model it could hold in.
* Which names of a package are pictures or tables (`classify`, `normalize` and
  the quoted names of `archive.rs`): text handling without state. A part is of
  a kind.
* What settings are set to: they are constants of the modules; `Server` has the
  order they are read in and the ways that fails.
* Conversions of metadata, tables, number formats and defined names: a copy of
  fields. Cell values are converted in `BenchWalk`, where a digest sees them.
* Generated protobuf and gRPC code, tonic, tokio and calamine: third-party or
  generated. The channel, the semaphore, the blocking pool and the runtime are
  modelled as the service uses them.
* The benchmarks' timing, memory measurement, sockets, reports, and the sizes
  and compression of `packed.rs`: measurement.
* Bytes in memory beyond the budget: a workbook closed under a read stays in
  memory, uncharged, until the read ends. No bound is promised on those.
* Numbers past u32 in row indices; wording of messages; logging.

## 6. Where to go from here

The order the project was built in is that of section 2: the store and its
proofs, the row stream, the pipeline, upload and inspection, formulas; then the
remaining bodies, the abstract specifications with their refinements, the
process, the benchmarks, and the proofs of all invariants.
What would add most next:

1. A composition of `Upload`, `ArchiveInspection` and `WorkbookStore`: what is
   charged is what was measured, and an upload `admits` let through early is
   refused late only for reasons that arose since.
2. A composition of `WorkbookStore` and `StreamPipeline`: a body that panics or
   stalls gives its reader and its charge back.
