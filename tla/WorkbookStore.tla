--------------------------- MODULE WorkbookStore ---------------------------
(***************************************************************************)
(* The in-memory workbook store (src/store.rs): the registry of open       *)
(* workbooks behind one RwLock, the byte budget behind a Mutex of its own, *)
(* the one-place reader pool of each workbook, the opens that hold a       *)
(* reservation while they parse, the RPCs that borrow readers, and the     *)
(* sweep that closes idle workbooks, run by the reaper and by every open.  *)
(*                                                                         *)
(* One action is one critical section: a step taken under the registry     *)
(* lock, the budget mutex or a pool mutex.  A call that enters several is  *)
(* several actions: admits asks under the read lock and sweeps under the   *)
(* write lock; reserve stands between its `fits` and its `budget.take`     *)
(* while readers, who need no registry lock, charge the budget; reader     *)
(* stands between its `pool.take` and its `budget.take`; park drops the    *)
(* reader it has no place for after it let go of the pool.  What one       *)
(* section of the registry or of a pool gives back to the budget in        *)
(* several calls it gives back at once here.                               *)
(*                                                                         *)
(* Byte amounts are counted as the cardinality of a set of <<owner, n>>    *)
(* pairs, one pair for each byte an owner is charged, so that a sum over   *)
(* owners is a union of disjoint sets.                                     *)
(***************************************************************************)
EXTENDS Integers, FiniteSets

CONSTANTS
    Books,          \* the uploads a client may open, one workbook each
    Reads,          \* the RPCs that use a workbook
    Bytes,          \* WorkbookEntry::held_bytes of each workbook
    ReaderBytes,    \* WorkbookEntry::reader_bytes of each workbook
    MaxOpen,        \* StoreLimits::max_open_workbooks
    MaxBytes,       \* StoreLimits::max_store_bytes
    Ttl,            \* StoreLimits::idle_ttl, in ticks; 0 never expires
    ReaperOn,       \* whether spawn_reaper was called
    Period,         \* the reaper's interval, in ticks
    NoBook          \* an RPC that holds no workbook

ASSUME BytesAssumption ==
    /\ Bytes \in [Books -> Nat]
    /\ ReaderBytes \in [Books -> Nat]
    /\ \A b \in Books : ReaderBytes[b] <= Bytes[b]
ASSUME LimitAssumption == MaxOpen \in Nat /\ MaxBytes \in Nat
ASSUME ClockAssumption ==
    /\ Ttl \in Nat
    /\ Period \in Nat \ {0}
    /\ ReaperOn \in BOOLEAN
ASSUME NoBookAssumption == NoBook \notin Books

VARIABLES
    st,         \* where each workbook stands between upload and removal
    opener,     \* workbooks whose OpenWorkbook handler still holds the Arc
    pending,    \* Registry::pending
    held,       \* Budget::held
    parked,     \* ReaderPool::free, with its one place
    phase,      \* how far each RPC is with its reader
    on,         \* the workbook whose Arc each RPC holds
    idle,       \* now - last_used, as the store reckons it, capped at Ttl
    unused,     \* history: ticks since the last Arc outside the registry went
    since       \* ticks since the reaper last ran

storeVars == <<st, opener, pending, held, parked>>
rpcVars   == <<phase, on>>
clockVars == <<idle, unused, since>>
vars == <<storeVars, rpcVars, clockVars>>

(* absent: not in memory.  asked: admits found no room and is to sweep.    *)
(* checked: reserve is between fits and take, and holds the registry lock. *)
(* parsing: a Reservation is alive.  open: in the registry.  closed:       *)
(* removed while an RPC still holds the Arc.                               *)
Stages == {"absent", "asked", "checked", "parsing", "open", "closed"}

(* The reader a pool keeps: none, the workbook's first reader (its charge  *)
(* is None), or an extra one with a Charge of its own.                     *)
PoolStates == {"empty", "first", "extra"}

(* held: has the Arc, no reader yet.  missed: found the pool empty, not    *)
(* charged yet.  opening: charged for a further reader, still in open_as.  *)
(* first/extra: borrows that kind of reader.  dropping: found the pool     *)
(* full, still has its Charge.  done: gave its reader back, or was refused *)
(* one; still has the Arc.                                                 *)
Phases == {"idle", "held", "missed", "opening", "first", "extra", "dropping", "done"}

Open == {b \in Books : st[b] = "open"}
Parsing == {b \in Books : st[b] = "parsing"}
LockFree == \A b \in Books : st[b] # "checked"
InUse(b) == b \in opener \/ \E r \in Reads : on[r] = b

Least(m, n) == IF m < n THEN m ELSE n

(***************************************************************************)
(* The budget.                                                             *)
(***************************************************************************)
Charged(S, amount) == UNION {{x} \X (1..amount[x]) : x \in S}
Total(S, amount) == Cardinality(Charged(S, amount))

Admits(total, bytes) == total + bytes <= MaxBytes
(* u64::saturating_sub *)
Give(total, bytes) == IF bytes > total THEN 0 ELSE total - bytes

(***************************************************************************)
(* The reader pool: what park leaves in it, and what it gives back to the  *)
(* budget by putting the first reader in the place of a charged one.       *)
(***************************************************************************)
ParkDroppingFirst(pool, kind) == IF pool = "empty" THEN kind ELSE pool
Park(pool, kind) ==
    CASE pool = "empty" -> kind
      [] pool = "extra" /\ kind = "first" -> "first"
      [] OTHER -> pool

DroppedByPark(pool, kind, bytes) ==
    IF pool = "extra" /\ kind = "first" THEN bytes ELSE 0

(* A workbook freed with a charged reader in its pool drops that Charge. *)
PoolCharge(b) == IF parked[b] = "extra" THEN ReaderBytes[b] ELSE 0

(***************************************************************************)
(* WorkbookStore::sweep, as the registry it leaves behind.                 *)
(***************************************************************************)
ExpiredWhateverUse == {b \in Open : Ttl > 0 /\ b \notin opener /\ idle[b] >= Ttl}
ExpiredPastTtl == {b \in Open : Ttl > 0 /\ ~InUse(b) /\ idle[b] > Ttl}
Expired == {b \in Open : Ttl > 0 /\ ~InUse(b) /\ idle[b] >= Ttl}

SweptSt == [b \in Books |-> IF b \in Expired THEN "absent" ELSE st[b]]
SweptPool == [b \in Books |-> IF b \in Expired THEN "empty" ELSE parked[b]]
SweptHeld ==
    Give(held, Total(Expired, Bytes)
               + Total({b \in Expired : parked[b] = "extra"}, ReaderBytes))
SweptIdleUntouched == [b \in Books |-> IF b \in Expired THEN 0 ELSE idle[b]]
SweptIdle ==
    [b \in Books |->
        IF b \in Expired \/ (Ttl > 0 /\ b \in Open /\ InUse(b)) THEN 0 ELSE idle[b]]
SweptUnused == [b \in Books |-> IF b \in Expired THEN 0 ELSE unused[b]]

Sweep ==
    /\ st' = SweptSt
    /\ parked' = SweptPool
    /\ held' = SweptHeld
    /\ idle' = SweptIdle
    /\ unused' = SweptUnused

(* WorkbookStore::fits *)
FitsWithoutPending(S, total, bytes) == Cardinality(S) < MaxOpen /\ Admits(total, bytes)
Fits(S, total, bytes) == Cardinality(S) + pending < MaxOpen /\ Admits(total, bytes)

Init ==
    /\ st = [b \in Books |-> "absent"]
    /\ opener = {}
    /\ pending = 0
    /\ held = 0
    /\ parked = [b \in Books |-> "empty"]
    /\ phase = [r \in Reads |-> "idle"]
    /\ on = [r \in Reads |-> NoBook]
    /\ idle = [b \in Books |-> 0]
    /\ unused = [b \in Books |-> 0]
    /\ since = Period       \* an interval's first tick is immediate

-----------------------------------------------------------------------------
(***************************************************************************)
(* Opening.                                                                *)
(***************************************************************************)
(* admits, asked once per upload chunk, of the bytes uploaded so far: only *)
(* a refusal under the read lock ...                                       *)
AskRoom(b) ==
    /\ LockFree
    /\ st[b] = "absent"
    /\ ~Fits(Open, held, Bytes[b] - ReaderBytes[b])
    /\ st' = [st EXCEPT ![b] = "asked"]
    /\ UNCHANGED <<opener, pending, held, parked, rpcVars, clockVars>>

(* ... goes on to sweep under the write lock, before it asks again. *)
AskSweeps(b) ==
    /\ LockFree
    /\ st[b] = "asked"
    /\ st' = [SweptSt EXCEPT ![b] = "absent"]
    /\ parked' = SweptPool
    /\ held' = SweptHeld
    /\ idle' = SweptIdle
    /\ unused' = SweptUnused
    /\ UNCHANGED <<opener, pending, phase, on, since>>

(* reserve up to and including fits; the write lock stays held. *)
ReserveRefused(b) ==
    /\ LockFree
    /\ st[b] = "absent"
    /\ ~Fits(Open \ Expired, SweptHeld, Bytes[b])
    /\ Sweep
    /\ UNCHANGED <<opener, pending, phase, on, since>>

ReserveChecked(b) ==
    /\ LockFree
    /\ st[b] = "absent"
    /\ Fits(Open \ Expired, SweptHeld, Bytes[b])
    /\ st' = [SweptSt EXCEPT ![b] = "checked"]
    /\ parked' = SweptPool
    /\ held' = SweptHeld
    /\ idle' = SweptIdle
    /\ unused' = SweptUnused
    /\ UNCHANGED <<opener, pending, phase, on, since>>

(* The budget.take of reserve, which readers may have beaten to the room. *)
ReserveTakeUnchecked(b) ==
    /\ st[b] = "checked"
    /\ held' = held + Bytes[b]
    /\ pending' = pending + 1
    /\ st' = [st EXCEPT ![b] = "parsing"]
    /\ UNCHANGED <<opener, parked, rpcVars, clockVars>>

ReserveTakeUncounted(b) ==
    /\ st[b] = "checked"
    /\ Admits(held, Bytes[b])
    /\ held' = held + Bytes[b]
    /\ st' = [st EXCEPT ![b] = "parsing"]
    /\ UNCHANGED <<opener, pending, parked, rpcVars, clockVars>>

ReserveTake(b) ==
    /\ st[b] = "checked"
    /\ Admits(held, Bytes[b])
    /\ held' = held + Bytes[b]
    /\ pending' = pending + 1
    /\ st' = [st EXCEPT ![b] = "parsing"]
    /\ UNCHANGED <<opener, parked, rpcVars, clockVars>>

ReserveBeaten(b) ==
    /\ st[b] = "checked"
    /\ ~Admits(held, Bytes[b])
    /\ st' = [st EXCEPT ![b] = "absent"]
    /\ UNCHANGED <<opener, pending, held, parked, rpcVars, clockVars>>

(* The parse fails or panics and the Reservation is dropped. *)
ParseFailsKeepingBytes(b) ==
    /\ LockFree
    /\ st[b] = "parsing"
    /\ pending' = pending - 1
    /\ st' = [st EXCEPT ![b] = "absent"]
    /\ UNCHANGED <<opener, held, parked, rpcVars, clockVars>>

ParseFails(b) ==
    /\ LockFree
    /\ st[b] = "parsing"
    /\ pending' = pending - 1
    /\ held' = Give(held, Bytes[b])
    /\ st' = [st EXCEPT ![b] = "absent"]
    /\ UNCHANGED <<opener, parked, rpcVars, clockVars>>

(* The probe is parked as the first reader and register inserts the entry, *)
(* which the handler keeps an Arc of to build its response from.           *)
Register(b) ==
    /\ LockFree
    /\ st[b] = "parsing"
    /\ pending' = pending - 1
    /\ st' = [st EXCEPT ![b] = "open"]
    /\ parked' = [parked EXCEPT ![b] = Park(@, "first")]
    /\ opener' = opener \cup {b}
    /\ idle' = [idle EXCEPT ![b] = 0]
    /\ unused' = [unused EXCEPT ![b] = 0]
    /\ UNCHANGED <<held, rpcVars, since>>

(* The response is built, or the handler was cancelled while it awaited    *)
(* the parse, and the handler's Arc goes.  Only a response carries the id: *)
(* a cancelled open leaves an orphan behind.                               *)
LeaveOpen(b) ==
    /\ b \in opener
    /\ opener' = opener \ {b}
    /\ UNCHANGED <<st, pending, held, parked, rpcVars, clockVars>>

-----------------------------------------------------------------------------
(***************************************************************************)
(* Closing.                                                                *)
(***************************************************************************)
(* CloseWorkbook: what is still borrowed outlives the registry's entry. *)
Close(b) ==
    /\ LockFree
    /\ st[b] = "open"
    /\ b \notin opener       \* nobody knows its id yet
    /\ IF InUse(b)
       THEN /\ st' = [st EXCEPT ![b] = "closed"]
            /\ held' = Give(held, Bytes[b])
            /\ UNCHANGED parked
       ELSE /\ st' = [st EXCEPT ![b] = "absent"]
            /\ held' = Give(held, Bytes[b] + PoolCharge(b))
            /\ parked' = [parked EXCEPT ![b] = "empty"]
    /\ idle' = [idle EXCEPT ![b] = 0]
    /\ unused' = [unused EXCEPT ![b] = 0]
    /\ UNCHANGED <<opener, pending, rpcVars, since>>

(* The reaper's tick: evict_idle. *)
Reap ==
    /\ ReaperOn
    /\ since = Period
    /\ LockFree
    /\ Sweep
    /\ since' = 0
    /\ UNCHANGED <<opener, pending, rpcVars>>

-----------------------------------------------------------------------------
(***************************************************************************)
(* Reading.                                                                *)
(***************************************************************************)
(* get: the Arc is cloned under the read lock and touched just after,      *)
(* during which every sweep finds the workbook in use.                     *)
Get(r, b) ==
    /\ LockFree
    /\ phase[r] = "idle"
    /\ st[b] = "open"
    /\ b \notin opener
    /\ phase' = [phase EXCEPT ![r] = "held"]
    /\ on' = [on EXCEPT ![r] = b]
    /\ idle' = [idle EXCEPT ![b] = 0]
    /\ unused' = [unused EXCEPT ![b] = 0]
    /\ UNCHANGED <<storeVars, since>>

(* WorkbookEntry::reader with a parked reader to take. *)
TakeParked(r) ==
    /\ phase[r] = "held"
    /\ parked[on[r]] # "empty"
    /\ phase' = [phase EXCEPT ![r] = parked[on[r]]]
    /\ parked' = [parked EXCEPT ![on[r]] = "empty"]
    /\ UNCHANGED <<st, opener, pending, held, on, clockVars>>

(* ... or none: the pool is let go of before the budget is asked, ... *)
MissReader(r) ==
    /\ phase[r] = "held"
    /\ parked[on[r]] = "empty"
    /\ phase' = [phase EXCEPT ![r] = "missed"]
    /\ UNCHANGED <<storeVars, on, clockVars>>

(* ... which is charged for a further reader ... *)
ChargeReader(r) ==
    /\ phase[r] = "missed"
    /\ Admits(held, ReaderBytes[on[r]])
    /\ held' = held + ReaderBytes[on[r]]
    /\ phase' = [phase EXCEPT ![r] = "opening"]
    /\ UNCHANGED <<st, opener, pending, parked, on, clockVars>>

(* ... or has no room: LimitExceeded::ReaderBytes. *)
RefuseReader(r) ==
    /\ phase[r] = "missed"
    /\ ~Admits(held, ReaderBytes[on[r]])
    /\ phase' = [phase EXCEPT ![r] = "done"]
    /\ UNCHANGED <<storeVars, on, clockVars>>

(* open_as gives the further reader ... *)
OpenReader(r) ==
    /\ phase[r] = "opening"
    /\ phase' = [phase EXCEPT ![r] = "extra"]
    /\ UNCHANGED <<storeVars, on, clockVars>>

(* ... or fails or panics, which drops its Charge. *)
OpenReaderFails(r) ==
    /\ phase[r] = "opening"
    /\ held' = Give(held, ReaderBytes[on[r]])
    /\ phase' = [phase EXCEPT ![r] = "done"]
    /\ UNCHANGED <<st, opener, pending, parked, on, clockVars>>

(* PooledReader::drop, at the end of the body or while it unwinds. *)
Return(r) ==
    LET b == on[r]
        full == parked[b] # "empty" /\ phase[r] = "extra" IN
    /\ phase[r] \in {"first", "extra"}
    /\ parked' = [parked EXCEPT ![b] = Park(@, phase[r])]
    /\ held' = Give(held, DroppedByPark(parked[b], phase[r], ReaderBytes[b]))
    /\ phase' = [phase EXCEPT ![r] = IF full THEN "dropping" ELSE "done"]
    /\ UNCHANGED <<st, opener, pending, on, clockVars>>

(* The reader park had no place for goes, with its Charge. *)
DropReader(r) ==
    /\ phase[r] = "dropping"
    /\ held' = Give(held, ReaderBytes[on[r]])
    /\ phase' = [phase EXCEPT ![r] = "done"]
    /\ UNCHANGED <<st, opener, pending, parked, on, clockVars>>

(* The RPC drops its Arc, after a read, a refusal, or GetMetadata and      *)
(* GetDefinedNames, which borrow no reader.  The last Arc of a removed     *)
(* workbook frees it.                                                      *)
Leave(r) ==
    LET b == on[r]
        last == st[b] = "closed" /\ ~(\E q \in Reads \ {r} : on[q] = b) IN
    /\ phase[r] \in {"held", "done"}
    /\ phase' = [phase EXCEPT ![r] = "idle"]
    /\ on' = [on EXCEPT ![r] = NoBook]
    /\ IF last
       THEN /\ st' = [st EXCEPT ![b] = "absent"]
            /\ parked' = [parked EXCEPT ![b] = "empty"]
            /\ held' = Give(held, PoolCharge(b))
       ELSE UNCHANGED <<st, parked, held>>
    /\ UNCHANGED <<opener, pending, clockVars>>

-----------------------------------------------------------------------------
(* Time passes, never past a reaper tick that is due.  OpenWorkbook builds *)
(* its response, or has its result dropped, within a tick of registering.  *)
Tick ==
    /\ ReaperOn => since < Period
    /\ opener = {}
    /\ idle' = [b \in Books |-> IF b \in Open THEN Least(idle[b] + 1, Ttl) ELSE idle[b]]
    /\ unused' = [b \in Books |->
                    IF b \in Open /\ ~InUse(b)
                    THEN Least(unused[b] + 1, Ttl + Period) ELSE unused[b]]
    /\ since' = IF ReaperOn THEN since + 1 ELSE since
    /\ UNCHANGED <<storeVars, rpcVars>>

OpenNext == \E b \in Books :
    \/ AskRoom(b) \/ AskSweeps(b) \/ ReserveRefused(b) \/ ReserveChecked(b)
    \/ ReserveTake(b) \/ ReserveBeaten(b)
    \/ ParseFails(b) \/ Register(b) \/ LeaveOpen(b) \/ Close(b)

ReadNext == \E r \in Reads :
    \/ \E b \in Books : Get(r, b)
    \/ TakeParked(r) \/ MissReader(r) \/ ChargeReader(r) \/ RefuseReader(r)
    \/ OpenReader(r) \/ OpenReaderFails(r)
    \/ Return(r) \/ DropReader(r) \/ Leave(r)

Next == OpenNext \/ ReadNext \/ Reap \/ Tick

Spec == Init /\ [][Next]_vars

(* The clock advances, reserve leaves its critical section, OpenWorkbook   *)
(* lets go of what it opened, and the reaper's write lock is not refused   *)
(* for ever: the registry's other critical sections are short and never    *)
(* wait for anything.  Strong, because opens without end interrupt both    *)
(* the clock's step and the reaper's.                                      *)
Fairness ==
    /\ SF_vars(Tick)
    /\ SF_vars(Reap)
    /\ \A b \in Books : WF_vars(ReserveTake(b) \/ ReserveBeaten(b))
    /\ \A b \in Books : WF_vars(LeaveOpen(b))

FairSpec == Spec /\ Fairness
-----------------------------------------------------------------------------
TypeOK ==
    /\ st \in [Books -> Stages]
    /\ opener \in SUBSET Books
    /\ pending \in Nat
    /\ held \in Nat
    /\ parked \in [Books -> PoolStates]
    /\ phase \in [Reads -> Phases]
    /\ on \in [Reads -> Books \cup {NoBook}]
    /\ idle \in [Books -> 0..Ttl]
    /\ unused \in [Books -> 0..(Ttl + Period)]
    /\ since \in 0..Period

(* What the budget owes: every workbook in the registry or being parsed,   *)
(* every further reader being opened, borrowed or dropped, every charged   *)
(* reader parked.                                                          *)
BooksCharged == Open \cup Parsing
ReadsCharged == {r \in Reads : phase[r] \in {"opening", "extra", "dropping"}}
PoolsCharged == {b \in Books : parked[b] = "extra"}
ReadCharge == [r \in Reads |-> IF on[r] \in Books THEN ReaderBytes[on[r]] ELSE 0]

(* Budget::held is the sum of the live charges, however opens fail,        *)
(* readers fail, pools replace one reader by another, and workbooks close  *)
(* or expire under their readers: no byte is leaked and none is given back *)
(* twice (the saturating_sub of Budget::give would hide that one).  So the *)
(* budget is empty again once nothing is open and nothing is read.         *)
LedgerExact ==
    held = Total(BooksCharged, Bytes) + Total(ReadsCharged, ReadCharge)
           + Total(PoolsCharged, ReaderBytes)

(* max_store_bytes is never passed, though readers charge it without the   *)
(* registry lock while an open stands between its check and its take.      *)
WithinBudget == held <= MaxBytes

(* max_open_workbooks bounds the registered workbooks and the opens still  *)
(* parsing together, and Registry::pending counts exactly the latter, so   *)
(* concurrent opens cannot overshoot the cap and failed ones do not eat it.*)
CapHolds ==
    /\ pending = Cardinality(Parsing)
    /\ Cardinality(Open) + pending <= MaxOpen

(* A live workbook has exactly one reader without a Charge, parked or      *)
(* borrowed by one RPC, and never loses it to a charged one (park): the    *)
(* charge of the workbook itself always has one reader to cover, and no    *)
(* more.  So a read finds the pool empty only while another read borrows   *)
(* the first reader.  Nothing is said of the moment it is charged for a    *)
(* further one, or refused it: the first may be parked again by then.      *)
OneFreeReader ==
    \A b \in Books :
        LET borrowers == {r \in Reads : on[r] = b /\ phase[r] = "first"} IN
        IF st[b] \in {"open", "closed"}
        THEN IF parked[b] = "first" THEN borrowers = {}
             ELSE \E r \in Reads : borrowers = {r}
        ELSE parked[b] = "empty" /\ borrowers = {}

(* LimitExceeded::ReaderBytes tells the client that "another read of this  *)
(* workbook already holds its reader" and to "retry once the other read    *)
(* ends": at a refusal some other read has a reader of the workbook.       *)
HasReader(r) == phase[r] \in {"opening", "first", "extra", "dropping"}
RefusedForAnother ==
    [][\A r \in Reads : RefuseReader(r) =>
          \E q \in Reads \ {r} : on[q] = on[r] /\ HasReader(q)]_vars

(* A workbook some RPC holds stays in memory under that RPC, whatever its  *)
(* timestamp says: only CloseWorkbook takes it out of the registry, never  *)
(* a sweep.                                                                *)
HandleOutlivesRead ==
    /\ \A r \in Reads : on[r] \in Books => st[on[r]] \in {"open", "closed"}
    /\ \A b \in opener : st[b] = "open"

(* With the reaper running, a workbook is swept at most one reaper period  *)
(* early: the clock of one that a long read held restarts at the sweeps    *)
(* that find it busy, not when the read ends.                              *)
KeptNearlyTtl == ReaperOn => \A b \in Expired : unused[b] + Period >= Ttl

(* "A workbook outlives its TTL by at most one period" (spawn_reaper). *)
ReapedInTime == ReaperOn /\ Ttl > 0 => \A b \in Open : unused[b] < Ttl + Period

(* An idle workbook goes within one period of its TTL, early or late. *)
GoesNearTtl == KeptNearlyTtl /\ ReapedInTime

(* A handle nobody closes - its client was killed, or cancelled the open   *)
(* while it parsed - is not open and unused for ever.                      *)
OrphanReaped == \A b \in Books : []<>(st[b] # "open" \/ InUse(b))
=============================================================================
