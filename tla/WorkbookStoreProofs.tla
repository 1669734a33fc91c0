------------------------ MODULE WorkbookStoreProofs ------------------------
(***************************************************************************)
(* The safety of WorkbookStore, for every number of workbooks, RPCs and    *)
(* bytes.  Nothing is assumed finite: the sets that are counted are shown  *)
(* to stay finite along with what is counted of them.                      *)
(***************************************************************************)
EXTENDS WorkbookStore, TLAPS, FiniteSetTheorems

-----------------------------------------------------------------------------
(* Sums over owners, as cardinalities. *)

(* What one owner is charged. *)
LEMMA TotalSingle ==
  ASSUME NEW x, NEW f, f[x] \in Nat
  PROVE  IsFiniteSet(Charged({x}, f)) /\ Total({x}, f) = f[x]
<1>1. Charged({x}, f) = {x} \X (1..f[x])  BY DEF Charged
<1>2. IsFiniteSet({x}) /\ Cardinality({x}) = 1  BY FS_Singleton
<1>3. IsFiniteSet(1..f[x]) /\ Cardinality(1..f[x]) = f[x]  BY FS_Interval,
                                                              SMTT(60)
<1>4. IsFiniteSet({x} \X (1..f[x])) /\ Cardinality({x} \X (1..f[x])) = 1 * f[x]
  BY <1>2, <1>3, FS_Product, ZenonT(60)
<1>5. 1 * f[x] = f[x]  OBVIOUS
<1> QED  BY <1>1, <1>4, <1>5, Zenon DEF Total

(* Disjoint groups of owners add up. *)
LEMMA TotalUnion ==
  ASSUME NEW S, NEW T, NEW f, S \cap T = {},
         IsFiniteSet(Charged(S, f)), IsFiniteSet(Charged(T, f))
  PROVE  /\ IsFiniteSet(Charged(S \cup T, f))
         /\ Total(S \cup T, f) = Total(S, f) + Total(T, f)
<1>1. Charged(S \cup T, f) = Charged(S, f) \cup Charged(T, f)  BY DEF Charged
<1>2. Charged(S, f) \cap Charged(T, f) = {}  BY DEF Charged
<1>3. Cardinality({}) = 0  BY FS_EmptySet
<1>4. /\ Cardinality(Charged(S, f)) \in Nat
      /\ Cardinality(Charged(T, f)) \in Nat
  BY FS_CardinalityType
<1>5. /\ IsFiniteSet(Charged(S, f) \cup Charged(T, f))
      /\ Cardinality(Charged(S, f) \cup Charged(T, f))
           = Cardinality(Charged(S, f)) + Cardinality(Charged(T, f))
               - Cardinality(Charged(S, f) \cap Charged(T, f))
  BY FS_Union
<1>6. Cardinality(Charged(S, f) \cup Charged(T, f))
           = Cardinality(Charged(S, f)) + Cardinality(Charged(T, f))
  <2>1. Cardinality(Charged(S, f) \cap Charged(T, f)) = 0  BY <1>2, <1>3, Zenon
  <2> QED  BY <2>1, <1>4, <1>5
<1> QED  BY <1>1, <1>5, <1>6, Zenon DEF Total

(* A group of owners that leaves takes its sum with it. *)
LEMMA TotalMinus ==
  ASSUME NEW S, NEW T, NEW f, T \subseteq S, IsFiniteSet(Charged(S, f))
  PROVE  /\ IsFiniteSet(Charged(T, f))
         /\ IsFiniteSet(Charged(S \ T, f))
         /\ Total(T, f) \in Nat
         /\ Total(S \ T, f) \in Nat
         /\ Total(S, f) = Total(S \ T, f) + Total(T, f)
<1>1. Charged(T, f) \subseteq Charged(S, f) /\ Charged(S \ T, f) \subseteq Charged(S, f)
  BY DEF Charged
<1>2. IsFiniteSet(Charged(T, f)) /\ IsFiniteSet(Charged(S \ T, f))
  BY <1>1, FS_Subset
<1>3. (S \ T) \cap T = {} /\ (S \ T) \cup T = S  OBVIOUS
<1>4. Total(S, f) = Total(S \ T, f) + Total(T, f)
  BY <1>2, <1>3, TotalUnion
<1> QED  BY <1>2, <1>4, FS_CardinalityType DEF Total

(* One owner joins. *)
LEMMA TotalAdd ==
  ASSUME NEW S, NEW f, NEW x, x \notin S, f[x] \in Nat, IsFiniteSet(Charged(S, f))
  PROVE  /\ IsFiniteSet(Charged(S \cup {x}, f))
         /\ Total(S \cup {x}, f) = Total(S, f) + f[x]
<1>1. PICK T : T = {x}  OBVIOUS
<1>2. S \cap T = {}  BY <1>1
<1>3. IsFiniteSet(Charged(T, f))  BY <1>1, TotalSingle, Zenon
<1>4. Total(T, f) = f[x]  BY <1>1, TotalSingle, Zenon
<1>5. /\ IsFiniteSet(Charged(S \cup T, f))
      /\ Total(S \cup T, f) = Total(S, f) + Total(T, f)
  BY <1>2, <1>3, TotalUnion
<1> QED  BY <1>1, <1>4, <1>5, Zenon

(* One owner leaves. *)
LEMMA TotalRemove ==
  ASSUME NEW S, NEW f, NEW x, x \in S, f[x] \in Nat, IsFiniteSet(Charged(S, f))
  PROVE  /\ IsFiniteSet(Charged(S \ {x}, f))
         /\ Total(S \ {x}, f) \in Nat
         /\ Total(S, f) = Total(S \ {x}, f) + f[x]
<1>1. {x} \subseteq S  OBVIOUS
<1>2. Total({x}, f) = f[x]  BY TotalSingle
<1>3. /\ IsFiniteSet(Charged(S \ {x}, f))
      /\ Total(S \ {x}, f) \in Nat
      /\ Total(S, f) = Total(S \ {x}, f) + Total({x}, f)
  BY <1>1, TotalMinus
<1> QED  BY <1>2, <1>3, Zenon

(* Only the amounts of the owners counted matter. *)
LEMMA ChargedSame ==
  ASSUME NEW S, NEW f, NEW g, \A x \in S : f[x] = g[x]
  PROVE  Charged(S, f) = Charged(S, g)
BY DEF Charged

-----------------------------------------------------------------------------
(***************************************************************************)
(* The inductive invariant.  TypeOK alone is not inductive (pending - 1),  *)
(* nor is any of the safety properties: the ledger needs to know that a    *)
(* registered workbook is not registered twice, the cap that reserve holds *)
(* the lock from its check to its take, and the pools that an RPC with a   *)
(* reader holds the Arc of a live workbook.                                *)
(***************************************************************************)
OneReserver ==
    \A a, b \in Books : st[a] = "checked" /\ st[b] = "checked" => a = b

HandleInv ==
    /\ HandleOutlivesRead
    /\ \A r \in Reads : phase[r] = "idle" <=> on[r] = NoBook

CapInv ==
    /\ CapHolds
    /\ IsFiniteSet(Open)
    /\ IsFiniteSet(Parsing)
    /\ (\E b \in Books : st[b] = "checked") => Cardinality(Open) + pending < MaxOpen

LedgerInv ==
    /\ LedgerExact
    /\ WithinBudget
    /\ IsFiniteSet(Charged(BooksCharged, Bytes))
    /\ IsFiniteSet(Charged(ReadsCharged, ReadCharge))
    /\ IsFiniteSet(Charged(PoolsCharged, ReaderBytes))

IInv == TypeOK /\ OneReserver /\ HandleInv /\ OneFreeReader /\ CapInv /\ LedgerInv

(* What the sweep of reserve and the sweeps that end in nothing share. *)
AnySweep ==
    /\ LockFree
    /\ parked' = SweptPool
    /\ held' = SweptHeld
    /\ idle' = SweptIdle
    /\ unused' = SweptUnused
    /\ UNCHANGED <<opener, pending, phase, on>>
    /\ since' \in {since, 0}
    /\ \/ st' = SweptSt
       \/ \E b \in Books : /\ st[b] = "absent"
                           /\ Fits(Open \ Expired, SweptHeld, Bytes[b])
                           /\ st' = [SweptSt EXCEPT ![b] = "checked"]
       \/ \E b \in Books : st[b] = "asked" /\ st' = [SweptSt EXCEPT ![b] = "absent"]

(* The four actions that sweep are instances of it. *)
LEMMA Sweeps ==
  ASSUME \/ \E b \in Books : AskSweeps(b) \/ ReserveRefused(b) \/ ReserveChecked(b)
         \/ Reap
  PROVE  AnySweep
BY DEF AskSweeps, ReserveRefused, ReserveChecked, Reap, Sweep, AnySweep, rpcVars

(* What a sweep frees was charged, so what it leaves is what it leaves     *)
(* charged: Give does not saturate.                                        *)
LEMMA SweepFrees ==
  ASSUME IInv
  PROVE  LET pools == {b \in Expired : parked[b] = "extra"} IN
         /\ SweptHeld \in Nat
         /\ SweptHeld <= held
         /\ SweptHeld = Total(BooksCharged \ Expired, Bytes)
                        + Total(ReadsCharged, ReadCharge)
                        + Total(PoolsCharged \ pools, ReaderBytes)
         /\ IsFiniteSet(Charged(BooksCharged \ Expired, Bytes))
         /\ IsFiniteSet(Charged(PoolsCharged \ pools, ReaderBytes))
<1> DEFINE pools == {b \in Expired : parked[b] = "extra"}
<1>1. Expired \subseteq BooksCharged  BY DEF Expired, BooksCharged
<1>2. pools \subseteq PoolsCharged  BY DEF Expired, PoolsCharged, Open
<1> HIDE DEF pools
<1>3. /\ IsFiniteSet(Charged(BooksCharged, Bytes))
      /\ IsFiniteSet(Charged(ReadsCharged, ReadCharge))
      /\ IsFiniteSet(Charged(PoolsCharged, ReaderBytes))
      /\ held \in Nat
      /\ held = Total(BooksCharged, Bytes) + Total(ReadsCharged, ReadCharge)
                + Total(PoolsCharged, ReaderBytes)
  BY DEF IInv, LedgerInv, LedgerExact, TypeOK
<1>4. /\ IsFiniteSet(Charged(BooksCharged \ Expired, Bytes))
      /\ Total(Expired, Bytes) \in Nat
      /\ Total(BooksCharged \ Expired, Bytes) \in Nat
      /\ Total(BooksCharged, Bytes)
           = Total(BooksCharged \ Expired, Bytes) + Total(Expired, Bytes)
  BY <1>1, <1>3, TotalMinus
<1>5. /\ IsFiniteSet(Charged(PoolsCharged \ pools, ReaderBytes))
      /\ Total(pools, ReaderBytes) \in Nat
      /\ Total(PoolsCharged \ pools, ReaderBytes) \in Nat
      /\ Total(PoolsCharged, ReaderBytes)
           = Total(PoolsCharged \ pools, ReaderBytes) + Total(pools, ReaderBytes)
  BY <1>2, <1>3, TotalMinus
<1>6. Total(ReadsCharged, ReadCharge) \in Nat
  BY <1>3, FS_CardinalityType DEF Total
<1>7. SweptHeld = Give(held, Total(Expired, Bytes) + Total(pools, ReaderBytes))
  BY DEF SweptHeld, pools
<1>8. SweptHeld = held - (Total(Expired, Bytes) + Total(pools, ReaderBytes))
  BY <1>3, <1>4, <1>5, <1>6, <1>7 DEF Give
<1>9. /\ SweptHeld \in Nat
      /\ SweptHeld <= held
      /\ SweptHeld = Total(BooksCharged \ Expired, Bytes)
                     + Total(ReadsCharged, ReadCharge)
                     + Total(PoolsCharged \ pools, ReaderBytes)
  BY <1>3, <1>4, <1>5, <1>6, <1>8
<1> QED  BY <1>4, <1>5, <1>9 DEF pools

(* What the pools and RPCs of a state that satisfies the invariant look    *)
(* like from one RPC.                                                      *)
LEMMA ReadFacts ==
  ASSUME IInv, NEW r \in Reads
  PROVE  /\ phase[r] # "idle" => on[r] \in Books /\ st[on[r]] \in {"open", "closed"}
         /\ phase[r] = "idle" => on[r] = NoBook
         /\ phase[r] \in Phases
         /\ on[r] \in Books => on[r] # NoBook
BY NoBookAssumption DEF IInv, TypeOK, HandleInv, HandleOutlivesRead

-----------------------------------------------------------------------------
(* The steps. *)

LEMMA TypeStep ==
  ASSUME IInv, [Next]_vars
  PROVE  TypeOK'
<1> USE BytesAssumption, ClockAssumption, LimitAssumption
<1>0. TypeOK  BY DEF IInv
<1>1. CASE AnySweep
  <2>1. SweptHeld \in Nat  BY SweepFrees
  <2>2. st' \in [Books -> Stages]
    BY <1>0, <1>1 DEF AnySweep, SweptSt, TypeOK, Stages
  <2>3. parked' \in [Books -> PoolStates]
    BY <1>0, <1>1 DEF AnySweep, SweptPool, TypeOK, PoolStates
  <2>4. /\ idle' \in [Books -> 0..Ttl]
        /\ unused' \in [Books -> 0..(Ttl + Period)]
    BY <1>0, <1>1 DEF AnySweep, SweptIdle, SweptUnused, TypeOK
  <2> QED  BY <1>0, <1>1, <2>1, <2>2, <2>3, <2>4 DEF AnySweep, TypeOK
<1>2. ASSUME NEW b \in Books,
             AskRoom(b) \/ ReserveTake(b) \/ ReserveBeaten(b) \/ ParseFails(b)
             \/ Register(b) \/ LeaveOpen(b) \/ Close(b)
      PROVE  TypeOK'
  <2>1. CASE ReserveTake(b)
    BY <1>0, <2>1 DEF ReserveTake, TypeOK, Stages, rpcVars, clockVars
  <2>2. CASE ReserveBeaten(b)
    BY <1>0, <2>2 DEF ReserveBeaten, TypeOK, Stages, rpcVars, clockVars
  <2>3. ASSUME st[b] = "parsing"  PROVE pending - 1 \in Nat
    <3>1. IsFiniteSet(Parsing) /\ pending = Cardinality(Parsing)
      BY DEF IInv, CapInv, CapHolds
    <3>2. Parsing # {}  BY <2>3 DEF Parsing
    <3>3. pending # 0  BY <3>1, <3>2, FS_EmptySet
    <3> QED  BY <1>0, <3>3 DEF TypeOK
  <2>4. CASE ParseFails(b)
    BY <1>0, <2>3, <2>4 DEF ParseFails, Give, TypeOK, Stages, rpcVars, clockVars
  <2>5. CASE Register(b)
    BY <1>0, <2>3, <2>5
    DEF Register, Park, TypeOK, Stages, PoolStates, rpcVars
  <2>6. CASE AskRoom(b) \/ LeaveOpen(b)
    BY <1>0, <2>6 DEF AskRoom, LeaveOpen, TypeOK, Stages, rpcVars, clockVars
  <2>7. CASE Close(b)
    BY <1>0, <2>7 DEF Close, Give, PoolCharge, TypeOK, Stages, PoolStates, rpcVars
  <2> QED  BY <1>2, <2>1, <2>2, <2>4, <2>5, <2>6, <2>7
<1>3. ASSUME NEW r \in Reads, NEW b \in Books, Get(r, b)
      PROVE  TypeOK'
  BY <1>0, <1>3 DEF Get, TypeOK, Phases, storeVars
<1>4. ASSUME NEW r \in Reads,
             TakeParked(r) \/ MissReader(r) \/ ChargeReader(r) \/ RefuseReader(r)
             \/ OpenReader(r) \/ OpenReaderFails(r) \/ Return(r) \/ DropReader(r)
             \/ Leave(r)
      PROVE  TypeOK'
  <2>0. on[r] \in Books  BY <1>4, ReadFacts
          DEF TakeParked, MissReader, ChargeReader, RefuseReader, OpenReader,
              OpenReaderFails, Return, DropReader, Leave
  <2>1. CASE TakeParked(r)
    BY <1>0, <2>0, <2>1 DEF TakeParked, TypeOK, PoolStates, Phases, clockVars
  <2>2. CASE ChargeReader(r)
    BY <1>0, <2>0, <2>2 DEF ChargeReader, TypeOK, Phases, clockVars
  <2>3. CASE MissReader(r) \/ RefuseReader(r)
    BY <1>0, <2>3 DEF MissReader, RefuseReader, TypeOK, Phases, storeVars, clockVars
  <2>4. CASE OpenReader(r)
    BY <1>0, <2>4 DEF OpenReader, TypeOK, Phases, storeVars, clockVars
  <2>5. CASE OpenReaderFails(r) \/ DropReader(r)
    BY <1>0, <2>0, <2>5
    DEF OpenReaderFails, DropReader, Give, TypeOK, Phases, clockVars
  <2>6. CASE Return(r)
    BY <1>0, <2>0, <2>6
    DEF Return, Park, DroppedByPark, Give, TypeOK, PoolStates, Phases, clockVars
  <2>7. CASE Leave(r)
    BY <1>0, <2>0, <2>7
    DEF Leave, PoolCharge, Give, TypeOK, Stages, PoolStates, Phases, clockVars
  <2> QED  BY <1>4, <2>1, <2>2, <2>3, <2>4, <2>5, <2>6, <2>7
<1>5. CASE Tick
  BY <1>0, <1>5 DEF Tick, Least, TypeOK, storeVars, rpcVars
<1>6. CASE UNCHANGED vars
  BY <1>0, <1>6 DEF TypeOK, vars, storeVars, rpcVars, clockVars
<1> QED  BY <1>1, <1>2, <1>3, <1>4, <1>5, <1>6, Sweeps DEF Next, OpenNext, ReadNext

(* Which workbooks an RPC's step is about. *)
LEMMA RpcHasBook ==
  ASSUME IInv, NEW r \in Reads,
         TakeParked(r) \/ MissReader(r) \/ ChargeReader(r) \/ RefuseReader(r)
         \/ OpenReader(r) \/ OpenReaderFails(r) \/ Return(r) \/ DropReader(r)
         \/ Leave(r)
  PROVE  on[r] \in Books /\ st[on[r]] \in {"open", "closed"}
BY ReadFacts DEF TakeParked, MissReader, ChargeReader, RefuseReader, OpenReader,
                 OpenReaderFails, Return, DropReader, Leave

(* Only one open at a time stands in reserve: the lock keeps others out. *)
LEMMA ReserverStep ==
  ASSUME IInv, [Next]_vars
  PROVE  OneReserver'
<1>0. TypeOK /\ OneReserver  BY DEF IInv
<1>1. CASE AnySweep
  BY <1>0, <1>1,
     ZenonT(60) DEF AnySweep, SweptSt, LockFree, TypeOK, OneReserver
<1>2. ASSUME NEW b \in Books,
             AskRoom(b) \/ ReserveTake(b) \/ ReserveBeaten(b) \/ ParseFails(b)
             \/ Register(b) \/ LeaveOpen(b) \/ Close(b)
      PROVE  OneReserver'
  BY <1>0, <1>2 DEF AskRoom, ReserveTake, ReserveBeaten, ParseFails, Register,
                    LeaveOpen, Close, TypeOK, OneReserver
<1>3. ASSUME NEW r \in Reads, NEW b \in Books, Get(r, b)
      PROVE  OneReserver'
  BY <1>0, <1>3 DEF Get, storeVars, OneReserver
<1>4. ASSUME NEW r \in Reads,
             TakeParked(r) \/ MissReader(r) \/ ChargeReader(r) \/ RefuseReader(r)
             \/ OpenReader(r) \/ OpenReaderFails(r) \/ Return(r) \/ DropReader(r)
             \/ Leave(r)
      PROVE  OneReserver'
  BY <1>0, <1>4 DEF TakeParked, MissReader, ChargeReader, RefuseReader, OpenReader,
                    OpenReaderFails, Return, DropReader, Leave, storeVars, TypeOK,
                    OneReserver
<1>5. CASE Tick \/ UNCHANGED vars
  BY <1>0, <1>5 DEF Tick, vars, storeVars, OneReserver
<1> QED  BY <1>1, <1>2, <1>3, <1>4, <1>5, Sweeps DEF Next, OpenNext, ReadNext

(* A sweep spares what is in use, CloseWorkbook keeps it in memory, and    *)
(* only its last RPC frees it.                                             *)
LEMMA HandleStep ==
  ASSUME IInv, [Next]_vars
  PROVE  HandleInv'
<1> USE NoBookAssumption
<1>0. TypeOK /\ HandleInv  BY DEF IInv
<1>1. CASE AnySweep
  <2>1. ASSUME NEW b \in Books, st[b] \in {"open", "closed"}, InUse(b)
        PROVE  st'[b] = st[b]
    BY <1>0, <1>1, <2>1 DEF AnySweep, SweptSt, Expired, TypeOK
  <2>2. \A r \in Reads : on[r] \in Books => st[on[r]] \in {"open", "closed"} /\ InUse(on[r])
    BY <1>0 DEF HandleInv, HandleOutlivesRead, InUse
  <2>3. \A b \in opener : b \in Books /\ st[b] = "open" /\ InUse(b)
    BY <1>0 DEF TypeOK, HandleInv, HandleOutlivesRead, InUse
  <2> QED
    BY <1>0, <1>1, <2>1, <2>2, <2>3 DEF AnySweep, HandleInv, HandleOutlivesRead
<1>2. ASSUME NEW b \in Books,
             AskRoom(b) \/ ReserveTake(b) \/ ReserveBeaten(b) \/ ParseFails(b)
             \/ Register(b) \/ LeaveOpen(b) \/ Close(b)
      PROVE  HandleInv'
  BY <1>0, <1>2 DEF AskRoom, ReserveTake, ReserveBeaten, ParseFails, Register,
                    LeaveOpen, Close, InUse, rpcVars, TypeOK, HandleInv, HandleOutlivesRead
<1>3. ASSUME NEW r \in Reads, NEW b \in Books, Get(r, b)
      PROVE  HandleInv'
  BY <1>0, <1>3 DEF Get, storeVars, TypeOK, HandleInv, HandleOutlivesRead
<1>4. ASSUME NEW r \in Reads,
             TakeParked(r) \/ MissReader(r) \/ ChargeReader(r) \/ RefuseReader(r)
             \/ OpenReader(r) \/ OpenReaderFails(r) \/ Return(r) \/ DropReader(r)
             \/ Leave(r)
      PROVE  HandleInv'
  <2>1. on[r] \in Books  BY <1>4, RpcHasBook
  <2>2. CASE TakeParked(r)
    BY <1>0, <2>1, <2>2 DEF TakeParked, TypeOK, PoolStates, HandleInv,
                            HandleOutlivesRead
  <2>3. CASE MissReader(r) \/ ChargeReader(r) \/ RefuseReader(r) \/ OpenReader(r)
             \/ OpenReaderFails(r) \/ Return(r) \/ DropReader(r)
    BY <1>0, <2>1, <2>3 DEF MissReader, ChargeReader, RefuseReader, OpenReader,
                            OpenReaderFails, Return, DropReader, storeVars, TypeOK,
                            HandleInv, HandleOutlivesRead
  <2>4. CASE Leave(r)
    BY <1>0, <2>1, <2>4 DEF Leave, TypeOK, HandleInv, HandleOutlivesRead
  <2> QED  BY <1>4, <2>2, <2>3, <2>4
<1>5. CASE Tick \/ UNCHANGED vars
  BY <1>0, <1>5 DEF Tick, vars, storeVars, rpcVars, HandleInv, HandleOutlivesRead
<1> QED  BY <1>1, <1>2, <1>3, <1>4, <1>5, Sweeps DEF Next, OpenNext, ReadNext

(* OneFreeReader without sets, one workbook at a time. *)
Borrows(r, b) == on[r] = b /\ phase[r] = "first"
FreeReader(b) ==
    /\ st[b] \in {"open", "closed"} /\ parked[b] = "first" =>
           \A r \in Reads : ~Borrows(r, b)
    /\ st[b] \in {"open", "closed"} /\ parked[b] # "first" =>
           \E r \in Reads : Borrows(r, b) /\ \A q \in Reads : Borrows(q, b) => q = r
    /\ st[b] \notin {"open", "closed"} =>
           parked[b] = "empty" /\ \A r \in Reads : ~Borrows(r, b)

LEMMA FreeReaderEquiv == OneFreeReader <=> \A b \in Books : FreeReader(b)
<1>1. SUFFICES ASSUME NEW b \in Books
               PROVE  LET borrowers == {r \in Reads : on[r] = b /\ phase[r] = "first"} IN
                      FreeReader(b) <=>
                        IF st[b] \in {"open", "closed"}
                        THEN IF parked[b] = "first" THEN borrowers = {}
                             ELSE \E r \in Reads : borrowers = {r}
                        ELSE parked[b] = "empty" /\ borrowers = {}
  BY Zenon DEF OneFreeReader
<1> DEFINE B == {r \in Reads : on[r] = b /\ phase[r] = "first"}
<1>2. B = {} <=> \A r \in Reads : ~Borrows(r, b)  BY DEF Borrows
<1>3. ASSUME NEW r \in Reads
      PROVE  B = {r} <=> Borrows(r, b) /\ \A q \in Reads : Borrows(q, b) => q = r
  BY DEF Borrows
<1> QED  BY <1>2, <1>3 DEF FreeReader

(* A workbook that a step does not concern keeps its readers. *)
LEMMA FreeReaderFrame ==
  ASSUME NEW b \in Books, FreeReader(b),
         st'[b] \in {"open", "closed"} <=> st[b] \in {"open", "closed"},
         parked'[b] = "first" <=> parked[b] = "first",
         parked[b] = "empty" => parked'[b] = "empty",
         \A r \in Reads : Borrows(r, b)' <=> Borrows(r, b)
  PROVE  FreeReader(b)'
BY DEF FreeReader

(* park never loses the first reader and never makes a second one. *)
LEMMA ReaderStep ==
  ASSUME IInv, [Next]_vars
  PROVE  OneFreeReader'
<1> USE NoBookAssumption
<1>0. TypeOK /\ HandleInv /\ \A b \in Books : FreeReader(b)
  BY FreeReaderEquiv DEF IInv
<1>r. SUFFICES ASSUME NEW c \in Books  PROVE FreeReader(c)'
  <2>1. (OneFreeReader <=> \A b \in Books : FreeReader(b))'  BY FreeReaderEquiv, PTL
  <2> QED  BY <2>1
<1>1. CASE AnySweep
  <2>1. \A r \in Reads : Borrows(r, c)' <=> Borrows(r, c)
    BY <1>1 DEF AnySweep, Borrows
  <2>2. CASE c \in Expired
    <3>1. st'[c] = "absent" /\ parked'[c] = "empty"
      BY <1>0, <1>1, <2>2 DEF AnySweep, SweptSt, SweptPool, Expired, Open, TypeOK
    <3>2. \A r \in Reads : ~Borrows(r, c)
      BY <2>2 DEF Expired, InUse, Borrows
    <3> QED  BY <2>1, <3>1, <3>2 DEF FreeReader
  <2>3. CASE c \notin Expired
    <3>1. parked'[c] = parked[c]  BY <1>1, <2>3 DEF AnySweep, SweptPool
    <3>2. st'[c] \in {"open", "closed"} <=> st[c] \in {"open", "closed"}
      BY <1>0, <1>1, <2>3 DEF AnySweep, SweptSt, TypeOK
    <3> QED  BY <1>0, <2>1, <3>1, <3>2, FreeReaderFrame
  <2> QED  BY <2>2, <2>3
<1>2. ASSUME NEW b \in Books,
             AskRoom(b) \/ ReserveTake(b) \/ ReserveBeaten(b) \/ ParseFails(b)
             \/ LeaveOpen(b)
      PROVE  FreeReader(c)'
  BY <1>0, <1>2, FreeReaderFrame
  DEF AskRoom, ReserveTake, ReserveBeaten, ParseFails, LeaveOpen, rpcVars, TypeOK, Borrows
<1>3. ASSUME NEW b \in Books, Register(b)
      PROVE  FreeReader(c)'
  <2>1. CASE c = b
    BY <1>0, <1>3, <2>1 DEF Register, Park, rpcVars, TypeOK, FreeReader, Borrows
  <2>2. CASE c # b
    BY <1>0, <1>3, <2>2, FreeReaderFrame DEF Register, rpcVars, TypeOK, Borrows
  <2> QED  BY <2>1, <2>2
<1>4. ASSUME NEW b \in Books, Close(b)
      PROVE  FreeReader(c)'
  <2>1. CASE c = b /\ ~InUse(b)
    BY <1>0, <1>4, <2>1 DEF Close, InUse, rpcVars, TypeOK, FreeReader, Borrows
  <2>2. CASE c # b \/ InUse(b)
    BY <1>0, <1>4, <2>2, FreeReaderFrame DEF Close, rpcVars, TypeOK, Borrows
  <2> QED  BY <2>1, <2>2
<1>5. ASSUME NEW r \in Reads, NEW b \in Books, Get(r, b)
      PROVE  FreeReader(c)'
  BY <1>0, <1>5, FreeReaderFrame
  DEF Get, storeVars, TypeOK, HandleInv, Borrows
<1>6. ASSUME NEW r \in Reads,
             MissReader(r) \/ ChargeReader(r) \/ RefuseReader(r) \/ OpenReader(r)
             \/ OpenReaderFails(r) \/ DropReader(r)
      PROVE  FreeReader(c)'
  BY <1>0, <1>6, FreeReaderFrame
  DEF MissReader, ChargeReader, RefuseReader, OpenReader, OpenReaderFails, DropReader,
      storeVars, TypeOK, Borrows
<1>7. ASSUME NEW r \in Reads, TakeParked(r)
      PROVE  FreeReader(c)'
  <2>0. on[r] \in Books /\ st[on[r]] \in {"open", "closed"}  BY <1>7, RpcHasBook
  <2>1. CASE c = on[r] /\ parked[c] = "first"
    BY <1>0, <1>7, <2>0, <2>1 DEF TakeParked, TypeOK, FreeReader, Borrows
  <2>2. CASE c # on[r] \/ parked[c] # "first"
    BY <1>0, <1>7, <2>0, <2>2, FreeReaderFrame DEF TakeParked, TypeOK, Borrows
  <2> QED  BY <2>1, <2>2
<1>8. ASSUME NEW r \in Reads, Return(r)
      PROVE  FreeReader(c)'
  <2>0. on[r] \in Books /\ st[on[r]] \in {"open", "closed"}  BY <1>8, RpcHasBook
  <2>1. CASE c = on[r] /\ phase[r] = "first"
    <3>1. parked[c] # "first"  BY <1>0, <2>0, <2>1 DEF FreeReader, Borrows
    <3>2. parked'[c] = "first"
      BY <1>0, <1>8, <2>0, <2>1, <3>1 DEF Return, Park, TypeOK, PoolStates
    <3>3. \A q \in Reads : ~Borrows(q, c)'
      BY <1>0, <1>8, <2>0, <2>1, <3>1 DEF Return, TypeOK, FreeReader, Borrows
    <3> QED  BY <1>8, <2>0, <2>1, <3>2, <3>3 DEF Return, FreeReader
  <2>2. CASE c = on[r] /\ phase[r] # "first"
    <3>1. st' = st  BY <1>8 DEF Return
    <3>2. parked'[c] = "first" <=> parked[c] = "first"
      BY <1>0, <1>8, <2>0, <2>2 DEF Return, Park, TypeOK
    <3>3. \A q \in Reads : Borrows(q, c)' <=> Borrows(q, c)
      BY <1>0, <1>8, <2>2 DEF Return, TypeOK, Borrows
    <3> QED  BY <1>0, <2>0, <2>2, <3>1, <3>2, <3>3 DEF FreeReader
  <2>3. CASE c # on[r]
    BY <1>0, <1>8, <2>0, <2>3, FreeReaderFrame DEF Return, TypeOK, Borrows
  <2> QED  BY <2>1, <2>2, <2>3
<1>9. ASSUME NEW r \in Reads, Leave(r)
      PROVE  FreeReader(c)'
  <2>0. on[r] \in Books /\ st[on[r]] \in {"open", "closed"}  BY <1>9, RpcHasBook
  <2>1. \A q \in Reads : Borrows(q, c)' <=> Borrows(q, c)
    BY <1>0, <1>9 DEF Leave, TypeOK, Borrows
  <2>2. CASE c = on[r] /\ st[c] = "closed" /\ ~(\E q \in Reads \ {r} : on[q] = c)
    BY <1>0, <1>9, <2>1, <2>2 DEF Leave, TypeOK, FreeReader, Borrows
  <2>3. CASE ~(c = on[r] /\ st[c] = "closed" /\ ~(\E q \in Reads \ {r} : on[q] = c))
    BY <1>0, <1>9, <2>1, <2>3, FreeReaderFrame DEF Leave, TypeOK
  <2> QED  BY <2>2, <2>3
<1>10. CASE Tick \/ UNCHANGED vars
  BY <1>0, <1>10, FreeReaderFrame DEF Tick, vars, storeVars, rpcVars, Borrows
<1> QED  BY <1>1, <1>2, <1>3, <1>4, <1>5, <1>6, <1>7, <1>8, <1>9, <1>10, Sweeps
         DEF Next, OpenNext, ReadNext

(* One more or one fewer in a finite set. *)
LEMMA CountOne ==
  ASSUME NEW S, IsFiniteSet(S), NEW x
  PROVE  /\ Cardinality(S) \in Nat
         /\ IsFiniteSet(S \cup {x}) /\ IsFiniteSet(S \ {x})
         /\ x \notin S => Cardinality(S \cup {x}) = Cardinality(S) + 1
         /\ x \in S => Cardinality(S \ {x}) = Cardinality(S) - 1
BY FS_CardinalityType, FS_AddElement, FS_RemoveElement

(* The cap: what reserve checked under the lock still holds when it takes, *)
(* and every reservation ends in exactly one decrement.                    *)
LEMMA CapStep ==
  ASSUME IInv, [Next]_vars
  PROVE  CapInv'
<1> USE LimitAssumption
<1>0. TypeOK /\ OneReserver /\ CapInv  BY DEF IInv
<1>c. /\ IsFiniteSet(Open) /\ Cardinality(Open) \in Nat
      /\ IsFiniteSet(Parsing) /\ pending = Cardinality(Parsing) /\ pending \in Nat
      /\ Cardinality(Open) + pending <= MaxOpen
  BY <1>0, FS_CardinalityType DEF CapInv, CapHolds, TypeOK
<1>1. CASE AnySweep
  <2>1. Open' = Open \ Expired /\ Parsing' = Parsing
    BY <1>0, <1>1 DEF AnySweep, SweptSt, Expired, Open, Parsing, TypeOK
  <2>2. IsFiniteSet(Open \ Expired) /\ Cardinality(Open \ Expired) <= Cardinality(Open)
        /\ Cardinality(Open \ Expired) \in Nat
    BY <1>c, FS_Subset, FS_CardinalityType
  <2>3. (\E b \in Books : st[b] = "checked")'
          => Cardinality(Open \ Expired) + pending < MaxOpen
    BY <1>0, <1>1 DEF AnySweep, SweptSt, Fits, LockFree, TypeOK
  <2>4. pending' = pending  BY <1>1 DEF AnySweep
  <2> QED  BY <1>c, <2>1, <2>2, <2>3, <2>4 DEF CapInv, CapHolds
<1>2. ASSUME NEW b \in Books, ReserveTake(b)
      PROVE  CapInv'
  <2>1. /\ Open' = Open /\ Parsing' = Parsing \cup {b} /\ b \notin Parsing
        /\ pending' = pending + 1
    BY <1>0, <1>2 DEF ReserveTake, Open, Parsing, TypeOK
  <2>2. Cardinality(Open) + pending < MaxOpen  BY <1>0, <1>2 DEF ReserveTake, CapInv
  <2>3. ~(\E a \in Books : st[a] = "checked")'
    BY <1>0, <1>2 DEF ReserveTake, OneReserver, TypeOK
  <2>4. /\ IsFiniteSet(Parsing \cup {b})
        /\ Cardinality(Parsing \cup {b}) = Cardinality(Parsing) + 1
    BY <1>c, <2>1, CountOne, Zenon
  <2> QED  BY <1>c, <2>1, <2>2, <2>3, <2>4 DEF CapInv, CapHolds
<1>3. ASSUME NEW b \in Books, AskRoom(b) \/ ReserveBeaten(b)
      PROVE  CapInv'
  <2>1. Open' = Open /\ Parsing' = Parsing /\ pending' = pending
    BY <1>0, <1>3 DEF AskRoom, ReserveBeaten, Open, Parsing, TypeOK
  <2>2. ~(\E a \in Books : st[a] = "checked")'
    BY <1>0, <1>3 DEF AskRoom, LockFree, ReserveBeaten, OneReserver, TypeOK
  <2> QED  BY <1>c, <2>1, <2>2 DEF CapInv, CapHolds
<1>4. ASSUME NEW b \in Books, ParseFails(b)
      PROVE  CapInv'
  <2>1. /\ Open' = Open /\ Parsing' = Parsing \ {b} /\ b \in Parsing
        /\ pending' = pending - 1
        /\ ~(\E a \in Books : st[a] = "checked")'
    BY <1>0, <1>4 DEF ParseFails, LockFree, Open, Parsing, TypeOK
  <2>2. /\ IsFiniteSet(Parsing \ {b})
        /\ Cardinality(Parsing \ {b}) = Cardinality(Parsing) - 1
    BY <1>c, <2>1, CountOne, Zenon
  <2> QED  BY <1>c, <2>1, <2>2 DEF CapInv, CapHolds
<1>5. ASSUME NEW b \in Books, Register(b)
      PROVE  CapInv'
  <2>1. /\ Open' = Open \cup {b} /\ b \notin Open
        /\ Parsing' = Parsing \ {b} /\ b \in Parsing
        /\ pending' = pending - 1
        /\ ~(\E a \in Books : st[a] = "checked")'
    BY <1>0, <1>5 DEF Register, LockFree, Open, Parsing, TypeOK
  <2>2. /\ IsFiniteSet(Parsing \ {b})
        /\ Cardinality(Parsing \ {b}) = Cardinality(Parsing) - 1
    BY <1>c, <2>1, CountOne, Zenon
  <2>3. /\ IsFiniteSet(Open \cup {b})
        /\ Cardinality(Open \cup {b}) = Cardinality(Open) + 1
    BY <1>c, <2>1, CountOne, Zenon
  <2> QED  BY <1>c, <2>1, <2>2, <2>3 DEF CapInv, CapHolds
<1>6. ASSUME NEW b \in Books, Close(b)
      PROVE  CapInv'
  <2>1. /\ Open' = Open \ {b} /\ b \in Open /\ Parsing' = Parsing
        /\ pending' = pending
        /\ ~(\E a \in Books : st[a] = "checked")'
    BY <1>0, <1>6 DEF Close, LockFree, Open, Parsing, TypeOK
  <2>2. /\ IsFiniteSet(Open \ {b})
        /\ Cardinality(Open \ {b}) = Cardinality(Open) - 1
    BY <1>c, <2>1, CountOne, Zenon
  <2> QED  BY <1>c, <2>1, <2>2 DEF CapInv, CapHolds
<1>7. ASSUME NEW r \in Reads, Leave(r)
      PROVE  CapInv'
  <2>1. /\ Open' = Open /\ Parsing' = Parsing /\ pending' = pending
        /\ (\E a \in Books : st[a] = "checked")' => \E a \in Books : st[a] = "checked"
    BY <1>0, <1>7 DEF Leave, Open, Parsing, TypeOK
  <2> QED  BY <1>0, <1>c, <2>1 DEF CapInv, CapHolds
<1>8. CASE st' = st /\ pending' = pending
  BY <1>0, <1>8 DEF CapInv, CapHolds, Open, Parsing
<1>9. ASSUME NEW b \in Books, LeaveOpen(b)  PROVE CapInv'
  BY <1>8, <1>9 DEF LeaveOpen
<1>10. ASSUME NEW r \in Reads,
              (\E b \in Books : Get(r, b)) \/ TakeParked(r) \/ MissReader(r)
              \/ ChargeReader(r) \/ RefuseReader(r) \/ OpenReader(r)
              \/ OpenReaderFails(r) \/ Return(r) \/ DropReader(r)
       PROVE  CapInv'
  BY <1>8, <1>10 DEF Get, TakeParked, MissReader, ChargeReader, RefuseReader, OpenReader,
                     OpenReaderFails, Return, DropReader, storeVars
<1>11. CASE Tick \/ UNCHANGED vars
  BY <1>8, <1>11 DEF Tick, vars, storeVars
<1> QED  BY <1>1, <1>2, <1>3, <1>4, <1>5, <1>6, <1>7, <1>9, <1>10, <1>11, Sweeps
         DEF Next, OpenNext, ReadNext

-----------------------------------------------------------------------------
(***************************************************************************)
(* The ledger.                                                             *)
(***************************************************************************)
(* What a state that satisfies the invariant says of the three sums. *)
LEMMA Sums ==
  ASSUME IInv
  PROVE  /\ held \in Nat /\ held <= MaxBytes
         /\ IsFiniteSet(Charged(BooksCharged, Bytes))
         /\ IsFiniteSet(Charged(ReadsCharged, ReadCharge))
         /\ IsFiniteSet(Charged(PoolsCharged, ReaderBytes))
         /\ Total(BooksCharged, Bytes) \in Nat
         /\ Total(ReadsCharged, ReadCharge) \in Nat
         /\ Total(PoolsCharged, ReaderBytes) \in Nat
         /\ held = Total(BooksCharged, Bytes) + Total(ReadsCharged, ReadCharge)
                   + Total(PoolsCharged, ReaderBytes)
BY FS_CardinalityType DEF IInv, LedgerInv, LedgerExact, WithinBudget, TypeOK, Total

(* A step's new sums make a new ledger. *)
LEMMA NewLedger ==
  ASSUME NEW B, NEW R, NEW f, NEW P,
         BooksCharged' = B, ReadsCharged' = R, PoolsCharged' = P,
         Charged(R, ReadCharge') = Charged(R, f),
         IsFiniteSet(Charged(B, Bytes)),
         IsFiniteSet(Charged(R, f)),
         IsFiniteSet(Charged(P, ReaderBytes)),
         held' = Total(B, Bytes) + Total(R, f) + Total(P, ReaderBytes),
         held' <= MaxBytes
  PROVE  LedgerInv'
<1>1. Total(R, ReadCharge') = Total(R, f)  BY DEF Total
<1>2. LedgerExact'  BY <1>1 DEF LedgerExact
<1> QED  BY <1>2 DEF LedgerInv, WithinBudget

(* The reads that stay charged stay charged the same. *)
LEMMA SameCharge ==
  ASSUME NEW R, \A r \in R : r \in Reads /\ on'[r] = on[r]
  PROVE  Charged(R, ReadCharge') = Charged(R, ReadCharge)
<1>1. \A r \in R : ReadCharge'[r] = ReadCharge[r]  BY DEF ReadCharge
<1> QED  BY <1>1, ChargedSame

LEMMA LedgerFrame ==
  ASSUME IInv, held' = held,
         BooksCharged' = BooksCharged, ReadsCharged' = ReadsCharged,
         PoolsCharged' = PoolsCharged,
         \A r \in ReadsCharged : on'[r] = on[r]
  PROVE  LedgerInv'
<1>1. Charged(ReadsCharged, ReadCharge') = Charged(ReadsCharged, ReadCharge)
  BY SameCharge DEF ReadsCharged
<1> QED  BY <1>1, Sums, NewLedger

(* Opening, closing and sweeping. *)
LEMMA LedgerSweepStep ==
  ASSUME IInv, AnySweep
  PROVE  LedgerInv'
<1> DEFINE pools == {b \in Expired : parked[b] = "extra"}
<1>0. TypeOK  BY DEF IInv
<1>1. BooksCharged' = BooksCharged \ Expired
  BY <1>0 DEF AnySweep, SweptSt, Expired, BooksCharged, Open, Parsing, TypeOK
<1>2. PoolsCharged' = PoolsCharged \ pools
  BY <1>0 DEF AnySweep, SweptPool, Expired, PoolsCharged, Open, TypeOK
<1>3. ReadsCharged' = ReadsCharged  BY DEF AnySweep, ReadsCharged
<1>4. Charged(ReadsCharged, ReadCharge') = Charged(ReadsCharged, ReadCharge)
  BY SameCharge DEF ReadsCharged, AnySweep
<1>5. held' = SweptHeld  BY DEF AnySweep
<1>6. /\ SweptHeld \in Nat /\ SweptHeld <= held
      /\ SweptHeld = Total(BooksCharged \ Expired, Bytes)
                     + Total(ReadsCharged, ReadCharge)
                     + Total(PoolsCharged \ pools, ReaderBytes)
      /\ IsFiniteSet(Charged(BooksCharged \ Expired, Bytes))
      /\ IsFiniteSet(Charged(PoolsCharged \ pools, ReaderBytes))
  BY SweepFrees
<1> HIDE DEF pools
<1>7. held' <= MaxBytes  BY <1>5, <1>6, Sums, LimitAssumption
<1> QED  BY <1>1, <1>2, <1>3, <1>4, <1>5, <1>6, <1>7, Sums, NewLedger

LEMMA LedgerOpenStep ==
  ASSUME IInv, NEW b \in Books,
         AskRoom(b) \/ ReserveTake(b) \/ ReserveBeaten(b) \/ ParseFails(b)
         \/ Register(b) \/ LeaveOpen(b) \/ Close(b)
  PROVE  LedgerInv'
<1> USE LimitAssumption, BytesAssumption
<1>0. TypeOK /\ FreeReader(b)  BY FreeReaderEquiv DEF IInv
<1>r. /\ ReadsCharged' = ReadsCharged
      /\ Charged(ReadsCharged, ReadCharge') = Charged(ReadsCharged, ReadCharge)
  <2>1. phase' = phase /\ on' = on
    BY DEF AskRoom, ReserveTake, ReserveBeaten, ParseFails, Register, LeaveOpen, Close,
           rpcVars
  <2>2. ReadsCharged' = ReadsCharged  BY <2>1 DEF ReadsCharged
  <2> QED  BY <2>1, <2>2, SameCharge DEF ReadsCharged
<1>s. /\ held \in Nat /\ held <= MaxBytes
      /\ IsFiniteSet(Charged(BooksCharged, Bytes))
      /\ IsFiniteSet(Charged(ReadsCharged, ReadCharge))
      /\ IsFiniteSet(Charged(PoolsCharged, ReaderBytes))
      /\ Total(BooksCharged, Bytes) \in Nat
      /\ Total(ReadsCharged, ReadCharge) \in Nat
      /\ Total(PoolsCharged, ReaderBytes) \in Nat
      /\ held = Total(BooksCharged, Bytes) + Total(ReadsCharged, ReadCharge)
                + Total(PoolsCharged, ReaderBytes)
  BY Sums
<1>1. CASE ReserveTake(b)
  <2>1. /\ BooksCharged' = BooksCharged \cup {b} /\ b \notin BooksCharged
        /\ PoolsCharged' = PoolsCharged
        /\ held' = held + Bytes[b] /\ held' <= MaxBytes
    BY <1>0, <1>1
    DEF ReserveTake, Admits, BooksCharged, PoolsCharged, Open, Parsing, TypeOK
  <2>2. /\ IsFiniteSet(Charged(BooksCharged \cup {b}, Bytes))
        /\ Total(BooksCharged \cup {b}, Bytes) = Total(BooksCharged, Bytes) + Bytes[b]
    BY <1>s, <2>1, TotalAdd
  <2>3. held' = Total(BooksCharged \cup {b}, Bytes) + Total(ReadsCharged, ReadCharge)
                 + Total(PoolsCharged, ReaderBytes)
    BY <1>s, <2>1, <2>2
  <2> QED  BY <1>r, <1>s, <2>1, <2>2, <2>3, NewLedger
<1>2. CASE AskRoom(b) \/ ReserveBeaten(b) \/ LeaveOpen(b)
  <2>1. /\ held' = held /\ BooksCharged' = BooksCharged
        /\ PoolsCharged' = PoolsCharged /\ on' = on
    BY <1>0, <1>2 DEF AskRoom, ReserveBeaten, LeaveOpen, rpcVars, BooksCharged,
                      PoolsCharged, Open, Parsing, TypeOK
  <2> QED  BY <1>r, <2>1, LedgerFrame
<1>3. CASE Register(b)
  <2>1. /\ held' = held /\ BooksCharged' = BooksCharged
        /\ PoolsCharged' = PoolsCharged /\ on' = on
    BY <1>0, <1>3 DEF Register, Park, FreeReader, rpcVars, BooksCharged, PoolsCharged,
                      Open, Parsing, TypeOK
  <2> QED  BY <1>r, <2>1, LedgerFrame
<1>4. CASE ParseFails(b)
  <2>1. /\ BooksCharged' = BooksCharged \ {b} /\ b \in BooksCharged
        /\ PoolsCharged' = PoolsCharged
        /\ held' = Give(held, Bytes[b])
    BY <1>0, <1>4 DEF ParseFails, BooksCharged, PoolsCharged, Open, Parsing, TypeOK
  <2>2. /\ IsFiniteSet(Charged(BooksCharged \ {b}, Bytes))
        /\ Total(BooksCharged \ {b}, Bytes) \in Nat
        /\ Total(BooksCharged, Bytes) = Total(BooksCharged \ {b}, Bytes) + Bytes[b]
    BY <1>s, <2>1, TotalRemove
  <2>3. /\ held' = Total(BooksCharged \ {b}, Bytes) + Total(ReadsCharged, ReadCharge)
                    + Total(PoolsCharged, ReaderBytes)
        /\ held' <= MaxBytes
    BY <1>s, <2>1, <2>2 DEF Give
  <2> QED  BY <1>r, <1>s, <2>1, <2>2, <2>3, NewLedger
<1>5. CASE Close(b) /\ ~(parked[b] = "extra" /\ ~InUse(b))
  <2>1. /\ BooksCharged' = BooksCharged \ {b} /\ b \in BooksCharged
        /\ PoolsCharged' = PoolsCharged
        /\ held' = Give(held, Bytes[b])
    BY <1>0, <1>5
    DEF Close, PoolCharge, BooksCharged, PoolsCharged, Open, Parsing, TypeOK
  <2>2. /\ IsFiniteSet(Charged(BooksCharged \ {b}, Bytes))
        /\ Total(BooksCharged \ {b}, Bytes) \in Nat
        /\ Total(BooksCharged, Bytes) = Total(BooksCharged \ {b}, Bytes) + Bytes[b]
    BY <1>s, <2>1, TotalRemove
  <2>3. /\ held' = Total(BooksCharged \ {b}, Bytes) + Total(ReadsCharged, ReadCharge)
                    + Total(PoolsCharged, ReaderBytes)
        /\ held' <= MaxBytes
    BY <1>s, <2>1, <2>2 DEF Give
  <2> QED  BY <1>r, <1>s, <2>1, <2>2, <2>3, NewLedger
<1>6. CASE Close(b) /\ parked[b] = "extra" /\ ~InUse(b)
  \* A charged reader is parked only while an RPC borrows the first.
  BY <1>0, <1>6 DEF Close, FreeReader, Borrows, InUse
<1> QED  BY <1>1, <1>2, <1>3, <1>4, <1>5, <1>6

(* The charge of a further reader: taken once, moved with the reader into  *)
(* the pool and out of it, given back once when the reader is dropped.     *)
LEMMA LedgerReadStep ==
  ASSUME IInv, NEW r \in Reads,
         TakeParked(r) \/ MissReader(r) \/ ChargeReader(r) \/ RefuseReader(r)
         \/ OpenReader(r) \/ OpenReaderFails(r) \/ Return(r) \/ DropReader(r)
         \/ Leave(r)
  PROVE  LedgerInv'
<1> USE LimitAssumption, BytesAssumption
<1> DEFINE b == on[r]
<1>0. TypeOK /\ b \in Books /\ st[b] \in {"open", "closed"} /\ FreeReader(b)
  BY RpcHasBook, FreeReaderEquiv DEF IInv
<1> HIDE DEF b
<1>b. on[r] = b  BY DEF b
<1>c. ReadCharge[r] = ReaderBytes[b] /\ ReaderBytes[b] \in Nat
  BY <1>0, <1>b DEF ReadCharge
<1>s. /\ held \in Nat /\ held <= MaxBytes
      /\ IsFiniteSet(Charged(BooksCharged, Bytes))
      /\ IsFiniteSet(Charged(ReadsCharged, ReadCharge))
      /\ IsFiniteSet(Charged(PoolsCharged, ReaderBytes))
      /\ Total(BooksCharged, Bytes) \in Nat
      /\ Total(ReadsCharged, ReadCharge) \in Nat
      /\ Total(PoolsCharged, ReaderBytes) \in Nat
      /\ held = Total(BooksCharged, Bytes) + Total(ReadsCharged, ReadCharge)
                + Total(PoolsCharged, ReaderBytes)
  BY Sums
\* What taking this read, or this pool, out of the sums or into them does.
<1>t. ASSUME r \notin ReadsCharged
      PROVE  /\ IsFiniteSet(Charged(ReadsCharged \cup {r}, ReadCharge))
             /\ Total(ReadsCharged \cup {r}, ReadCharge)
                  = Total(ReadsCharged, ReadCharge) + ReaderBytes[b]
  <2>1. /\ IsFiniteSet(Charged(ReadsCharged \cup {r}, ReadCharge))
        /\ Total(ReadsCharged \cup {r}, ReadCharge) = Total(ReadsCharged, ReadCharge) + ReadCharge[r]
    BY <1>c, <1>s, <1>t, TotalAdd
  <2> QED  BY <2>1, <1>c, Zenon
<1>u. ASSUME r \in ReadsCharged
      PROVE  /\ IsFiniteSet(Charged(ReadsCharged \ {r}, ReadCharge))
             /\ Total(ReadsCharged \ {r}, ReadCharge) \in Nat
             /\ Total(ReadsCharged, ReadCharge)
                  = Total(ReadsCharged \ {r}, ReadCharge) + ReaderBytes[b]
  <2>1. /\ IsFiniteSet(Charged(ReadsCharged \ {r}, ReadCharge))
        /\ Total(ReadsCharged \ {r}, ReadCharge) \in Nat
        /\ Total(ReadsCharged, ReadCharge) = Total(ReadsCharged \ {r}, ReadCharge) + ReadCharge[r]
    BY <1>c, <1>s, <1>u, TotalRemove, ZenonT(60)
  <2> QED  BY <2>1, <1>c, Zenon
<1>v. ASSUME b \notin PoolsCharged
      PROVE  /\ IsFiniteSet(Charged(PoolsCharged \cup {b}, ReaderBytes))
             /\ Total(PoolsCharged \cup {b}, ReaderBytes)
                  = Total(PoolsCharged, ReaderBytes) + ReaderBytes[b]
  <2>1. /\ IsFiniteSet(Charged(PoolsCharged \cup {b}, ReaderBytes))
        /\ Total(PoolsCharged \cup {b}, ReaderBytes) = Total(PoolsCharged, ReaderBytes) + ReaderBytes[b]
    <3>1. ReaderBytes[b] \in Nat /\ IsFiniteSet(Charged(PoolsCharged, ReaderBytes))
      BY <1>c, <1>s
    <3> QED  BY <1>v, <3>1, TotalAdd
  <2> QED  BY <2>1, <1>c, Zenon
<1>w. ASSUME b \in PoolsCharged
      PROVE  /\ IsFiniteSet(Charged(PoolsCharged \ {b}, ReaderBytes))
             /\ Total(PoolsCharged \ {b}, ReaderBytes) \in Nat
             /\ Total(PoolsCharged, ReaderBytes)
                  = Total(PoolsCharged \ {b}, ReaderBytes) + ReaderBytes[b]
  <2>1. /\ IsFiniteSet(Charged(PoolsCharged \ {b}, ReaderBytes))
        /\ Total(PoolsCharged \ {b}, ReaderBytes) \in Nat
        /\ Total(PoolsCharged, ReaderBytes) = Total(PoolsCharged \ {b}, ReaderBytes) + ReaderBytes[b]
    BY <1>c, <1>s, <1>w, TotalRemove, ZenonT(60)
  <2> QED  BY <2>1, <1>c, Zenon
<1>q. ASSUME NEW R, R \subseteq Reads, on' = on
      PROVE  Charged(R, ReadCharge') = Charged(R, ReadCharge)
  BY <1>q, SameCharge
<1>1. CASE TakeParked(r) /\ parked[b] = "first"
  <2>1. /\ held' = held /\ on' = on /\ BooksCharged' = BooksCharged
        /\ ReadsCharged' = ReadsCharged /\ PoolsCharged' = PoolsCharged
    BY <1>0, <1>1, <1>b DEF TakeParked, BooksCharged, ReadsCharged, PoolsCharged, Open,
                            Parsing, TypeOK
  <2> QED  BY <2>1, LedgerFrame
<1>2. CASE TakeParked(r) /\ parked[b] = "extra"
  <2>1. /\ held' = held /\ on' = on /\ BooksCharged' = BooksCharged
        /\ ReadsCharged' = ReadsCharged \cup {r} /\ r \notin ReadsCharged
        /\ PoolsCharged' = PoolsCharged \ {b} /\ b \in PoolsCharged
    BY <1>0, <1>2, <1>b DEF TakeParked, BooksCharged, ReadsCharged, PoolsCharged, Open,
                            Parsing, TypeOK
  <2>2. held' = Total(BooksCharged, Bytes) + Total(ReadsCharged \cup {r}, ReadCharge)
                 + Total(PoolsCharged \ {b}, ReaderBytes)
    BY <1>c, <1>s, <1>t, <1>w, <2>1
  <2>3. Charged(ReadsCharged \cup {r}, ReadCharge') = Charged(ReadsCharged \cup {r}, ReadCharge)
    BY <1>q, <2>1 DEF ReadsCharged
  <2> QED  BY <1>s, <1>t, <1>w, <2>1, <2>2, <2>3, NewLedger
<1>3. CASE ChargeReader(r)
  <2>1. /\ held' = held + ReaderBytes[b] /\ held' <= MaxBytes
        /\ on' = on /\ BooksCharged' = BooksCharged
        /\ ReadsCharged' = ReadsCharged \cup {r} /\ r \notin ReadsCharged
        /\ PoolsCharged' = PoolsCharged
    BY <1>0, <1>3, <1>b DEF ChargeReader, Admits, BooksCharged, ReadsCharged,
                            PoolsCharged, Open, Parsing, TypeOK
  <2>2. held' = Total(BooksCharged, Bytes) + Total(ReadsCharged \cup {r}, ReadCharge)
                 + Total(PoolsCharged, ReaderBytes)
    BY <1>c, <1>s, <1>t, <2>1
  <2>3. Charged(ReadsCharged \cup {r}, ReadCharge') = Charged(ReadsCharged \cup {r}, ReadCharge)
    BY <1>q, <2>1 DEF ReadsCharged
  <2> QED  BY <1>s, <1>t, <2>1, <2>2, <2>3, NewLedger
<1>4. CASE MissReader(r) \/ RefuseReader(r) \/ OpenReader(r)
  <2>1. /\ held' = held /\ on' = on /\ BooksCharged' = BooksCharged
        /\ ReadsCharged' = ReadsCharged /\ PoolsCharged' = PoolsCharged
    BY <1>0, <1>4 DEF MissReader, RefuseReader, OpenReader, storeVars, BooksCharged,
                      ReadsCharged, PoolsCharged, Open, Parsing, TypeOK
  <2> QED  BY <2>1, LedgerFrame
<1>5. CASE OpenReaderFails(r) \/ DropReader(r)
  <2>1. /\ held' = Give(held, ReaderBytes[b])
        /\ on' = on /\ BooksCharged' = BooksCharged
        /\ ReadsCharged' = ReadsCharged \ {r} /\ r \in ReadsCharged
        /\ PoolsCharged' = PoolsCharged
    BY <1>0, <1>5, <1>b DEF OpenReaderFails, DropReader, BooksCharged, ReadsCharged,
                            PoolsCharged, Open, Parsing, TypeOK
  <2>2. /\ held' = Total(BooksCharged, Bytes) + Total(ReadsCharged \ {r}, ReadCharge)
                    + Total(PoolsCharged, ReaderBytes)
        /\ held' <= MaxBytes
    BY <1>c, <1>s, <1>u, <2>1 DEF Give
  <2>3. Charged(ReadsCharged \ {r}, ReadCharge') = Charged(ReadsCharged \ {r}, ReadCharge)
    BY <1>q, <2>1 DEF ReadsCharged
  <2> QED  BY <1>s, <1>u, <2>1, <2>2, <2>3, NewLedger
<1>6. CASE Return(r) /\ phase[r] = "extra" /\ parked[b] = "empty"
  <2>1. /\ held' = Give(held, 0)
        /\ on' = on /\ BooksCharged' = BooksCharged
        /\ ReadsCharged' = ReadsCharged \ {r} /\ r \in ReadsCharged
        /\ PoolsCharged' = PoolsCharged \cup {b} /\ b \notin PoolsCharged
    BY <1>0, <1>6, <1>b DEF Return, Park, DroppedByPark, BooksCharged, ReadsCharged,
                            PoolsCharged, Open, Parsing, TypeOK
  <2>2. held' = held  BY <1>s, <2>1 DEF Give
  <2>3. held' = Total(BooksCharged, Bytes) + Total(ReadsCharged \ {r}, ReadCharge)
                 + Total(PoolsCharged \cup {b}, ReaderBytes)
    BY <1>c, <1>s, <1>u, <1>v, <2>1, <2>2
  <2>4. Charged(ReadsCharged \ {r}, ReadCharge') = Charged(ReadsCharged \ {r}, ReadCharge)
    BY <1>q, <2>1 DEF ReadsCharged
  <2> QED  BY <1>s, <1>u, <1>v, <2>1, <2>2, <2>3, <2>4, NewLedger
<1>f. CASE Return(r) /\ phase[r] = "extra" /\ parked[b] # "empty"
  \* The pool is full: the reader keeps its charge until it is dropped.
  <2>1. /\ held' = Give(held, 0) /\ on' = on /\ BooksCharged' = BooksCharged
        /\ ReadsCharged' = ReadsCharged /\ PoolsCharged' = PoolsCharged
    BY <1>0, <1>f, <1>b
    DEF Return, Park, DroppedByPark, BooksCharged, ReadsCharged, PoolsCharged, Open,
        Parsing, TypeOK, PoolStates
  <2>2. held' = held  BY <1>s, <2>1 DEF Give
  <2> QED  BY <2>1, <2>2, LedgerFrame
<1>7. CASE Return(r) /\ phase[r] = "first" /\ parked[b] = "extra"
  <2>1. /\ held' = Give(held, ReaderBytes[b])
        /\ on' = on /\ BooksCharged' = BooksCharged
        /\ ReadsCharged' = ReadsCharged
        /\ PoolsCharged' = PoolsCharged \ {b} /\ b \in PoolsCharged
    BY <1>0, <1>7, <1>b DEF Return, Park, DroppedByPark, BooksCharged, ReadsCharged,
                            PoolsCharged, Open, Parsing, TypeOK
  <2>2. /\ held' = Total(BooksCharged, Bytes) + Total(ReadsCharged, ReadCharge)
                    + Total(PoolsCharged \ {b}, ReaderBytes)
        /\ held' <= MaxBytes
    BY <1>c, <1>s, <1>w, <2>1 DEF Give
  <2>3. Charged(ReadsCharged, ReadCharge') = Charged(ReadsCharged, ReadCharge)
    BY <1>q, <2>1 DEF ReadsCharged
  <2> QED  BY <1>s, <1>w, <2>1, <2>2, <2>3, NewLedger
<1>8. CASE Return(r) /\ phase[r] = "first" /\ parked[b] # "extra"
  <2>1. parked[b] = "empty"
    BY <1>0, <1>8, <1>b DEF FreeReader, Borrows, TypeOK, PoolStates
  <2>2. /\ held' = Give(held, 0) /\ on' = on /\ BooksCharged' = BooksCharged
        /\ ReadsCharged' = ReadsCharged /\ PoolsCharged' = PoolsCharged
    BY <1>0, <1>8, <1>b, <2>1
    DEF Return, Park, DroppedByPark, BooksCharged, ReadsCharged, PoolsCharged, Open,
        Parsing, TypeOK
  <2>3. held' = held  BY <1>s, <2>2 DEF Give
  <2> QED  BY <2>2, <2>3, LedgerFrame
<1>9. CASE Leave(r)
  <2>1. /\ BooksCharged' = BooksCharged
        /\ ReadsCharged' = ReadsCharged /\ r \notin ReadsCharged
    BY <1>0, <1>9 DEF Leave, BooksCharged, ReadsCharged, Open, Parsing, TypeOK
  <2>2. \A q \in ReadsCharged : on'[q] = on[q]
    BY <1>0, <1>9, <2>1 DEF Leave, ReadsCharged, TypeOK
  <2>3. CASE parked' = parked /\ held' = held
    <3>1. PoolsCharged' = PoolsCharged  BY <2>3 DEF PoolsCharged
    <3> QED  BY <2>1, <2>2, <2>3, <3>1, LedgerFrame
  <2>4. CASE /\ ~(\E q \in Reads \ {r} : on[q] = b)
             /\ parked' = [parked EXCEPT ![b] = "empty"]
             /\ held' = Give(held, PoolCharge(b))
    \* The last RPC has given its reader back, so the first is parked.
    <3>1. parked[b] = "first"
      BY <1>0, <1>9, <1>b, <2>4 DEF Leave, FreeReader, Borrows
    <3>2. held' = held  BY <1>s, <2>4, <3>1 DEF PoolCharge, Give
    <3>3. PoolsCharged' = PoolsCharged  BY <1>0, <2>4, <3>1 DEF PoolsCharged, TypeOK
    <3> QED  BY <2>1, <2>2, <3>2, <3>3, LedgerFrame
  <2> QED  BY <1>9, <1>b, <2>3, <2>4 DEF Leave
<1> QED  BY <1>0, <1>1, <1>2, <1>3, <1>4, <1>5, <1>6, <1>f, <1>7, <1>8, <1>9, <1>b
         DEF TakeParked, Return, TypeOK, PoolStates

LEMMA LedgerStep ==
  ASSUME IInv, [Next]_vars
  PROVE  LedgerInv'
<1>1. ASSUME NEW r \in Reads, NEW b \in Books, Get(r, b)
      PROVE  LedgerInv'
  <2>1. /\ held' = held /\ BooksCharged' = BooksCharged
        /\ ReadsCharged' = ReadsCharged /\ PoolsCharged' = PoolsCharged
        /\ \A q \in ReadsCharged : on'[q] = on[q]
    BY <1>1 DEF IInv, Get, storeVars, BooksCharged, ReadsCharged, PoolsCharged, Open,
                Parsing, TypeOK
  <2> QED  BY <2>1, LedgerFrame
<1>2. CASE Tick \/ UNCHANGED vars
  <2>1. /\ held' = held /\ BooksCharged' = BooksCharged
        /\ ReadsCharged' = ReadsCharged /\ PoolsCharged' = PoolsCharged
        /\ on' = on
    BY <1>2 DEF Tick, vars, storeVars, rpcVars, BooksCharged, ReadsCharged,
                PoolsCharged, Open, Parsing
  <2> QED  BY <2>1, LedgerFrame
<1> QED  BY <1>1, <1>2, Sweeps, LedgerSweepStep, LedgerOpenStep, LedgerReadStep
         DEF Next, OpenNext, ReadNext

-----------------------------------------------------------------------------
(* The initial state. *)
LEMMA InitInv == Init => IInv
<1> USE BytesAssumption, LimitAssumption, ClockAssumption, NoBookAssumption
<1> SUFFICES ASSUME Init  PROVE IInv
  OBVIOUS
<1>1. TypeOK
  BY DEF Init, TypeOK, Stages, PoolStates, Phases
<1>2. OneReserver /\ HandleInv
  BY DEF Init, OneReserver, HandleInv, HandleOutlivesRead
<1>3. OneFreeReader
  BY DEF Init, OneFreeReader
<1>4. /\ Open = {} /\ Parsing = {} /\ BooksCharged = {} /\ ReadsCharged = {}
      /\ PoolsCharged = {}
  BY DEF Init, Open, Parsing, BooksCharged, ReadsCharged, PoolsCharged
<1>5. IsFiniteSet({}) /\ Cardinality({}) = 0  BY FS_EmptySet
<1>6. CapInv
  BY <1>4, <1>5 DEF Init, CapInv, CapHolds
<1>7. \A f : Charged({}, f) = {}  BY DEF Charged
<1>8. /\ Charged(BooksCharged, Bytes) = {}
      /\ Charged(ReadsCharged, ReadCharge) = {}
      /\ Charged(PoolsCharged, ReaderBytes) = {}
  BY <1>4, <1>7
<1>9. LedgerInv
  BY <1>5, <1>8 DEF Init, LedgerInv, LedgerExact, WithinBudget, Total
<1> QED  BY <1>1, <1>2, <1>3, <1>6, <1>9 DEF IInv

(* Every reachable state satisfies the inductive invariant. *)
THEOREM Invariance == Spec => []IInv
<1>1. IInv /\ [Next]_vars => IInv'
  BY TypeStep, ReserverStep, HandleStep, ReaderStep, CapStep, LedgerStep DEF IInv
<1> QED  BY InitInv, <1>1, PTL DEF Spec

(* The variables keep their types; in particular pending and held never    *)
(* go below zero, where usize and u64 would wrap.                          *)
THEOREM TypeCorrect == Spec => []TypeOK
BY Invariance, PTL DEF IInv

(* However opens fail, readers fail and workbooks close under their reads, *)
(* Budget::held is exactly what is charged.                                *)
THEOREM LedgerCorrect == Spec => []LedgerExact
<1>1. IInv => LedgerExact  BY DEF IInv, LedgerInv
<1> QED  BY Invariance, <1>1, PTL

(* max_store_bytes is never passed. *)
THEOREM BudgetCorrect == Spec => []WithinBudget
<1>1. IInv => WithinBudget  BY DEF IInv, LedgerInv
<1> QED  BY Invariance, <1>1, PTL

(* max_open_workbooks is never passed, and pending counts the opens that   *)
(* are parsing.                                                            *)
THEOREM CapCorrect == Spec => []CapHolds
<1>1. IInv => CapHolds  BY DEF IInv, CapInv
<1> QED  BY Invariance, <1>1, PTL

(* A live workbook has one uncharged reader, parked or borrowed once. *)
THEOREM FreeReaderCorrect == Spec => []OneFreeReader
<1>1. IInv => OneFreeReader  BY DEF IInv
<1> QED  BY Invariance, <1>1, PTL

(* No sweep takes a workbook from under an RPC. *)
THEOREM HandleCorrect == Spec => []HandleOutlivesRead
<1>1. IInv => HandleOutlivesRead  BY DEF IInv, HandleInv
<1> QED  BY Invariance, <1>1, PTL

-----------------------------------------------------------------------------
(***************************************************************************)
(* When an idle workbook is let go of, for every TTL and reaper period.    *)
(***************************************************************************)

(* A workbook's clock is at most one period ahead of the time it is out of *)
(* use: while it is in use every sweep sets it back, and it cannot run     *)
(* further than the reaper's.                                              *)
ClockNotFast(b) ==
    /\ InUse(b) => idle[b] <= since
    /\ idle[b] <= unused[b] + Period

(* Nor does it fall behind: the time out of use is what the clock shows,   *)
(* and once the TTL is over, what the reaper has waited since.             *)
ClockNotSlow(b) ==
    Ttl > 0 =>
        /\ InUse(b) => unused[b] = 0
        /\ IF idle[b] < Ttl THEN unused[b] <= idle[b] ELSE unused[b] <= Ttl + since - 1

Clocks == ReaperOn => \A b \in Open : ClockNotFast(b) /\ ClockNotSlow(b)
-----------------------------------------------------------------------------
LEMMA ClockTypes ==
  ASSUME TypeOK
  PROVE  /\ Ttl \in Nat /\ Period \in Nat \ {0} /\ since \in 0..Period
         /\ \A b \in Books : idle[b] \in 0..Ttl /\ unused[b] \in 0..(Ttl + Period)
BY ClockAssumption DEF TypeOK

(* Workbooks that stay open with their clocks, and come into no use. *)
LEMMA ClocksKept ==
  ASSUME Clocks, UNCHANGED since, Open' \subseteq Open,
         \A b \in Open' : /\ idle'[b] = idle[b] /\ unused'[b] = unused[b]
                          /\ InUse(b)' => InUse(b)
  PROVE  Clocks'
<1> SUFFICES ASSUME ReaperOn, NEW b \in Open'
             PROVE  ClockNotFast(b)' /\ ClockNotSlow(b)'
  BY DEF Clocks
<1>1. ClockNotFast(b) /\ ClockNotSlow(b)  BY DEF Clocks
<1>2. /\ idle'[b] = idle[b] /\ unused'[b] = unused[b] /\ since' = since
      /\ InUse(b)' => InUse(b)
  OBVIOUS
<1> QED  BY <1>1, <1>2 DEF ClockNotFast, ClockNotSlow

(* A workbook just used starts afresh. *)
LEMMA ClockSet ==
  ASSUME TypeOK, NEW b \in Books, idle'[b] = 0, unused'[b] = 0, since' \in 0..Period
  PROVE  ClockNotFast(b)' /\ ClockNotSlow(b)'
BY ClockTypes DEF ClockNotFast, ClockNotSlow

(* A sweep. *)
LEMMA SweepClocks ==
  ASSUME TypeOK, Clocks, idle' = SweptIdle, unused' = SweptUnused, UNCHANGED <<opener, on>>,
         \A b \in Books : st'[b] = "open" => b \in Open \ Expired,
         since' = since \/ since' = 0
  PROVE  Clocks'
<1> SUFFICES ASSUME ReaperOn, NEW b \in Open'
             PROVE  ClockNotFast(b)' /\ ClockNotSlow(b)'
  BY DEF Clocks
<1>1. b \in Open /\ b \notin Expired /\ b \in Books  BY DEF Open
<1>2. ClockNotFast(b) /\ ClockNotSlow(b)  BY <1>1 DEF Clocks
<1>3. InUse(b)' <=> InUse(b)  BY DEF InUse
<1>4. /\ unused'[b] = unused[b]
      /\ idle'[b] = IF Ttl > 0 /\ InUse(b) THEN 0 ELSE idle[b]
  BY <1>1 DEF SweptIdle, SweptUnused
<1>5. /\ Ttl \in Nat /\ Period \in Nat \ {0} /\ since \in 0..Period
      /\ idle[b] \in 0..Ttl /\ unused[b] \in 0..(Ttl + Period)
  BY <1>1, ClockTypes
<1>6. CASE Ttl > 0 /\ InUse(b)
  BY <1>2, <1>3, <1>4, <1>5, <1>6 DEF ClockNotFast, ClockNotSlow
<1>7. CASE Ttl > 0 /\ ~InUse(b)
  <2>1. idle[b] < Ttl  BY <1>1, <1>5, <1>7 DEF Expired
  <2> QED  BY <1>2, <1>3, <1>4, <1>5, <1>7, <2>1 DEF ClockNotFast, ClockNotSlow
<1>8. CASE Ttl = 0
  BY <1>2, <1>3, <1>4, <1>5, <1>8 DEF ClockNotFast, ClockNotSlow
<1> QED  BY <1>5, <1>6, <1>7, <1>8

LEMMA TickClocks ==
  ASSUME TypeOK, Clocks, Tick
  PROVE  Clocks'
<1> SUFFICES ASSUME ReaperOn, NEW b \in Open'
             PROVE  ClockNotFast(b)' /\ ClockNotSlow(b)'
  BY DEF Clocks
<1>1. b \in Open /\ b \in Books /\ (InUse(b)' <=> InUse(b))
  BY DEF Open, InUse, Tick, storeVars, rpcVars
<1>2. ClockNotFast(b) /\ ClockNotSlow(b)  BY <1>1 DEF Clocks
<1>3. /\ Ttl \in Nat /\ Period \in Nat \ {0} /\ since \in 0..Period
      /\ idle[b] \in 0..Ttl /\ unused[b] \in 0..(Ttl + Period)
  BY <1>1, ClockTypes
<1>4. /\ since' = since + 1 /\ since < Period
      /\ idle'[b] = Least(idle[b] + 1, Ttl)
      /\ unused'[b] = IF InUse(b) THEN unused[b] ELSE Least(unused[b] + 1, Ttl + Period)
  BY <1>1 DEF Tick
<1>5. ClockNotFast(b)'  BY <1>1, <1>2, <1>3, <1>4 DEF ClockNotFast, Least
<1>6. ClockNotSlow(b)'  BY <1>1, <1>2, <1>3, <1>4 DEF ClockNotSlow, Least
<1> QED  BY <1>5, <1>6

LEMMA ClockStep == TypeOK /\ Clocks /\ [Next]_vars => Clocks'
<1> SUFFICES ASSUME TypeOK, Clocks, [Next]_vars  PROVE Clocks'
  OBVIOUS
<1>0. st \in [Books -> Stages] /\ idle \in [Books -> 0..Ttl]
      /\ unused \in [Books -> 0..(Ttl + Period)] /\ since \in 0..Period
      /\ on \in [Reads -> Books \cup {NoBook}]
  BY DEF TypeOK
<1>1. ASSUME NEW b \in Books, ReserveRefused(b)  PROVE Clocks'
  <2>1. \A x \in Books : st'[x] = "open" => x \in Open \ Expired
    BY <1>1 DEF ReserveRefused, Sweep, SweptSt, Open
  <2> QED  BY <1>1, <2>1, SweepClocks DEF ReserveRefused, Sweep
<1>2. ASSUME NEW b \in Books, AskSweeps(b) \/ ReserveChecked(b)  PROVE Clocks'
  <2>1. \A x \in Books : st'[x] = "open" => x \in Open \ Expired
    BY <1>2 DEF AskSweeps, ReserveChecked, SweptSt, Open
  <2> QED  BY <1>2, <2>1, SweepClocks DEF AskSweeps, ReserveChecked
<1>3. CASE Reap
  <2>1. \A x \in Books : st'[x] = "open" => x \in Open \ Expired
    BY <1>3 DEF Reap, Sweep, SweptSt, Open
  <2> QED  BY <1>3, <2>1, SweepClocks DEF Reap, Sweep, rpcVars
<1>4. CASE Tick  BY <1>4, TickClocks
<1>5. ASSUME NEW b \in Books, Register(b)  PROVE Clocks'
  <2>1. /\ st' = [st EXCEPT ![b] = "open"] /\ idle' = [idle EXCEPT ![b] = 0]
        /\ unused' = [unused EXCEPT ![b] = 0] /\ since' = since
        /\ opener' = opener \cup {b} /\ on' = on
    BY <1>5 DEF Register, rpcVars
  <2>2. ClockNotFast(b)' /\ ClockNotSlow(b)'  BY <1>0, <2>1, ClockSet
  <2>3. ASSUME ReaperOn, NEW x \in Open', x # b  PROVE ClockNotFast(x)' /\ ClockNotSlow(x)'
    <3>1. x \in Open /\ x \in Books  BY <1>0, <2>1, <2>3 DEF Open
    <3>2. ClockNotFast(x) /\ ClockNotSlow(x)  BY <2>3, <3>1 DEF Clocks
    <3>3. /\ idle'[x] = idle[x] /\ unused'[x] = unused[x]
          /\ InUse(x)' => InUse(x)
      BY <1>0, <2>1, <2>3, <3>1 DEF InUse
    <3> QED  BY <2>1, <3>2, <3>3 DEF ClockNotFast, ClockNotSlow
  <2> QED  BY <2>2, <2>3 DEF Clocks
<1>6. ASSUME NEW r \in Reads, NEW b \in Books, Get(r, b)  PROVE Clocks'
  <2>1. /\ st' = st /\ idle' = [idle EXCEPT ![b] = 0]
        /\ unused' = [unused EXCEPT ![b] = 0] /\ since' = since
        /\ opener' = opener /\ on' = [on EXCEPT ![r] = b]
    BY <1>6 DEF Get, storeVars
  <2>2. ClockNotFast(b)' /\ ClockNotSlow(b)'  BY <1>0, <2>1, ClockSet
  <2>3. ASSUME ReaperOn, NEW x \in Open', x # b  PROVE ClockNotFast(x)' /\ ClockNotSlow(x)'
    <3>1. x \in Open /\ x \in Books  BY <2>1 DEF Open
    <3>2. ClockNotFast(x) /\ ClockNotSlow(x)  BY <2>3, <3>1 DEF Clocks
    <3>3. InUse(x)' => InUse(x)  BY <1>0, <2>1, <2>3 DEF InUse
    <3>4. idle'[x] = idle[x] /\ unused'[x] = unused[x]  BY <1>0, <2>1, <2>3, <3>1
    <3> QED  BY <2>1, <3>2, <3>3, <3>4 DEF ClockNotFast, ClockNotSlow
  <2> QED  BY <2>2, <2>3 DEF Clocks
<1>7. ASSUME NEW b \in Books,
             \/ AskRoom(b) \/ ReserveTake(b) \/ ReserveBeaten(b)
             \/ ParseFails(b) \/ LeaveOpen(b)
      PROVE  Clocks'
  <2>1. /\ UNCHANGED clockVars /\ on' = on /\ opener' \subseteq opener
        /\ \/ st' = st
           \/ \E stage \in {"asked", "parsing", "absent"} : st' = [st EXCEPT ![b] = stage]
    BY <1>7 DEF AskRoom, ReserveTake, ReserveBeaten, ParseFails, LeaveOpen, rpcVars
  <2>2. Open' \subseteq Open  BY <1>0, <2>1 DEF Open
  <2> QED  BY <2>1, <2>2, ClocksKept DEF clockVars, InUse
<1>8. ASSUME NEW b \in Books, Close(b)  PROVE Clocks'
  <2>1. /\ st' \in {[st EXCEPT ![b] = "closed"], [st EXCEPT ![b] = "absent"]}
        /\ idle' = [idle EXCEPT ![b] = 0] /\ unused' = [unused EXCEPT ![b] = 0]
        /\ UNCHANGED <<opener, since, on>>
    BY <1>8 DEF Close, rpcVars
  <2>2. Open' \subseteq Open \ {b}  BY <1>0, <2>1 DEF Open
  <2>3. \A x \in Open' : /\ idle'[x] = idle[x] /\ unused'[x] = unused[x]
                         /\ InUse(x)' => InUse(x)
    BY <1>0, <2>1, <2>2 DEF InUse, Open
  <2> QED  BY <2>1, <2>2, <2>3, ClocksKept
<1>9. ASSUME NEW r \in Reads,
             \/ TakeParked(r) \/ MissReader(r) \/ ChargeReader(r) \/ RefuseReader(r)
             \/ OpenReader(r) \/ OpenReaderFails(r) \/ Return(r) \/ DropReader(r)
      PROVE  Clocks'
  <2>1. UNCHANGED clockVars /\ on' = on /\ opener' = opener /\ st' = st
    BY <1>9 DEF TakeParked, MissReader, ChargeReader, RefuseReader, OpenReader,
                OpenReaderFails, Return, DropReader, storeVars
  <2> QED  BY <2>1, ClocksKept DEF clockVars, InUse, Open
<1>10. ASSUME NEW r \in Reads, Leave(r)  PROVE Clocks'
  <2>1. /\ UNCHANGED clockVars /\ opener' = opener /\ on' = [on EXCEPT ![r] = NoBook]
        /\ st' = st \/ st' = [st EXCEPT ![on[r]] = "absent"]
    BY <1>10 DEF Leave
  <2>2. Open' \subseteq Open  BY <1>0, <2>1 DEF Open
  <2>3. \A x \in Open' : InUse(x)' => InUse(x)
    BY <1>0, <2>1, NoBookAssumption DEF InUse, Open
  <2> QED  BY <2>1, <2>2, <2>3, ClocksKept DEF clockVars
<1>11. CASE UNCHANGED vars
  BY <1>11, ClocksKept DEF vars, storeVars, rpcVars, clockVars, InUse, Open
<1> QED
  BY <1>1, <1>2, <1>3, <1>4, <1>5, <1>6, <1>7, <1>8, <1>9, <1>10, <1>11
  DEF Next, OpenNext, ReadNext
-----------------------------------------------------------------------------
(* The clock of an open workbook stays within one reaper period of the     *)
(* time it is out of use, whoever sweeps and whatever it was used for.     *)
THEOREM ClockInvariance == Spec => []Clocks
<1>1. Init => Clocks  BY DEF Init, Clocks, Open
<1>2. IInv => TypeOK  BY DEF IInv
<1> QED  BY <1>1, <1>2, ClockStep, Invariance, PTL DEF Spec

(* The reaper takes an idle workbook neither a period before its TTL nor a *)
(* period after it (WorkbookStore::sweep, touch, spawn_reaper).            *)
THEOREM ExpiryCorrect == Spec => []GoesNearTtl
<1>1. TypeOK /\ Clocks => GoesNearTtl
  <2> SUFFICES ASSUME TypeOK, Clocks  PROVE GoesNearTtl
    OBVIOUS
  <2>1. ASSUME ReaperOn, NEW b \in Expired  PROVE unused[b] + Period >= Ttl
    <3>1. b \in Open /\ b \in Books /\ idle[b] >= Ttl  BY <2>1 DEF Expired, Open
    <3>2. ClockNotFast(b)  BY <2>1, <3>1 DEF Clocks
    <3> QED  BY <3>1, <3>2, ClockTypes DEF ClockNotFast
  <2>2. ASSUME ReaperOn, Ttl > 0, NEW b \in Open  PROVE unused[b] < Ttl + Period
    <3>1. b \in Books /\ ClockNotSlow(b)  BY <2>2 DEF Clocks, Open
    <3> QED  BY <2>2, <3>1, ClockTypes DEF ClockNotSlow
  <2> QED  BY <2>1, <2>2 DEF GoesNearTtl, KeptNearlyTtl, ReapedInTime
<1>2. IInv => TypeOK  BY DEF IInv
<1> QED  BY <1>1, <1>2, ClockInvariance, Invariance, PTL
=============================================================================
