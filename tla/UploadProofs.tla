---------------------------- MODULE UploadProofs ----------------------------
(***************************************************************************)
(* The safety of Upload for any number of uploads, slots and bytes: types, *)
(* the memory uploads commit, and the slots as a SlotPool.                 *)
(***************************************************************************)
EXTENDS Upload, TLAPS, FiniteSetTheorems

-----------------------------------------------------------------------------
(* Who is where: the permit of an upload covers it from its first frame to *)
(* the end of its parse, and nothing is held outside that time.            *)
UnderWay(u) == stage[u] \in {"options", "bytes", "parsing"}

PermitsCover ==
    /\ permits = {u \in Uploads : UnderWay(u)}
    /\ Cardinality(permits) <= Slots
    /\ \A u \in Uploads :
        /\ ~UnderWay(u) => buffered[u] = 0
        /\ Receiving(u) => call[u] = "waiting"
        /\ call[u] = "idle" => stage[u] = "none"
        /\ stage[u] = "none" => call[u] \in {"idle", "refused"}

IInv == TypeOK /\ PermitsCover

(* Only uploads hold permits, so they are finitely many. *)
LEMMA PermitsFinite ==
  ASSUME NEW S, S \subseteq Uploads
  PROVE  IsFiniteSet(S) /\ Cardinality(S) \in Nat
BY UploadAssumption, FS_Subset, FS_CardinalityType

(* A permit taken where there is room, or given back, keeps the count. *)
LEMMA CountAfter ==
  ASSUME NEW S, S \subseteq Uploads, NEW u \in Uploads, Cardinality(S) <= Slots
  PROVE  /\ Cardinality(S) < Slots => Cardinality(S \cup {u}) <= Slots
         /\ Cardinality(S \ {u}) <= Slots
         /\ u \notin S => Slots - Cardinality(S \cup {u}) = Slots - Cardinality(S) - 1
         /\ u \in S => Slots - Cardinality(S \ {u}) = Slots - Cardinality(S) + 1
<1>1. IsFiniteSet(S) /\ Cardinality(S) \in Nat  BY PermitsFinite
<1>2. Cardinality(S \cup {u}) = IF u \in S THEN Cardinality(S) ELSE Cardinality(S) + 1
  BY <1>1, FS_AddElement
<1>3. Cardinality(S \ {u}) = IF u \in S THEN Cardinality(S) - 1 ELSE Cardinality(S)
  BY <1>1, FS_RemoveElement
<1> QED  BY <1>1, <1>2, <1>3, UploadAssumption

-----------------------------------------------------------------------------
LEMMA InitHolds == Init => IInv
<1> SUFFICES ASSUME Init PROVE IInv
  OBVIOUS
<1>1. TypeOK  BY UploadAssumption DEF Init, TypeOK
<1>2. permits = {u \in Uploads : UnderWay(u)}  BY DEF Init, UnderWay
<1>3. Cardinality(permits) <= Slots
  BY FS_EmptySet, UploadAssumption DEF Init
<1> QED  BY <1>1, <1>2, <1>3 DEF Init, IInv, PermitsCover, UnderWay, Receiving

(* Whatever ends an upload gives its permit and its bytes back. *)
LEMMA DropKeeps ==
  ASSUME IInv, NEW u \in Uploads, UnderWay(u),
         NEW answer \in {"refused", "opened", "gone"}, Drop(u, answer)
  PROVE  IInv'
<1>1. TypeOK'  BY UploadAssumption DEF IInv, TypeOK, Drop
<1>2. permits' = {v \in Uploads : UnderWay(v)'}
  BY DEF IInv, TypeOK, PermitsCover, UnderWay, Drop
<1>3. Cardinality(permits') <= Slots
  BY CountAfter DEF IInv, TypeOK, PermitsCover, Drop
<1>4. \A v \in Uploads :
        /\ ~UnderWay(v)' => buffered'[v] = 0
        /\ Receiving(v)' => call'[v] = "waiting"
        /\ call'[v] = "idle" => stage'[v] = "none"
        /\ stage'[v] = "none" => call'[v] \in {"idle", "refused"}
  BY DEF IInv, TypeOK, PermitsCover, UnderWay, Receiving, Drop
<1> QED  BY <1>1, <1>2, <1>3, <1>4 DEF IInv, PermitsCover

LEMMA StepHolds == IInv /\ [Next]_vars => IInv'
<1> SUFFICES ASSUME IInv, [Next]_vars PROVE IInv'
  OBVIOUS
<1> USE UploadAssumption
<1>1. ASSUME NEW u \in Uploads, Admit(u) PROVE IInv'
  <2>1. TypeOK'  BY <1>1 DEF IInv, TypeOK, Admit, clocks
  <2>2. permits' = {v \in Uploads : UnderWay(v)'}
    BY <1>1 DEF IInv, TypeOK, PermitsCover, UnderWay, Admit
  <2>3. Cardinality(permits') <= Slots
    BY <1>1, CountAfter DEF IInv, TypeOK, PermitsCover, Admit
  <2> QED
    BY <1>1, <2>1, <2>2, <2>3 DEF IInv, TypeOK, PermitsCover, UnderWay, Receiving, Admit
<1>2. ASSUME NEW u \in Uploads, TurnAway(u) PROVE IInv'
  BY <1>2 DEF IInv, TypeOK, PermitsCover, UnderWay, Receiving, TurnAway, clocks
<1>3. ASSUME NEW u \in Uploads, Options(u) PROVE IInv'
  BY <1>3 DEF IInv, TypeOK, PermitsCover, UnderWay, Receiving, Options
<1>4. ASSUME NEW u \in Uploads, NEW n \in 0..MaxBytes, Chunk(u, n) PROVE IInv'
  <2>1. TypeOK'  BY <1>4 DEF IInv, TypeOK, Chunk, Takeable
  <2> QED
    BY <1>4, <2>1 DEF IInv, TypeOK, PermitsCover, UnderWay, Receiving, Chunk
<1>5. ASSUME NEW u \in Uploads, BadFrame(u) PROVE IInv'
  BY <1>5, DropKeeps DEF BadFrame, Receiving, UnderWay
<1>6. ASSUME NEW u \in Uploads, EndOfFile(u) PROVE IInv'
  <2>1. CASE buffered[u] = 0
    BY <1>6, <2>1, DropKeeps DEF EndOfFile, UnderWay
  <2>2. CASE buffered[u] # 0
    <3>1. TypeOK'  BY <1>6, <2>2 DEF IInv, TypeOK, EndOfFile
    <3> QED
      BY <1>6, <2>2, <3>1,
         ZenonT(60) DEF IInv, TypeOK, PermitsCover, UnderWay, Receiving, EndOfFile
  <2> QED  BY <2>1, <2>2
<1>7. ASSUME NEW u \in Uploads, Timers(u) PROVE IInv'
  BY <1>7, DropKeeps DEF Timers, StallOver, DeadlineOver, Receiving, UnderWay
<1>8. ASSUME NEW u \in Uploads, Parse(u) PROVE IInv'
  <2>1. PICK answer \in {"opened", "refused"} : ParseEnds(u, answer)
    BY <1>8 DEF Parse
  <2>2. call[u] \in {"waiting", "refused", "opened", "gone"}
    BY <2>1 DEF IInv, TypeOK, PermitsCover, ParseEnds
  <2>3. CASE call[u] = "waiting"  BY <2>1, <2>3, DropKeeps DEF ParseEnds, UnderWay
  <2>4. CASE call[u] # "waiting"
    BY <2>1, <2>2, <2>4, DropKeeps DEF ParseEnds, UnderWay
  <2> QED  BY <2>3, <2>4
<1>9. ASSUME NEW u \in Uploads, Leave(u) PROVE IInv'
  <2>1. CASE Receiving(u)  BY <1>9, <2>1, DropKeeps DEF Leave, Receiving, UnderWay
  <2>2. CASE ~Receiving(u)
    BY <1>9, <2>2 DEF IInv, TypeOK, PermitsCover, UnderWay, Receiving, Leave, clocks
  <2> QED  BY <2>1, <2>2
<1>10. ASSUME Tick PROVE IInv'
  <2>1. \A u \in Uploads : Receiving(u) =>
          quiet[u] < Stall /\ (deadline # 0 => age[u] < deadline)
    BY <1>10 DEF Tick, Due, IInv, TypeOK
  <2>2. TypeOK'  BY <1>10, <2>1 DEF IInv, TypeOK, Tick
  <2> QED  BY <1>10, <2>2 DEF IInv, PermitsCover, UnderWay, Receiving, Tick
<1>11. CASE UNCHANGED vars
  BY <1>11 DEF vars, clocks, IInv, TypeOK, PermitsCover, UnderWay, Receiving
<1> QED
  BY <1>1, <1>2, <1>3, <1>4, <1>5, <1>6, <1>7, <1>8, <1>9, <1>10, <1>11 DEF Next, Sends

(* The inductive invariant: with the types, a permit for exactly what is   *)
(* under way (OpenWorkbook's handler, then its parse), within the slots.   *)
THEOREM Invariance == Spec => []IInv
BY InitHolds, StepHolds, PTL DEF Spec

(* The state of an upload keeps its type, its two clocks never pass their  *)
(* limits (timers of receive_upload and next_frame).                       *)
THEOREM TypeCorrect == Spec => []TypeOK
<1>1. IInv => TypeOK  BY DEF IInv
<1> QED  BY <1>1, Invariance, PTL

-----------------------------------------------------------------------------
(* The bytes of all uploads, those whose client left a running parse       *)
(* included, fit the slots times the limit of one (receive_upload).        *)
THEOREM BufferCorrect == Spec => []BufferBounded
<1>1. IInv => BufferBounded
  <2> SUFFICES ASSUME IInv PROVE BufferBounded
    OBVIOUS
  <2> DEFINE Held == {b \in Uploads \X (1..MaxBytes) : b[2] <= buffered[b[1]]}
             Room == permits \X (1..MaxBytes)
  <2>1. Held \subseteq Room
    BY UploadAssumption DEF IInv, TypeOK, PermitsCover
  <2>2. IsFiniteSet(permits) /\ Cardinality(permits) \in Nat
    BY PermitsFinite DEF IInv, TypeOK
  <2>3. IsFiniteSet(1..MaxBytes) /\ Cardinality(1..MaxBytes) = MaxBytes
    BY UploadAssumption, FS_Interval
  <2>4. IsFiniteSet(Room) /\ Cardinality(Room) = Cardinality(permits) * MaxBytes
    BY <2>2, <2>3, FS_Product
  <2>5. Cardinality(Held) <= Cardinality(Room)
    BY <2>1, <2>4, FS_Subset
  <2>6. Cardinality(Held) \in Nat
    BY <2>1, <2>4, FS_Subset, FS_CardinalityType
  <2>7. Cardinality(permits) * MaxBytes <= Slots * MaxBytes
    BY <2>2, UploadAssumption DEF IInv, PermitsCover
  <2>9. Cardinality(Held) <= Slots * MaxBytes
    BY <2>2, <2>4, <2>5, <2>6, <2>7, UploadAssumption
  <2> QED  BY <2>9 DEF BufferBounded
<1> QED  BY <1>1, Invariance, PTL

-----------------------------------------------------------------------------
(* A step that touches neither permits, nor parses, nor who was turned     *)
(* away, is none of the pool's.                                            *)
Parses == {u \in Uploads : stage[u] = "parsing"}
TurnedAwayUploads == {u \in Uploads : call[u] = "refused" /\ stage[u] = "none"}

LEMMA DropExits ==
  ASSUME IInv, NEW u \in Uploads, UnderWay(u), NEW answer, Drop(u, answer)
  PROVE  Pool!PoolNext
<1>1. permits' = permits \ {u} /\ u \in permits
  BY DEF Drop, IInv, PermitsCover
<1>4. Slots - Cardinality(permits') = Slots - Cardinality(permits) + 1
  BY <1>1, CountAfter DEF IInv, TypeOK, PermitsCover
<1>2. Parses' = Parses \ {u}  BY DEF Parses, Drop, IInv, TypeOK
<1>3. TurnedAwayUploads' = TurnedAwayUploads
  BY DEF TurnedAwayUploads, Drop, UnderWay, IInv, TypeOK
<1> QED
  BY <1>1, <1>2, <1>3, <1>4, Zenon DEF Parses, TurnedAwayUploads, Pool!PoolNext, Pool!Exit

LEMMA PoolStutters ==
  ASSUME permits' = permits, Parses' = Parses, TurnedAwayUploads' = TurnedAwayUploads
  PROVE  [Pool!PoolNext]_Pool!poolVars
BY DEF Parses, TurnedAwayUploads, Pool!poolVars

LEMMA PoolStep == IInv /\ [Next]_vars => [Pool!PoolNext]_Pool!poolVars
<1> SUFFICES ASSUME IInv, [Next]_vars PROVE [Pool!PoolNext]_Pool!poolVars
  OBVIOUS
<1>1. ASSUME NEW u \in Uploads, Admit(u) PROVE Pool!PoolNext
  <2>1. Parses' = Parses  BY <1>1 DEF Parses, Admit, IInv, TypeOK, PermitsCover
  <2>2. TurnedAwayUploads' = TurnedAwayUploads
    BY <1>1 DEF TurnedAwayUploads, Admit, IInv, TypeOK
  <2>3. u \notin permits \cup TurnedAwayUploads
    BY <1>1 DEF TurnedAwayUploads, Admit, IInv, TypeOK, PermitsCover, UnderWay
  <2>4. Cardinality(permits) < Slots /\ permits' = permits \cup {u}
    BY <1>1 DEF Admit
  <2>5. Slots - Cardinality(permits) > 0
    BY <2>4, PermitsFinite, UploadAssumption DEF IInv, TypeOK
  <2>6. Slots - Cardinality(permits') = Slots - Cardinality(permits) - 1
    BY <2>3, <2>4, CountAfter DEF IInv, TypeOK, PermitsCover
  <2> QED
    BY <2>1, <2>2, <2>3, <2>4, <2>5, <2>6, Zenon
    DEF Parses, TurnedAwayUploads, Pool!PoolNext, Pool!Enter
<1>2. ASSUME NEW u \in Uploads, TurnAway(u) PROVE Pool!PoolNext
  <2>1. Parses' = Parses  BY <1>2 DEF Parses, TurnAway
  <2>2. TurnedAwayUploads' = TurnedAwayUploads \cup {u}
    BY <1>2 DEF TurnedAwayUploads, TurnAway, IInv, TypeOK, PermitsCover
  <2>3. u \notin permits \cup TurnedAwayUploads
    BY <1>2 DEF TurnedAwayUploads, TurnAway, IInv, TypeOK, PermitsCover, UnderWay
  <2>4. permits' = permits
    BY <1>2 DEF TurnAway
  <2>5. Slots - Cardinality(permits) = 0
    BY <1>2, PermitsFinite, UploadAssumption DEF TurnAway, IInv, TypeOK, PermitsCover
  <2> QED
    BY <2>1, <2>2, <2>3, <2>4, <2>5, Zenon
    DEF Parses, TurnedAwayUploads, Pool!PoolNext, Pool!TurnedAway
<1>3. ASSUME NEW u \in Uploads, Options(u) \/ (\E n \in 0..MaxBytes : Chunk(u, n))
      PROVE  [Pool!PoolNext]_Pool!poolVars
  <2>1. permits' = permits /\ Parses' = Parses /\ TurnedAwayUploads' = TurnedAwayUploads
    BY <1>3 DEF Options, Chunk, Parses, TurnedAwayUploads, IInv, TypeOK
  <2> QED  BY <2>1, PoolStutters
<1>4. ASSUME NEW u \in Uploads, BadFrame(u) \/ Timers(u) PROVE Pool!PoolNext
  BY <1>4, DropExits DEF BadFrame, Timers, StallOver, DeadlineOver, Receiving, UnderWay
<1>5. ASSUME NEW u \in Uploads, EndOfFile(u) PROVE Pool!PoolNext
  <2>1. CASE buffered[u] = 0
    BY <1>5, <2>1, DropExits DEF EndOfFile, UnderWay
  <2>2. CASE buffered[u] # 0
    <3>1. permits' = permits /\ u \in permits \ Parses
      BY <1>5, <2>2 DEF EndOfFile, Parses, IInv, PermitsCover, UnderWay
    <3>2. Parses' = Parses \cup {u}
      BY <1>5, <2>2 DEF EndOfFile, Parses, IInv, TypeOK
    <3>3. TurnedAwayUploads' = TurnedAwayUploads
      BY <1>5, <2>2 DEF EndOfFile, TurnedAwayUploads, IInv, TypeOK
    <3> QED
      BY <3>1, <3>2, <3>3, Zenon DEF Parses, TurnedAwayUploads, Pool!PoolNext, Pool!TakeUp
  <2> QED  BY <2>1, <2>2
<1>6. ASSUME NEW u \in Uploads, Parse(u) PROVE Pool!PoolNext
  BY <1>6, DropExits DEF Parse, ParseEnds, UnderWay
<1>7. ASSUME NEW u \in Uploads, Leave(u) PROVE [Pool!PoolNext]_Pool!poolVars
  <2>1. CASE Receiving(u)  BY <1>7, <2>1, DropExits DEF Leave, Receiving, UnderWay
  <2>2. CASE ~Receiving(u)
    <3>1. permits' = permits /\ Parses' = Parses  BY <1>7, <2>2 DEF Leave, Parses
    <3>2. TurnedAwayUploads' = TurnedAwayUploads
      BY <1>7, <2>2 DEF Leave, TurnedAwayUploads, IInv, TypeOK, PermitsCover
    <3> QED  BY <3>1, <3>2, PoolStutters
  <2> QED  BY <2>1, <2>2
<1>8. ASSUME Tick \/ UNCHANGED vars PROVE [Pool!PoolNext]_Pool!poolVars
  <2>1. permits' = permits /\ Parses' = Parses /\ TurnedAwayUploads' = TurnedAwayUploads
    BY <1>8 DEF Tick, vars, Parses, TurnedAwayUploads
  <2> QED  BY <2>1, PoolStutters
<1> QED
  BY <1>1, <1>2, <1>3, <1>4, <1>5, <1>6, <1>7, <1>8 DEF Next, Sends

LEMMA PoolStart == Init => Pool!PoolInit
BY FS_EmptySet, UploadAssumption DEF Init, Pool!PoolInit

(* upload_slots implements a SlotPool whose work is a parse: no parse runs *)
(* without the permit of its upload, though the client and the handler are *)
(* gone (the permit spawn_blocking's closure takes along).                 *)
THEOREM PoolCorrect == Spec => IsSlotPool
<1>1. Spec => Pool!PoolInit /\ [][Pool!PoolNext]_Pool!poolVars
  BY PoolStart, PoolStep, Invariance, PTL DEF Spec
<1> QED  BY <1>1 DEF IsSlotPool, Pool!PoolSpec
=============================================================================
