------------------------------- MODULE Upload -------------------------------
(***************************************************************************)
(* OpenWorkbook up to the store (src/service.rs): admit_upload takes a     *)
(* slot before the first frame is read, receive_upload buffers the file,   *)
(* frame by frame, and the parse runs on the blocking pool with the slot   *)
(* in its keeping.  A client may send what it likes, say nothing, or       *)
(* leave at any point; leaving drops the handler with all it owns, but not *)
(* a parse that has begun.                                                 *)
(*                                                                         *)
(* What the store says (admits, open) is either answer: module             *)
(* WorkbookStore says which.  The clock of an upload counts the ticks      *)
(* since its last frame and since it began; a timer that is due fires      *)
(* before the next tick.                                                   *)
(***************************************************************************)
EXTENDS Integers, FiniteSets

CONSTANTS
    Uploads,        \* the OpenWorkbook calls
    Slots,          \* GRPC_CALAMINE_MAX_CONCURRENT_UPLOADS
    MaxBytes,       \* max_workbook_bytes
    Stall,          \* upload_stall
    Deadlines       \* the upload_deadline the server may be set to, 0 for none

ASSUME UploadAssumption ==
    /\ IsFiniteSet(Uploads)
    /\ Slots \in Nat /\ MaxBytes \in Nat
    /\ Stall \in Nat \ {0} /\ Deadlines \subseteq Nat

VARIABLES
    deadline,       \* upload_deadline of this server
    call,           \* what the caller has
    stage,          \* where the handler, or the parse it spawned, is
    permits,        \* uploads holding a permit of upload_slots
    buffered,       \* bytes of file each upload holds
    quiet,          \* ticks since the last frame
    age             \* ticks since the upload began, where there is a deadline

clocks == <<quiet, age>>
vars == <<deadline, call, stage, permits, buffered, clocks>>

Receiving(u) == stage[u] \in {"options", "bytes"}

Init ==
    /\ deadline \in Deadlines
    /\ call = [u \in Uploads |-> "idle"]
    /\ stage = [u \in Uploads |-> "none"]
    /\ permits = {}
    /\ buffered = [u \in Uploads |-> 0]
    /\ quiet = [u \in Uploads |-> 0]
    /\ age = [u \in Uploads |-> 0]

(* admit_upload. *)
Admit(u) ==
    /\ call[u] = "idle"
    /\ Cardinality(permits) < Slots
    /\ permits' = permits \cup {u}
    /\ call' = [call EXCEPT ![u] = "waiting"]
    /\ stage' = [stage EXCEPT ![u] = "options"]
    /\ UNCHANGED <<deadline, buffered, clocks>>

TurnAway(u) ==
    /\ call[u] = "idle"
    /\ Cardinality(permits) >= Slots
    /\ call' = [call EXCEPT ![u] = "refused"]
    /\ UNCHANGED <<deadline, stage, permits, buffered, clocks>>

-----------------------------------------------------------------------------
(* The handler, or the parse, is over: its permit and bytes go with it. *)
Drop(u, answer) ==
    /\ call' = [call EXCEPT ![u] = answer]
    /\ stage' = [stage EXCEPT ![u] = "over"]
    /\ permits' = permits \ {u}
    /\ buffered' = [buffered EXCEPT ![u] = 0]
    /\ quiet' = [quiet EXCEPT ![u] = 0]
    /\ age' = [age EXCEPT ![u] = 0]
    /\ UNCHANGED deadline

(* The first frame: options, with a format hint the server knows. *)
Options(u) ==
    /\ stage[u] = "options"
    /\ stage' = [stage EXCEPT ![u] = "bytes"]
    /\ quiet' = [quiet EXCEPT ![u] = 0]
    /\ UNCHANGED <<deadline, call, permits, buffered, age>>

TakeableOfAnySize(u, n) == buffered[u] + n <= MaxBytes
Takeable(u, n) == n > 0 /\ buffered[u] + n <= MaxBytes

(* A chunk of n bytes, within the limit and admitted by the store. *)
Chunk(u, n) ==
    /\ stage[u] = "bytes"
    /\ Takeable(u, n)
    /\ buffered' = [buffered EXCEPT ![u] = @ + n]
    /\ quiet' = [quiet EXCEPT ![u] = 0]
    /\ UNCHANGED <<deadline, call, stage, permits, age>>

(* A frame out of place, an unknown hint, an empty chunk, one past the     *)
(* limit or not admitted; or the transport fails.                          *)
BadFrame(u) == Receiving(u) /\ Drop(u, "refused")

(* The client is done sending. *)
EndOfFile(u) ==
    /\ stage[u] = "bytes"
    /\ IF buffered[u] = 0 THEN Drop(u, "refused")
       ELSE /\ stage' = [stage EXCEPT ![u] = "parsing"]
            /\ quiet' = [quiet EXCEPT ![u] = 0]
            /\ age' = [age EXCEPT ![u] = 0]
            /\ UNCHANGED <<deadline, call, permits, buffered>>

(* next_frame has waited for upload_stall. *)
StallOver(u) == Receiving(u) /\ quiet[u] >= Stall /\ Drop(u, "refused")

(* receive_upload as a whole has taken upload_deadline. *)
DeadlineOver(u) ==
    /\ deadline # 0
    /\ Receiving(u) /\ age[u] >= deadline
    /\ Drop(u, "refused")

Due(u) ==
    Receiving(u) /\ (quiet[u] >= Stall \/ (deadline # 0 /\ age[u] >= deadline))

Tick ==
    /\ \E u \in Uploads : Receiving(u)
    /\ \A u \in Uploads : ~Due(u)
    /\ quiet' = [u \in Uploads |-> IF Receiving(u) THEN quiet[u] + 1 ELSE quiet[u]]
    /\ age' = [u \in Uploads |->
            IF Receiving(u) /\ deadline # 0 THEN age[u] + 1 ELSE age[u]]
    /\ UNCHANGED <<deadline, call, stage, permits, buffered>>

-----------------------------------------------------------------------------
(* store.open returns, or panics: _permit goes either way, and there may   *)
(* be nobody left to answer.                                               *)
ParseEnds(u, answer) ==
    /\ stage[u] = "parsing"
    /\ Drop(u, IF call[u] = "waiting" THEN answer ELSE call[u])

(* The client cancels.  The handler is dropped, but not a parse that has   *)
(* begun: that keeps its permit.                                           *)
LeaveWithPermit(u) ==
    /\ call[u] = "waiting"
    /\ IF Receiving(u) THEN Drop(u, "gone")
       ELSE /\ call' = [call EXCEPT ![u] = "gone"]
            /\ permits' = permits \ {u}
            /\ UNCHANGED <<deadline, stage, buffered, clocks>>
Leave(u) ==
    /\ call[u] = "waiting"
    /\ IF Receiving(u) THEN Drop(u, "gone")
       ELSE /\ call' = [call EXCEPT ![u] = "gone"]
            /\ UNCHANGED <<deadline, stage, permits, buffered, clocks>>

Sends(u) ==
    Options(u) \/ (\E n \in 0..MaxBytes : Chunk(u, n)) \/ BadFrame(u) \/ EndOfFile(u)
Parse(u) == \E answer \in {"opened", "refused"} : ParseEnds(u, answer)
Timers(u) == StallOver(u) \/ DeadlineOver(u)

Next ==
    \/ \E u \in Uploads :
        Admit(u) \/ TurnAway(u) \/ Sends(u) \/ Timers(u) \/ Parse(u) \/ Leave(u)
    \/ Tick

Spec == Init /\ [][Next]_vars

(* Time passes, timers fire and parses end; of the client nothing. *)
FairSpec ==
    /\ Spec
    /\ WF_vars(Tick)
    /\ \A u \in Uploads : WF_vars(Timers(u)) /\ WF_vars(Parse(u))
-----------------------------------------------------------------------------
TypeOK ==
    /\ deadline \in Deadlines
    /\ call \in [Uploads -> {"idle", "waiting", "refused", "opened", "gone"}]
    /\ stage \in [Uploads -> {"none", "options", "bytes", "parsing", "over"}]
    /\ permits \subseteq Uploads
    /\ buffered \in [Uploads -> 0..MaxBytes]
    /\ quiet \in [Uploads -> 0..Stall]
    /\ age \in [Uploads -> 0..deadline]

(* The memory uploads commit is bounded by the two limits together, also   *)
(* while the clients of parses under way are gone.                         *)
BufferBounded ==
    Cardinality({b \in Uploads \X (1..MaxBytes) : b[2] <= buffered[b[1]]})
        <= Slots * MaxBytes

(* No client keeps a slot, also without a deadline: one that says nothing  *)
(* stalls, one that goes on sending meets the byte limit.                  *)
SlotsComeBack == \A u \in Uploads : u \in permits ~> u \notin permits

(* upload_slots is a SlotPool whose work is a parse. *)
Pool == INSTANCE SlotPool WITH
    Users <- Uploads, Places <- Slots,
    free <- Slots - Cardinality(permits), inside <- permits,
    working <- {u \in Uploads : stage[u] = "parsing"},
    refused <- {u \in Uploads : call[u] = "refused" /\ stage[u] = "none"}

(* No parse runs without the permit of its upload, also once the client    *)
(* is gone and its handler dropped.                                        *)
IsSlotPool == Pool!PoolSpec
=============================================================================
