------------------------------ MODULE SlotPool ------------------------------
(***************************************************************************)
(* What admission control promises of a semaphore whose permits the work   *)
(* they are for keeps (stream_slots and upload_slots of CalamineGrpc,      *)
(* src/service.rs): a user is refused only while no place is free, whoever *)
(* is inside holds one of the Places until it leaves, and work is only     *)
(* ever done inside.                                                       *)
(***************************************************************************)
EXTENDS Naturals

CONSTANTS Users, Places

VARIABLES
    free,           \* the permits available
    inside,         \* the users that hold a permit
    working,        \* the users whose permit covers work under way
    refused         \* the users turned away

poolVars == <<free, inside, working, refused>>

PoolInit == free = Places /\ inside = {} /\ working = {} /\ refused = {}

Enter(u) ==
    /\ u \notin inside \cup refused
    /\ free > 0
    /\ free' = free - 1
    /\ inside' = inside \cup {u}
    /\ UNCHANGED <<working, refused>>

TurnedAway(u) ==
    /\ u \notin inside \cup refused
    /\ free = 0
    /\ refused' = refused \cup {u}
    /\ UNCHANGED <<free, inside, working>>

TakeUp(u) ==
    /\ u \in inside \ working
    /\ working' = working \cup {u}
    /\ UNCHANGED <<free, inside, refused>>

PutDown(u) ==
    /\ u \in working
    /\ working' = working \ {u}
    /\ UNCHANGED <<free, inside, refused>>

(* A user that leaves has nothing under way any more. *)
Exit(u) ==
    /\ u \in inside
    /\ free' = free + 1
    /\ inside' = inside \ {u}
    /\ working' = working \ {u}
    /\ UNCHANGED refused

PoolNext == \E u \in Users :
    Enter(u) \/ TurnedAway(u) \/ TakeUp(u) \/ PutDown(u) \/ Exit(u)

PoolSpec == PoolInit /\ [][PoolNext]_poolVars
=============================================================================
