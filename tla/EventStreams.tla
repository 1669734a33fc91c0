---------------------------- MODULE EventStreams ----------------------------
(***************************************************************************)
(* What a caller of a streaming RPC is promised (the doc comments of       *)
(* src/service.rs on stalls, panics and refusals): events in order and     *)
(* without a hole, nothing after a terminal error, a refusal only in place *)
(* of the whole stream, and an end with status OK only of a stream that is *)
(* whole or whose last event is the terminal error.                        *)
(***************************************************************************)
EXTENDS Naturals, Sequences

CONSTANTS
    Callers,        \* the streaming RPCs
    Length          \* the events of a whole stream

VARIABLES caller, seen

streamVars == <<caller, seen>>

StreamsInit ==
    /\ caller = [s \in Callers |-> "idle"]
    /\ seen = [s \in Callers |-> <<>>]

Becomes(s, from, to) ==
    /\ caller[s] = from
    /\ caller' = [caller EXCEPT ![s] = to]
    /\ UNCHANGED seen

Failed(s) == seen[s] # <<>> /\ seen[s][Len(seen[s])].kind = "terminal"

(* The next event, or the terminal error in its place. *)
Receives(s, kind) ==
    /\ caller[s] = "reading" /\ ~Failed(s)
    /\ kind = "event" => Len(seen[s]) < Length
    /\ seen' = [seen EXCEPT ![s] = Append(@, [kind |-> kind, n |-> Len(@) + 1])]
    /\ UNCHANGED caller

Ends(s) ==
    \/ (Len(seen[s]) = Length \/ Failed(s)) /\ Becomes(s, "reading", "ok")
    \/ seen[s] = <<>> /\ Becomes(s, "reading", "refused")
    \/ \E status \in {"deadline", "internal", "gone"} : Becomes(s, "reading", status)

StreamsNext == \E s \in Callers :
    \/ Becomes(s, "idle", "reading") \/ Becomes(s, "idle", "rejected")
    \/ \E kind \in {"event", "terminal"} : Receives(s, kind)
    \/ Ends(s)

StreamsSpec == StreamsInit /\ [][StreamsNext]_streamVars
=============================================================================
