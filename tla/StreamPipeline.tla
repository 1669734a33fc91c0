--------------------------- MODULE StreamPipeline ---------------------------
(***************************************************************************)
(* How one streaming RPC runs (src/service.rs): admit takes a slot,        *)
(* spawn_blocking_stream puts the body on a thread of the blocking pool    *)
(* and a supervisor beside it, a bounded channel carries the events to the *)
(* client.  A client that stops reading makes the body give up after       *)
(* CONSUMER_STALL, a body may panic, a client may leave; the supervisor    *)
(* turns what the body came to into the status of the stream.              *)
(*                                                                         *)
(* A body stands for any of the four streams: it may refuse before its     *)
(* first event, send up to Events of them, or end with an in-band terminal *)
(* error.  STALL_REASON lives in the thread and threads are reused, so the *)
(* threads are part of the state.  Time is not: a stall may end whenever   *)
(* the channel is full.                                                    *)
(***************************************************************************)
EXTENDS Integers, Sequences, FiniteSets

CONSTANTS
    Streams,        \* the streaming RPCs
    Threads,        \* the blocking pool
    Slots,          \* GRPC_CALAMINE_MAX_CONCURRENT_STREAMS
    Capacity,       \* STREAM_CHANNEL_CAPACITY
    Events,         \* the events of a whole stream
    NoThread

ASSUME PoolAssumption ==
    /\ IsFiniteSet(Streams) /\ IsFiniteSet(Threads) /\ NoThread \notin Threads
    /\ Slots \in Nat /\ Capacity \in Nat \ {0} /\ Events \in Nat

VARIABLES
    client,         \* what the caller has: its call, the stream, its end
    permits,        \* the streams that hold a permit of stream_slots
    body,           \* where the body of a stream is
    thread,         \* the thread it runs on
    made,           \* events the body has handed over
    wanted,         \* the kind of event a waiting body is sending
    channel,        \* the mpsc channel of a stream
    reason,         \* STALL_REASON of a thread: Some or None
    verdict,        \* what handle.await gives the supervisor
    supervisor,     \* where the supervisor of a stream is
    got,            \* history: what the client received
    stalled         \* history: the streams whose own send timed out

callVars == <<client, got>>
bodyVars == <<body, thread, made, wanted, reason, verdict, stalled>>
supVars  == <<permits, supervisor>>
vars == <<callVars, bodyVars, channel, supVars>>

Statuses == {"refused", "deadline", "internal"}
Ended == Statuses \cup {"ok", "gone"}
Message == [kind : {"event", "terminal"} \cup Statuses, n : 1..(Events + 1)]

Init ==
    /\ client = [s \in Streams |-> "idle"]
    /\ permits = {}
    /\ body = [s \in Streams |-> "none"]
    /\ thread = [s \in Streams |-> NoThread]
    /\ made = [s \in Streams |-> 0]
    /\ wanted = [s \in Streams |-> "event"]
    /\ channel = [s \in Streams |-> <<>>]
    /\ reason = [t \in Threads |-> FALSE]
    /\ verdict = [s \in Streams |-> "none"]
    /\ supervisor = [s \in Streams |-> "none"]
    /\ got = [s \in Streams |-> <<>>]
    /\ stalled = {}

Closed(s) == client[s] # "reading"          \* the receiver is dropped
Full(s) == Len(channel[s]) >= Capacity
Put(s, kind, n) == channel' = [channel EXCEPT ![s] = Append(@, [kind |-> kind, n |-> n])]

-----------------------------------------------------------------------------
(* admit and spawn_blocking_stream. *)
Admit(s) ==
    /\ client[s] = "idle"
    /\ Cardinality(permits) < Slots
    /\ permits' = permits \cup {s}
    /\ client' = [client EXCEPT ![s] = "reading"]
    /\ body' = [body EXCEPT ![s] = "spawned"]
    /\ supervisor' = [supervisor EXCEPT ![s] = "awaiting"]
    /\ UNCHANGED <<got, thread, made, wanted, reason, verdict, stalled, channel>>

TurnAway(s) ==
    /\ client[s] = "idle"
    /\ Cardinality(permits) >= Slots
    /\ client' = [client EXCEPT ![s] = "rejected"]
    /\ UNCHANGED <<got, bodyVars, channel, supVars>>

-----------------------------------------------------------------------------
(* The body, on a thread of the pool. *)
Idle(t) == \A s \in Streams : thread[s] # t

(* A thread may still hold the reason of a body that panicked. *)
FoundReason(t) == reason[t]
FreshReason(t) == FALSE

Start(s) == \E t \in Threads :
    /\ body[s] = "spawned"
    /\ Idle(t)
    /\ body' = [body EXCEPT ![s] = "running"]
    /\ thread' = [thread EXCEPT ![s] = t]
    /\ reason' = [reason EXCEPT ![t] = FreshReason(t)]
    /\ UNCHANGED <<callVars, made, wanted, verdict, stalled, channel, supVars>>

(* A body that refuses does so before its first event: blocking_send finds *)
(* an empty channel.                                                       *)
Refuse(s) ==
    /\ body[s] = "running" /\ made[s] = 0 /\ channel[s] = <<>>
    /\ body' = [body EXCEPT ![s] = "leaving"]
    /\ IF Closed(s) THEN UNCHANGED channel ELSE Put(s, "refused", 1)
    /\ UNCHANGED <<callVars, thread, made, wanted, reason, verdict, stalled, supVars>>

(* An event went out: after a terminal error the body has nothing to add. *)
HandedOver(s, kind) ==
    /\ Put(s, kind, made[s] + 1)
    /\ made' = [made EXCEPT ![s] = IF kind = "event" THEN @ + 1 ELSE @]
    /\ body' = [body EXCEPT ![s] = IF kind = "event" THEN "running" ELSE "leaving"]

(* send_event: try_send, and a bounded wait where the channel is full. *)
Send(s, kind) ==
    /\ body[s] = "running"
    /\ kind = "event" => made[s] < Events
    /\ \/ /\ Closed(s)
          /\ body' = [body EXCEPT ![s] = "leaving"]
          /\ UNCHANGED <<made, wanted, channel>>
       \/ /\ ~Closed(s) /\ ~Full(s)
          /\ HandedOver(s, kind)
          /\ UNCHANGED wanted
       \/ /\ ~Closed(s) /\ Full(s)
          /\ body' = [body EXCEPT ![s] = "waiting"]
          /\ wanted' = [wanted EXCEPT ![s] = kind]
          /\ UNCHANGED <<made, channel>>
    /\ UNCHANGED <<callVars, thread, reason, verdict, stalled, supVars>>

(* send_timeout ends well, or with the client gone. *)
SendResumes(s) ==
    /\ body[s] = "waiting"
    /\ \/ /\ Closed(s)
          /\ body' = [body EXCEPT ![s] = "leaving"]
          /\ UNCHANGED <<made, channel>>
       \/ /\ ~Closed(s) /\ ~Full(s)
          /\ HandedOver(s, wanted[s])
    /\ UNCHANGED <<callVars, thread, wanted, reason, verdict, stalled, supVars>>

(* send_timeout times out: the event is lost, the body gives up. *)
StallNever(s) == body[s] = "waiting" /\ FALSE /\ UNCHANGED vars
StallForgotten(s) ==
    /\ body[s] = "waiting" /\ ~Closed(s) /\ Full(s)
    /\ body' = [body EXCEPT ![s] = "leaving"]
    /\ stalled' = stalled \cup {s}
    /\ UNCHANGED <<callVars, thread, made, wanted, reason, verdict, channel, supVars>>
StallAndGoOn(s) ==
    /\ body[s] = "waiting" /\ ~Closed(s) /\ Full(s)
    /\ body' = [body EXCEPT ![s] = "running"]
    /\ made' = [made EXCEPT ![s] = IF @ < Events THEN @ + 1 ELSE @]
    /\ reason' = [reason EXCEPT ![thread[s]] = TRUE]
    /\ stalled' = stalled \cup {s}
    /\ UNCHANGED <<callVars, thread, wanted, verdict, channel, supVars>>
Stall(s) ==
    /\ body[s] = "waiting" /\ ~Closed(s) /\ Full(s)
    /\ body' = [body EXCEPT ![s] = "leaving"]
    /\ reason' = [reason EXCEPT ![thread[s]] = TRUE]
    /\ stalled' = stalled \cup {s}
    /\ UNCHANGED <<callVars, thread, made, wanted, verdict, channel, supVars>>

(* The body is done, its sender and its thread are given back. *)
Leaves(s, outcome) ==
    /\ body' = [body EXCEPT ![s] = "over"]
    /\ thread' = [thread EXCEPT ![s] = NoThread]
    /\ verdict' = [verdict EXCEPT ![s] = outcome]
    /\ UNCHANGED <<callVars, made, wanted, stalled, channel, supVars>>

(* The body returns and what STALL_REASON holds is taken. *)
Return(s) ==
    /\ body[s] = "leaving" \/ (body[s] = "running" /\ made[s] = Events)
    /\ Leaves(s, IF reason[thread[s]] THEN "deadline" ELSE "clean")
    /\ reason' = [reason EXCEPT ![thread[s]] = FALSE]

(* calamine, or what unwinds after it, panics: nothing takes the reason. *)
Panic(s) ==
    /\ body[s] \in {"running", "leaving"}
    /\ Leaves(s, "internal")
    /\ UNCHANGED reason

-----------------------------------------------------------------------------
(* The supervisor. *)
JoinedOrAbandoned(s) == body[s] = "over" \/ Closed(s)
Joined(s) == body[s] = "over"

Supervise(s) ==
    /\ supervisor[s] = "awaiting"
    /\ Joined(s)
    /\ supervisor' = [supervisor EXCEPT ![s] =
            IF verdict[s] = "clean" THEN "closing" ELSE "sending"]
    /\ UNCHANGED <<callVars, bodyVars, channel, permits>>

(* supervisor.send waits for room as long as the client stays. *)
DeliverIfStaying(s) ==
    /\ supervisor[s] = "sending"
    /\ ~Closed(s) /\ ~Full(s)
    /\ Put(s, verdict[s], 1)
    /\ supervisor' = [supervisor EXCEPT ![s] = "closing"]
    /\ UNCHANGED <<callVars, bodyVars, permits>>
Deliver(s) ==
    /\ supervisor[s] = "sending"
    /\ \/ Closed(s) /\ UNCHANGED channel
       \/ ~Closed(s) /\ ~Full(s) /\ Put(s, verdict[s], 1)
    /\ supervisor' = [supervisor EXCEPT ![s] = "closing"]
    /\ UNCHANGED <<callVars, bodyVars, permits>>

(* drop(permit) comes first, the supervisor's own sender goes with it. *)
DropPermitLast(s) ==
    /\ \/ /\ supervisor[s] = "closing"
          /\ supervisor' = [supervisor EXCEPT ![s] = "done"]
          /\ UNCHANGED permits
       \/ /\ supervisor[s] = "done"
          /\ permits' = permits \ {s}
          /\ UNCHANGED supervisor
    /\ UNCHANGED <<callVars, bodyVars, channel>>
DropPermit(s) ==
    /\ supervisor[s] = "closing"
    /\ permits' = permits \ {s}
    /\ supervisor' = [supervisor EXCEPT ![s] = "released"]
    /\ UNCHANGED <<callVars, bodyVars, channel>>

DropSender(s) ==
    /\ supervisor[s] = "released"
    /\ supervisor' = [supervisor EXCEPT ![s] = "done"]
    /\ UNCHANGED <<callVars, bodyVars, channel, permits>>

-----------------------------------------------------------------------------
(* The client, through the transport. *)
Read(s) ==
    /\ client[s] = "reading" /\ channel[s] # <<>>
    /\ LET message == Head(channel[s]) IN
       IF message.kind \in Statuses
       THEN /\ client' = [client EXCEPT ![s] = message.kind]
            /\ channel' = [channel EXCEPT ![s] = <<>>]
            /\ UNCHANGED got
       ELSE /\ got' = [got EXCEPT ![s] = Append(@, message)]
            /\ channel' = [channel EXCEPT ![s] = Tail(@)]
            /\ UNCHANGED client
    /\ UNCHANGED <<bodyVars, supVars>>

(* The channel is empty and all its senders are dropped. *)
SendersGone(s) == body[s] = "over" /\ supervisor[s] = "done"

SeeEnd(s) ==
    /\ client[s] = "reading" /\ channel[s] = <<>>
    /\ SendersGone(s)
    /\ client' = [client EXCEPT ![s] = "ok"]
    /\ UNCHANGED <<got, bodyVars, channel, supVars>>

Leave(s) ==
    /\ client[s] = "reading"
    /\ client' = [client EXCEPT ![s] = "gone"]
    /\ channel' = [channel EXCEPT ![s] = <<>>]
    /\ UNCHANGED <<got, bodyVars, supVars>>

-----------------------------------------------------------------------------
Arrive(s) == Admit(s) \/ TurnAway(s)
BodySteps(s) ==
    \/ Start(s) \/ Refuse(s)
    \/ \E kind \in {"event", "terminal"} : Send(s, kind)
    \/ SendResumes(s) \/ Stall(s) \/ Return(s)
SupervisorSteps(s) == Supervise(s) \/ Deliver(s) \/ DropPermit(s) \/ DropSender(s)
Receive(s) == Read(s) \/ SeeEnd(s)

Next == \E s \in Streams :
    \/ Arrive(s)
    \/ BodySteps(s) \/ Panic(s)
    \/ SupervisorSteps(s)
    \/ Receive(s) \/ Leave(s)

Spec == Init /\ [][Next]_vars
-----------------------------------------------------------------------------
TypeOK ==
    /\ client \in [Streams -> {"idle", "rejected", "reading"} \cup Ended]
    /\ permits \subseteq Streams
    /\ body \in [Streams -> {"none", "spawned", "running", "waiting", "leaving", "over"}]
    /\ thread \in [Streams -> Threads \cup {NoThread}]
    /\ made \in [Streams -> 0..Events]
    /\ wanted \in [Streams -> {"event", "terminal"}]
    /\ channel \in [Streams -> Seq(Message)]
    /\ reason \in [Threads -> BOOLEAN]
    /\ verdict \in [Streams -> {"none", "clean", "deadline", "internal"}]
    /\ supervisor \in [Streams ->
            {"none", "awaiting", "sending", "closing", "released", "done"}]
    /\ got \in [Streams -> Seq(Message)]
    /\ stalled \subseteq Streams

(* Whoever is told that it read nothing for too long is the one that did:  *)
(* STALL_REASON never reaches a later body of the same thread.             *)
OwnStall == \A s \in Streams : verdict[s] = "deadline" => s \in stalled

(* A client that sees its stream end with OK finds its slot free again:    *)
(* the permit is dropped before the last sender.  Not so one that gets a   *)
(* status: the supervisor sends that first, so a retry may still find all  *)
(* slots taken (SlotsComeBack is what holds of those).                     *)
SlotBackAtEnd == \A s \in Streams : client[s] = "ok" => s \notin permits

(* The slot of a client that has left, or has seen its stream end, comes   *)
(* back.  (The slot of one that stays without reading need not.)           *)
SlotsComeBack == \A s \in Streams : client[s] \in Ended ~> s \notin permits

(* "Terminal failures still use the gRPC status and end the stream"        *)
(* (StreamError, calamine_service.proto): no failed stream ends with OK.   *)
TerminalByStatus ==
    \A s \in Streams : client[s] = "ok" =>
        \A i \in DOMAIN got[s] : got[s][i].kind # "terminal"
-----------------------------------------------------------------------------
(* The events and ends a client sees are those of EventStreams. *)
Calls == INSTANCE EventStreams WITH
    Callers <- Streams, Length <- Events, caller <- client, seen <- got

(* Stalls, panics, refusals, departures and their races leave a client     *)
(* nothing but what EventStreams promises it: neither a panic nor a stall, *)
(* nor their races with the end of the body, pass for a short sheet.       *)
IsEventStream == Calls!StreamsSpec

(* stream_slots is a SlotPool whose work is a thread. *)
Pool == INSTANCE SlotPool WITH
    Users <- Streams, Places <- Slots,
    free <- Slots - Cardinality(permits), inside <- permits,
    working <- {s \in Streams : thread[s] # NoThread},
    refused <- {s \in Streams : client[s] = "rejected"}

(* Whatever becomes of the client, no thread of a stream runs without the  *)
(* permit that was taken for it.                                           *)
IsSlotPool == Pool!PoolSpec
=============================================================================
