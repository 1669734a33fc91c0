------------------------ MODULE StreamPipelineProofs ------------------------
(***************************************************************************)
(* The safety of StreamPipeline for any number of streams, threads, slots  *)
(* and events: types, STALL_REASON, the slots as a SlotPool, and what      *)
(* clients see as EventStreams.                                            *)
(***************************************************************************)
EXTENDS StreamPipeline, TLAPS, FiniteSetTheorems, SequenceTheorems

-----------------------------------------------------------------------------
(* How client, body, thread, supervisor and permit of a stream go along.   *)
OnThread(s) == body[s] \in {"running", "waiting", "leaving"}

WiredStream(s) ==
    /\ client[s] \in {"idle", "rejected"} <=> body[s] = "none"
    /\ body[s] = "none" <=> supervisor[s] = "none"
    /\ s \in permits <=> supervisor[s] \in {"awaiting", "sending", "closing"}
    /\ thread[s] # NoThread <=> OnThread(s)
    /\ supervisor[s] \notin {"none", "awaiting"} => body[s] = "over"
    /\ body[s] = "over" <=> verdict[s] # "none"
    /\ supervisor[s] = "sending" => verdict[s] \in {"deadline", "internal"}
    /\ client[s] = "ok" => supervisor[s] = "done"
    /\ body[s] = "waiting" /\ wanted[s] = "event" => made[s] < Events

Wired ==
    /\ Cardinality(permits) <= Slots
    /\ \A s \in Streams : WiredStream(s)
    /\ \A s, t \in Streams : thread[s] = thread[t] /\ thread[s] # NoThread => s = t

(* A thread holds a reason only for the body on it, once that has stalled, *)
(* or, after a panic, for nobody.                                          *)
ReasonsOwn ==
    \A s \in Streams :
        /\ OnThread(s) /\ reason[thread[s]] => s \in stalled /\ body[s] = "leaving"
        /\ verdict[s] = "deadline" => s \in stalled

-----------------------------------------------------------------------------
(* What a client has received, g, and what waits in its channel, c.        *)
FailedSeq(g) == g # <<>> /\ g[Len(g)].kind = "terminal"

(* The channel goes on where the client is; what is not an event is at its *)
(* end; a refusal is alone at the start.                                   *)
Shape(g, c) ==
    /\ \A j \in DOMAIN c :
        /\ c[j].kind \notin Statuses => c[j].n = Len(g) + j
        /\ c[j].kind = "event" => Len(g) + j <= Events
        /\ c[j].kind = "refused" => g = <<>> /\ j = 1
        /\ FailedSeq(g) => c[j].kind \in Statuses
    /\ \A j, k \in DOMAIN c : j < k /\ c[j].kind # "event" => c[k].kind \in Statuses

(* Only events so far, m of them. *)
Flowing(g, c, m) ==
    /\ Len(g) + Len(c) = m
    /\ \A j \in DOMAIN c : c[j].kind = "event"
    /\ ~FailedSeq(g)

(* Whoever reads on to the end of the channel knows how the stream ended. *)
Conclusive(g, c) ==
    \/ \E j \in DOMAIN c : c[j].kind # "event"
    \/ FailedSeq(g)
    \/ Len(g) + Len(c) = Events

FlowOf(s) ==
    /\ client[s] # "reading" => channel[s] = <<>>
    /\ client[s] \in {"idle", "rejected"} => got[s] = <<>> /\ made[s] = 0
    /\ client[s] = "reading" =>
        /\ Shape(got[s], channel[s])
        /\ body[s] \in {"spawned", "running", "waiting"}
            => Flowing(got[s], channel[s], made[s])
        /\ body[s] = "spawned" => made[s] = 0
        /\ body[s] = "leaving" /\ ~reason[thread[s]] => Conclusive(got[s], channel[s])
        /\ verdict[s] = "clean" => Conclusive(got[s], channel[s])
        /\ supervisor[s] \in {"closing", "released", "done"}
            => Conclusive(got[s], channel[s])

Flow == \A s \in Streams : FlowOf(s)

Control == TypeOK /\ Wired /\ ReasonsOwn
IInv == Control /\ Flow
-----------------------------------------------------------------------------
(* What the actions leave of a sequence of messages. *)
LEMMA PutTypes ==
  ASSUME TypeOK, NEW s \in Streams, NEW kind \in {"event", "terminal"} \cup Statuses,
         NEW n \in 1..(Events + 1), Put(s, kind, n)
  PROVE  channel' \in [Streams -> Seq(Message)]
<1>1. [kind |-> kind, n |-> n] \in Message  BY DEF Message
<1>2. Append(channel[s], [kind |-> kind, n |-> n]) \in Seq(Message)
  BY <1>1 DEF TypeOK
<1> QED  BY <1>2 DEF Put, TypeOK

LEMMA TypeStep == TypeOK /\ Wired /\ [Next]_vars => TypeOK'
<1> SUFFICES ASSUME TypeOK, Wired, [Next]_vars PROVE TypeOK'
  OBVIOUS
<1> USE PoolAssumption
<1>1. ASSUME NEW s \in Streams, Arrive(s) PROVE TypeOK'
  BY <1>1, ZenonT(60) DEF Arrive, Admit, TurnAway, TypeOK, bodyVars, supVars
<1>2. ASSUME NEW s \in Streams, Start(s) PROVE TypeOK'
  BY <1>2 DEF Start, FreshReason, TypeOK, callVars, supVars
<1>3. ASSUME NEW s \in Streams, Refuse(s) PROVE TypeOK'
  <2>1. channel' \in [Streams -> Seq(Message)]
    BY <1>3, PutTypes DEF Refuse, Statuses, TypeOK
  <2> QED  BY <1>3, <2>1 DEF Refuse, TypeOK, callVars, supVars
<1>4. ASSUME NEW s \in Streams, NEW kind \in {"event", "terminal"}, Send(s, kind)
      PROVE  TypeOK'
  <2>1. CASE Closed(s) \/ Full(s)
    <3>1. UNCHANGED <<made, channel>>  BY <1>4, <2>1 DEF Send
    <3> QED  BY <1>4, <2>1, <3>1,
                ZenonT(60) DEF Send, TypeOK, callVars, supVars
  <2>2. CASE ~Closed(s) /\ ~Full(s)
    <3>1. HandedOver(s, kind) /\ (kind = "event" => made[s] < Events)
      BY <1>4, <2>2 DEF Send
    <3>2. made[s] + 1 \in 1..(Events + 1)  BY DEF TypeOK
    <3>3. channel' \in [Streams -> Seq(Message)]
      BY <3>1, <3>2, PutTypes DEF HandedOver
    <3>4. /\ made' \in [Streams -> 0..Events]
          /\ body' = [body EXCEPT ![s] = IF kind = "event" THEN "running" ELSE "leaving"]
      BY <3>1 DEF HandedOver, TypeOK
    <3>5. UNCHANGED <<callVars, thread, wanted, reason, verdict, stalled, supVars>>
      BY <1>4, <2>2 DEF Send
    <3> QED  BY <3>3, <3>4, <3>5 DEF TypeOK, callVars, supVars
  <2> QED  BY <2>1, <2>2
<1>5. ASSUME NEW s \in Streams, SendResumes(s) PROVE TypeOK'
  <2>1. CASE Closed(s)
    BY <1>5, <2>1 DEF SendResumes, TypeOK, callVars, supVars
  <2>2. CASE ~Closed(s)
    <3>1. HandedOver(s, wanted[s])  BY <1>5, <2>2 DEF SendResumes
    <3>2. made[s] + 1 \in 1..(Events + 1) /\ wanted[s] \in {"event", "terminal"}
      BY DEF TypeOK
    <3>4. wanted[s] = "event" => made[s] < Events
      BY <1>5 DEF Wired, WiredStream, SendResumes
    <3>3. channel' \in [Streams -> Seq(Message)]
      BY <3>1, <3>2, PutTypes DEF HandedOver
    <3>5. /\ made' \in [Streams -> 0..Events]
          /\ body' = [body EXCEPT ![s] =
                        IF wanted[s] = "event" THEN "running" ELSE "leaving"]
      BY <3>1, <3>4 DEF HandedOver, TypeOK
    <3>6. UNCHANGED <<callVars, thread, wanted, reason, verdict, stalled, supVars>>
      BY <1>5 DEF SendResumes
    <3> QED  BY <3>3, <3>5, <3>6 DEF TypeOK, callVars, supVars
  <2> QED  BY <2>1, <2>2
<1>6. ASSUME NEW s \in Streams, Stall(s) \/ Return(s) \/ Panic(s) PROVE TypeOK'
  <2>1. CASE Stall(s)
    BY <2>1 DEF Stall, TypeOK, Wired, WiredStream, OnThread, callVars, supVars
  <2>2. CASE Return(s)
    BY <2>2 DEF Return, Leaves, TypeOK, Wired, WiredStream, OnThread, callVars, supVars
  <2>3. CASE Panic(s)
    BY <2>3 DEF Panic, Leaves, TypeOK, callVars, supVars
  <2> QED  BY <1>6, <2>1, <2>2, <2>3
<1>7. ASSUME NEW s \in Streams, SupervisorSteps(s) PROVE TypeOK'
  <2>1. CASE Deliver(s)
    <3>1. supervisor[s] = "sending" /\ verdict[s] \in {"deadline", "internal"}
      BY <2>1 DEF Deliver, Wired, WiredStream
    <3>2. 1 \in 1..(Events + 1) /\ verdict[s] \in {"event", "terminal"} \cup Statuses
      BY <3>1 DEF Statuses
    <3>3. CASE UNCHANGED channel
      BY <2>1, <3>3 DEF Deliver, TypeOK, callVars, bodyVars
    <3>4. CASE Put(s, verdict[s], 1)
      <4>1. channel' \in [Streams -> Seq(Message)]  BY <3>2, <3>4, PutTypes
      <4> QED  BY <2>1, <4>1 DEF Deliver, TypeOK, callVars, bodyVars
    <3> QED  BY <2>1, <3>3, <3>4 DEF Deliver
  <2>2. CASE Supervise(s) \/ DropPermit(s) \/ DropSender(s)
    BY <2>2 DEF Supervise, DropPermit, DropSender, TypeOK, callVars, bodyVars
  <2> QED  BY <1>7, <2>1, <2>2 DEF SupervisorSteps
<1>8. ASSUME NEW s \in Streams, Receive(s) \/ Leave(s) PROVE TypeOK'
  <2>1. CASE Read(s)
    <3>1. channel[s] \in Seq(Message) /\ channel[s] # <<>> /\ got[s] \in Seq(Message)
      BY <2>1 DEF Read, TypeOK
    <3>2. Head(channel[s]) \in Message /\ Tail(channel[s]) \in Seq(Message)
      BY <3>1
    <3>3. Append(got[s], Head(channel[s])) \in Seq(Message)
      BY <3>1, <3>2
    <3>4. CASE Head(channel[s]).kind \in Statuses
      <4>1. /\ client' = [client EXCEPT ![s] = Head(channel[s]).kind]
            /\ channel' = [channel EXCEPT ![s] = <<>>]
            /\ UNCHANGED <<got, bodyVars, supVars>>
        BY <2>1, <3>4 DEF Read
      <4>2. <<>> \in Seq(Message)  OBVIOUS
      <4>3. client' \in [Streams -> {"idle", "rejected", "reading"} \cup Ended]
        BY <3>4, <4>1, Zenon DEF TypeOK, Ended
      <4>4. channel' \in [Streams -> Seq(Message)]  BY <4>1, <4>2 DEF TypeOK
      <4> QED  BY <4>1, <4>3, <4>4 DEF TypeOK, bodyVars, supVars
    <3>5. CASE Head(channel[s]).kind \notin Statuses
      <4>1. /\ got' = [got EXCEPT ![s] = Append(@, Head(channel[s]))]
            /\ channel' = [channel EXCEPT ![s] = Tail(@)]
            /\ UNCHANGED <<client, bodyVars, supVars>>
        BY <2>1, <3>5 DEF Read
      <4> QED  BY <3>2, <3>3, <4>1 DEF TypeOK, bodyVars, supVars
    <3> QED  BY <3>4, <3>5
  <2>2. CASE SeeEnd(s) \/ Leave(s)
    <3>1. <<>> \in Seq(Message)  OBVIOUS
    <3> QED  BY <2>2, <3>1,
                ZenonT(60) DEF SeeEnd, Leave, TypeOK, bodyVars, supVars, Ended
  <2> QED  BY <1>8, <2>1, <2>2 DEF Receive
<1>9. CASE UNCHANGED vars
  BY <1>9 DEF vars, callVars, bodyVars, supVars, TypeOK
<1> QED
  BY <1>1, <1>2, <1>3, <1>4, <1>5, <1>6, <1>7, <1>8, <1>9 DEF Next, BodySteps
-----------------------------------------------------------------------------
LEMMA PermitsFinite ==
  ASSUME NEW S, S \subseteq Streams
  PROVE  IsFiniteSet(S) /\ Cardinality(S) \in Nat
BY PoolAssumption, FS_Subset, FS_CardinalityType

LEMMA CountAfter ==
  ASSUME NEW S, S \subseteq Streams, NEW s \in Streams
  PROVE  /\ s \notin S => Cardinality(S \cup {s}) = Cardinality(S) + 1
         /\ s \in S => Cardinality(S \ {s}) = Cardinality(S) - 1
<1>1. IsFiniteSet(S)  BY PermitsFinite
<1>2. Cardinality(S \cup {s}) = IF s \in S THEN Cardinality(S) ELSE Cardinality(S) + 1
  BY <1>1, FS_AddElement
<1>3. Cardinality(S \ {s}) = IF s \in S THEN Cardinality(S) - 1 ELSE Cardinality(S)
  BY <1>1, FS_RemoveElement
<1> QED  BY <1>2, <1>3

(* Only Start puts a body on a thread, an idle one.                        *)
LEMMA ThreadsApart ==
  ASSUME TypeOK, Wired, [Next]_vars
  PROVE  \A s, t \in Streams : thread'[s] = thread'[t] /\ thread'[s] # NoThread => s = t
<1>1. ASSUME NEW u \in Streams, Start(u)
      PROVE  \A s, t \in Streams :
                thread'[s] = thread'[t] /\ thread'[s] # NoThread => s = t
  BY <1>1 DEF Start, Idle, TypeOK, Wired
<1>2. ASSUME NEW u \in Streams, Return(u) \/ Panic(u)
      PROVE  \A s, t \in Streams :
                thread'[s] = thread'[t] /\ thread'[s] # NoThread => s = t
  BY <1>2, ZenonT(60) DEF Return, Panic, Leaves, TypeOK, Wired
<1>3. (\E u \in Streams : Start(u) \/ Return(u) \/ Panic(u)) \/ UNCHANGED thread
  BY DEF Next, vars, bodyVars, callVars, supVars, Arrive, Admit, TurnAway, BodySteps,
         Refuse, Send, SendResumes, Stall, SupervisorSteps, Supervise, Deliver,
         DropPermit, DropSender, Receive, Read, SeeEnd, Leave
<1>4. CASE UNCHANGED thread  BY <1>4 DEF Wired
<1> QED  BY <1>1, <1>2, <1>3, <1>4

LEMMA PermitsCounted ==
  ASSUME TypeOK, Wired, [Next]_vars
  PROVE  Cardinality(permits') <= Slots
<1>0. Cardinality(permits) \in Nat /\ Slots \in Nat
  BY PermitsFinite, PoolAssumption DEF TypeOK
<1>1. ASSUME NEW s \in Streams, Admit(s) PROVE Cardinality(permits') <= Slots
  <2>1. s \notin permits  BY <1>1 DEF Admit, Wired, WiredStream
  <2>2. Cardinality(permits') = Cardinality(permits) + 1
    BY <1>1, <2>1, CountAfter DEF Admit, TypeOK
  <2> QED  BY <1>0, <1>1, <2>2 DEF Admit
<1>2. ASSUME NEW s \in Streams, DropPermit(s) PROVE Cardinality(permits') <= Slots
  <2>1. s \in permits  BY <1>2 DEF DropPermit, Wired, WiredStream
  <2>2. Cardinality(permits') = Cardinality(permits) - 1
    BY <1>2, <2>1, CountAfter DEF DropPermit, TypeOK
  <2> QED  BY <1>0, <2>2 DEF Wired
<1>3. (\E s \in Streams : Admit(s) \/ DropPermit(s)) \/ UNCHANGED permits
  BY DEF Next, vars, bodyVars, callVars, supVars, Arrive, TurnAway, BodySteps, Start,
         Refuse, Send, SendResumes, Stall, Return, Panic, Leaves, SupervisorSteps,
         Supervise, Deliver, DropSender, Receive, Read, SeeEnd, Leave
<1>4. CASE UNCHANGED permits  BY <1>4 DEF Wired
<1> QED  BY <1>1, <1>2, <1>3, <1>4

LEMMA WiredStep == TypeOK /\ Wired /\ [Next]_vars => Wired'
<1> SUFFICES ASSUME TypeOK, Wired, [Next]_vars PROVE Wired'
  OBVIOUS
<1> SUFFICES ASSUME NEW t \in Streams PROVE WiredStream(t)'
  BY ThreadsApart, PermitsCounted DEF Wired
<1>0. WiredStream(t)  BY DEF Wired
<1>1. ASSUME NEW s \in Streams, Arrive(s) PROVE WiredStream(t)'
  BY <1>0, <1>1 DEF Arrive, Admit, TurnAway, TypeOK, WiredStream, OnThread, bodyVars, supVars
<1>2. ASSUME NEW s \in Streams, Start(s) PROVE WiredStream(t)'
  <2>1. PICK q \in Threads :
            /\ body[s] = "spawned"
            /\ body' = [body EXCEPT ![s] = "running"]
            /\ thread' = [thread EXCEPT ![s] = q]
            /\ UNCHANGED <<client, permits, supervisor, verdict, made, wanted>>
    BY <1>2 DEF Start, callVars, supVars
  <2>2. q # NoThread  BY PoolAssumption
  <2>3. CASE t = s
    BY <1>0, <2>1, <2>2, <2>3 DEF TypeOK, WiredStream, OnThread
  <2>4. CASE t # s
    BY <1>0, <2>1, <2>4 DEF TypeOK, WiredStream, OnThread
  <2> QED  BY <2>3, <2>4
<1>3. ASSUME NEW s \in Streams, Refuse(s) PROVE WiredStream(t)'
  BY <1>0, <1>3 DEF Refuse, TypeOK, WiredStream, OnThread, callVars, supVars
<1>4. ASSUME NEW s \in Streams, NEW kind \in {"event", "terminal"}, Send(s, kind)
      PROVE  WiredStream(t)'
  BY <1>0, <1>4 DEF Send, HandedOver, TypeOK, WiredStream, OnThread, callVars, supVars
<1>5. ASSUME NEW s \in Streams, SendResumes(s) PROVE WiredStream(t)'
  BY <1>0, <1>5 DEF SendResumes, HandedOver, TypeOK, WiredStream, OnThread, callVars, supVars
<1>6. ASSUME NEW s \in Streams, Stall(s) PROVE WiredStream(t)'
  BY <1>0, <1>6 DEF Stall, TypeOK, WiredStream, OnThread, callVars, supVars
<1>7. ASSUME NEW s \in Streams, Return(s) \/ Panic(s) PROVE WiredStream(t)'
  BY <1>0, <1>7
  DEF Return, Panic, Leaves, TypeOK, WiredStream, OnThread, callVars, supVars
<1>8. ASSUME NEW s \in Streams, SupervisorSteps(s) PROVE WiredStream(t)'
  <2>1. WiredStream(s)  BY DEF Wired
  <2> QED
    BY <1>0, <1>8, <2>1 DEF SupervisorSteps, Supervise, Joined, Deliver, DropPermit,
       DropSender, TypeOK, WiredStream, OnThread, callVars, bodyVars
<1>9. ASSUME NEW s \in Streams, Receive(s) \/ Leave(s) PROVE WiredStream(t)'
  <2>1. CASE Read(s)
    BY <1>0, <2>1 DEF Read, Statuses, TypeOK, WiredStream, OnThread, bodyVars, supVars
  <2>2. CASE SeeEnd(s) \/ Leave(s)
    BY <1>0, <2>2
    DEF SeeEnd, SendersGone, Leave, TypeOK, WiredStream, OnThread, bodyVars, supVars
  <2> QED  BY <1>9, <2>1, <2>2 DEF Receive
<1>10. CASE UNCHANGED vars
  BY <1>0, <1>10 DEF vars, callVars, bodyVars, supVars, WiredStream, OnThread
<1> QED
  BY <1>1, <1>2, <1>3, <1>4, <1>5, <1>6, <1>7, <1>8, <1>9, <1>10 DEF Next, BodySteps

LEMMA ReasonsStep == TypeOK /\ Wired /\ ReasonsOwn /\ [Next]_vars => ReasonsOwn'
<1> SUFFICES ASSUME TypeOK, Wired, ReasonsOwn, [Next]_vars, NEW t \in Streams
    PROVE  /\ OnThread(t)' /\ reason'[thread'[t]] => t \in stalled' /\ body'[t] = "leaving"
           /\ verdict'[t] = "deadline" => t \in stalled'
  BY DEF ReasonsOwn
<1>0. /\ OnThread(t) /\ reason[thread[t]] => t \in stalled /\ body[t] = "leaving"
      /\ verdict[t] = "deadline" => t \in stalled
  BY DEF ReasonsOwn
<1> DEFINE Own == /\ OnThread(t)' /\ reason'[thread'[t]]
                        => t \in stalled' /\ body'[t] = "leaving"
                  /\ verdict'[t] = "deadline" => t \in stalled'
<1>1. ASSUME NEW s \in Streams, Arrive(s) PROVE Own
  BY <1>0, <1>1 DEF Arrive, Admit, TurnAway, TypeOK, OnThread, bodyVars, supVars
<1>2. ASSUME NEW s \in Streams, Start(s) PROVE Own
  <2>1. PICK q \in Threads :
            /\ Idle(q) /\ body[s] = "spawned"
            /\ body' = [body EXCEPT ![s] = "running"]
            /\ thread' = [thread EXCEPT ![s] = q]
            /\ reason' = [reason EXCEPT ![q] = FALSE]
            /\ UNCHANGED <<verdict, stalled>>
    BY <1>2 DEF Start, FreshReason
  <2>2. CASE t = s
    BY <1>0, <2>1, <2>2 DEF TypeOK
  <2>3. CASE t # s
    <3>1. thread[t] # q  BY <2>1 DEF Idle
    <3>2. thread'[t] = thread[t] /\ body'[t] = body[t] /\ verdict'[t] = verdict[t]
      BY <2>1, <2>3 DEF TypeOK
    <3>3. OnThread(t) => thread[t] \in Threads  BY DEF Wired, WiredStream, TypeOK
    <3>4. OnThread(t) => reason'[thread[t]] = reason[thread[t]]
      BY <2>1, <3>1, <3>3 DEF TypeOK
    <3> QED  BY <1>0, <2>1, <3>2, <3>4 DEF OnThread
  <2> QED  BY <2>2, <2>3
<1>3. ASSUME NEW s \in Streams, Refuse(s) PROVE Own
  BY <1>0, <1>3 DEF Refuse, TypeOK, OnThread, callVars, supVars
<1>4. ASSUME NEW s \in Streams, NEW kind \in {"event", "terminal"}, Send(s, kind)
      PROVE  Own
  BY <1>0, <1>4 DEF Send, HandedOver, TypeOK, OnThread, callVars, supVars
<1>5. ASSUME NEW s \in Streams, SendResumes(s) PROVE Own
  BY <1>0, <1>5 DEF SendResumes, HandedOver, TypeOK, OnThread, callVars, supVars
<1>6. ASSUME NEW s \in Streams, Stall(s) PROVE Own
  <2>1. thread[s] # NoThread /\ (thread[t] = thread[s] => t = s)
    BY <1>6 DEF Stall, Wired, WiredStream, OnThread
  <2>2. OnThread(t) => thread[t] \in Threads
    BY DEF Wired, WiredStream, TypeOK
  <2> QED  BY <1>0, <1>6, <2>1, <2>2 DEF Stall, TypeOK, OnThread, callVars, supVars
<1>7. ASSUME NEW s \in Streams, Return(s) PROVE Own
  <2>1. thread[s] \in Threads /\ (thread[t] = thread[s] => t = s)
    BY <1>7 DEF Return, Wired, WiredStream, OnThread, TypeOK
  <2>2. OnThread(t) => thread[t] \in Threads
    BY DEF Wired, WiredStream, TypeOK
  <2>3. OnThread(s)  BY <1>7 DEF Return, OnThread
  <2> QED
    BY <1>0, <1>7, <2>1, <2>2, <2>3
    DEF Return, Leaves, TypeOK, OnThread, callVars, supVars
<1>8. ASSUME NEW s \in Streams, Panic(s) PROVE Own
  BY <1>0, <1>8 DEF Panic, Leaves, TypeOK, OnThread, callVars, supVars
<1>9. ASSUME NEW s \in Streams, SupervisorSteps(s) PROVE Own
  BY <1>0, <1>9 DEF SupervisorSteps, Supervise, Deliver, DropPermit, DropSender,
                    OnThread, callVars, bodyVars
<1>10. ASSUME NEW s \in Streams, Receive(s) \/ Leave(s) PROVE Own
  BY <1>0, <1>10 DEF Receive, Read, SeeEnd, Leave, OnThread, bodyVars, supVars
<1>11. CASE UNCHANGED vars
  BY <1>0, <1>11 DEF vars, bodyVars, OnThread
<1> QED
  BY <1>1, <1>2, <1>3, <1>4, <1>5, <1>6, <1>7, <1>8, <1>9, <1>10, <1>11 DEF Next, BodySteps

LEMMA ControlInit == Init => Control
<1> SUFFICES ASSUME Init PROVE Control
  OBVIOUS
<1>1. TypeOK
  <2>1. <<>> \in Seq(Message)  OBVIOUS
  <2> QED  BY <2>1, PoolAssumption DEF Init, TypeOK
<1>2. Cardinality(permits) <= Slots
  BY FS_EmptySet, PoolAssumption DEF Init
<1> QED
  BY <1>1, <1>2 DEF Init, Control, Wired, WiredStream, ReasonsOwn, OnThread

LEMMA ControlStep == Control /\ [Next]_vars => Control'
BY TypeStep, WiredStep, ReasonsStep DEF Control

(* Client, body, thread, supervisor and permit of every stream go along as *)
(* Wired and ReasonsOwn say.                                               *)
THEOREM ControlInvariance == Spec => []Control
BY ControlInit, ControlStep, PTL DEF Spec

(* The state of the streams keeps its type.                                *)
THEOREM TypeCorrect == Spec => []TypeOK
<1>1. Control => TypeOK  BY DEF Control
<1> QED  BY <1>1, ControlInvariance, PTL

(* STALL_REASON never reaches another body of its thread.                  *)
THEOREM StallCorrect == Spec => []OwnStall
<1>1. Control => OwnStall  BY DEF Control, ReasonsOwn, OwnStall
<1> QED  BY <1>1, ControlInvariance, PTL

(* A client that sees its stream end OK finds its slot free: drop(permit)  *)
(* comes before the supervisor's sender goes (service.rs:584-585). One     *)
(* that is told a status sees it before that, and is not spoken of.        *)
THEOREM SlotBackCorrect == Spec => []SlotBackAtEnd
<1>1. Control => SlotBackAtEnd  BY DEF Control, Wired, WiredStream, SlotBackAtEnd
<1> QED  BY <1>1, ControlInvariance, PTL
-----------------------------------------------------------------------------
(* The slots. *)
Working == {s \in Streams : thread[s] # NoThread}
TurnedAwayStreams == {s \in Streams : client[s] = "rejected"}

(* What the projection to the slots does not see. *)
LEMMA PoolStutters ==
  ASSUME permits' = permits, Working' = Working, TurnedAwayStreams' = TurnedAwayStreams
  PROVE  UNCHANGED Pool!poolVars
BY DEF Working, TurnedAwayStreams, Pool!poolVars

LEMMA PoolStep == Control /\ [Next]_vars => [Pool!PoolNext]_Pool!poolVars
<1> SUFFICES ASSUME Control, [Next]_vars PROVE [Pool!PoolNext]_Pool!poolVars
  OBVIOUS
<1> USE DEF Control
<1>0. Cardinality(permits) \in Nat /\ Slots \in Nat /\ Slots - Cardinality(permits) \in Nat
  BY PermitsFinite, PoolAssumption DEF TypeOK, Wired
<1>1. ASSUME NEW s \in Streams, Admit(s) PROVE Pool!PoolNext
  <2>1. s \notin permits \cup TurnedAwayStreams
    BY <1>1 DEF Admit, TurnedAwayStreams, Wired, WiredStream
  <2>2. permits' = permits \cup {s} /\ Working' = Working
    BY <1>1 DEF Admit, Working
  <2>3. TurnedAwayStreams' = TurnedAwayStreams
    BY <1>1 DEF Admit, TurnedAwayStreams, TypeOK
  <2>4. Cardinality(permits') = Cardinality(permits) + 1
    BY <2>1, <2>2, CountAfter DEF TypeOK
  <2>5. /\ Slots - Cardinality(permits) > 0
        /\ Slots - Cardinality(permits') = Slots - Cardinality(permits) - 1
    BY <1>0, <1>1, <2>4 DEF Admit
  <2> QED
    BY <2>1, <2>2, <2>3, <2>5, Zenon
    DEF Working, TurnedAwayStreams, Pool!PoolNext, Pool!Enter
<1>2. ASSUME NEW s \in Streams, TurnAway(s) PROVE Pool!PoolNext
  <2>1. s \notin permits \cup TurnedAwayStreams
    BY <1>2 DEF TurnAway, TurnedAwayStreams, Wired, WiredStream
  <2>2. permits' = permits /\ Working' = Working
    BY <1>2 DEF TurnAway, bodyVars, supVars, Working
  <2>3. TurnedAwayStreams' = TurnedAwayStreams \cup {s}
    BY <1>2 DEF TurnAway, TurnedAwayStreams, TypeOK
  <2>4. Slots - Cardinality(permits) = 0
    BY <1>0, <1>2 DEF TurnAway, Wired
  <2> QED
    BY <2>1, <2>2, <2>3, <2>4, Zenon
    DEF Working, TurnedAwayStreams, Pool!PoolNext, Pool!TurnedAway
<1>3. ASSUME NEW s \in Streams, Start(s) PROVE Pool!PoolNext
  <2>1. PICK q \in Threads : thread' = [thread EXCEPT ![s] = q]
    BY <1>3 DEF Start
  <2>2. s \in permits \ Working
    BY <1>3 DEF Start, Working, Wired, WiredStream, OnThread
  <2>3. Working' = Working \cup {s}
    BY <2>1, PoolAssumption DEF Working, TypeOK
  <2>4. permits' = permits /\ TurnedAwayStreams' = TurnedAwayStreams
    BY <1>3 DEF Start, callVars, supVars, TurnedAwayStreams
  <2> QED
    BY <2>2, <2>3, <2>4, Zenon DEF Working, TurnedAwayStreams, Pool!PoolNext, Pool!TakeUp
<1>4. ASSUME NEW s \in Streams, Return(s) \/ Panic(s) PROVE Pool!PoolNext
  <2>1. /\ thread' = [thread EXCEPT ![s] = NoThread]
        /\ permits' = permits /\ TurnedAwayStreams' = TurnedAwayStreams
    BY <1>4 DEF Return, Panic, Leaves, callVars, supVars, TurnedAwayStreams
  <2>2. s \in Working
    BY <1>4 DEF Return, Panic, Working, Wired, WiredStream, OnThread
  <2>3. Working' = Working \ {s}  BY <2>1 DEF Working, TypeOK
  <2> QED
    BY <2>1, <2>2, <2>3, Zenon DEF Working, TurnedAwayStreams, Pool!PoolNext, Pool!PutDown
<1>5. ASSUME NEW s \in Streams, DropPermit(s) PROVE Pool!PoolNext
  <2>1. s \in permits /\ s \notin Working
    BY <1>5 DEF DropPermit, Working, Wired, WiredStream, OnThread
  <2>2. permits' = permits \ {s} /\ TurnedAwayStreams' = TurnedAwayStreams
    BY <1>5 DEF DropPermit, callVars, TurnedAwayStreams
  <2>3. Working' = Working \ {s}
    BY <1>5, <2>1 DEF DropPermit, bodyVars, Working
  <2>4. Cardinality(permits') = Cardinality(permits) - 1
    BY <2>1, <2>2, CountAfter DEF TypeOK
  <2>5. Slots - Cardinality(permits') = Slots - Cardinality(permits) + 1
    BY <1>0, <2>4
  <2> QED
    BY <2>1, <2>2, <2>3, <2>5, Zenon DEF Working, TurnedAwayStreams, Pool!PoolNext, Pool!Exit
<1>6. ASSUME NEW s \in Streams,
             \/ Refuse(s) \/ SendResumes(s) \/ Stall(s)
             \/ \E kind \in {"event", "terminal"} : Send(s, kind)
             \/ Supervise(s) \/ Deliver(s) \/ DropSender(s)
      PROVE  UNCHANGED Pool!poolVars
  <2>1. permits' = permits /\ thread' = thread /\ client' = client
    BY <1>6 DEF Refuse, SendResumes, Stall, Send, Supervise, Deliver, DropSender,
                callVars, bodyVars, supVars
  <2> QED  BY <2>1, PoolStutters DEF Working, TurnedAwayStreams
<1>7. ASSUME NEW s \in Streams, Receive(s) \/ Leave(s) PROVE UNCHANGED Pool!poolVars
  <2>1. permits' = permits /\ thread' = thread
    BY <1>7 DEF Receive, Read, SeeEnd, Leave, bodyVars, supVars
  <2>2. \/ client' = client
        \/ client[s] = "reading" /\ \E end \in Ended : client' = [client EXCEPT ![s] = end]
    BY <1>7, Zenon DEF Receive, Read, SeeEnd, Leave, Ended
  <2>3. TurnedAwayStreams' = TurnedAwayStreams
    BY <2>2 DEF TurnedAwayStreams, TypeOK, Ended, Statuses
  <2> QED  BY <2>1, <2>3, PoolStutters DEF Working
<1>8. CASE UNCHANGED vars
  BY <1>8, PoolStutters DEF vars, callVars, bodyVars, supVars, Working, TurnedAwayStreams
<1> QED
  BY <1>1, <1>2, <1>3, <1>4, <1>5, <1>6, <1>7, <1>8
  DEF Next, Arrive, BodySteps, SupervisorSteps

LEMMA PoolStart == Init => Pool!PoolInit
<1> SUFFICES ASSUME Init PROVE Pool!PoolInit
  OBVIOUS
<1>1. Slots - Cardinality(permits) = Slots
  BY FS_EmptySet, PoolAssumption DEF Init
<1>2. {s \in Streams : thread[s] # NoThread} = {}  BY DEF Init
<1>3. {s \in Streams : client[s] = "rejected"} = {}  BY DEF Init
<1> QED  BY <1>1, <1>2, <1>3 DEF Init, Pool!PoolInit

(* stream_slots implements a SlotPool whose work is a thread: no thread of *)
(* the blocking pool works for a stream whose permit is given back, though *)
(* the client has left.                                                    *)
THEOREM PoolCorrect == Spec => IsSlotPool
<1>1. Spec => Pool!PoolInit /\ [][Pool!PoolNext]_Pool!poolVars
  BY PoolStart, PoolStep, ControlInvariance, PTL DEF Spec
<1> QED  BY <1>1 DEF IsSlotPool, Pool!PoolSpec
-----------------------------------------------------------------------------
(* What clients see.  A message put at the end of a channel. *)
LEMMA ShapePut ==
  ASSUME NEW g \in Seq(Message), NEW c \in Seq(Message), NEW m \in Message, Shape(g, c),
         m.kind \in Statuses \/ \A j \in DOMAIN c : c[j].kind = "event",
         m.kind \notin Statuses => m.n = Len(g) + Len(c) + 1 /\ ~FailedSeq(g),
         m.kind = "event" => Len(g) + Len(c) < Events,
         m.kind = "refused" => g = <<>> /\ c = <<>>
  PROVE  Shape(g, Append(c, m))
<1> DEFINE d == Append(c, m)
<1>1. /\ Len(g) \in Nat /\ Len(c) \in Nat /\ DOMAIN c = 1..Len(c)
      /\ DOMAIN d = 1..(Len(c) + 1) /\ d[Len(c) + 1] = m
      /\ \A j \in DOMAIN c : d[j] = c[j]
      /\ c = <<>> => Len(c) = 0
  OBVIOUS
<1>2. ASSUME NEW j \in DOMAIN d
      PROVE  /\ d[j].kind \notin Statuses => d[j].n = Len(g) + j
             /\ d[j].kind = "event" => Len(g) + j <= Events
             /\ d[j].kind = "refused" => g = <<>> /\ j = 1
             /\ FailedSeq(g) => d[j].kind \in Statuses
  <2>1. CASE j \in DOMAIN c  BY <1>1, <2>1 DEF Shape
  <2>2. CASE j \notin DOMAIN c
    <3>1. j = Len(c) + 1 /\ d[j] = m  BY <1>1, <1>2, <2>2
    <3>2. m.kind = "event" => Len(g) + j <= Events
      BY <1>1, <3>1, PoolAssumption
    <3> QED  BY <1>1, <3>1, <3>2
  <2> QED  BY <2>1, <2>2
<1>3. ASSUME NEW j \in DOMAIN d, NEW k \in DOMAIN d, j < k, d[j].kind # "event"
      PROVE  d[k].kind \in Statuses
  <2>1. j \in DOMAIN c  BY <1>1, <1>3
  <2>2. CASE k \in DOMAIN c  BY <1>1, <1>3, <2>1, <2>2 DEF Shape
  <2>3. CASE k \notin DOMAIN c
    <3>1. d[k] = m  BY <1>1, <1>3, <2>3
    <3> QED  BY <1>1, <1>3, <2>1, <3>1
  <2> QED  BY <2>2, <2>3
<1> HIDE DEF d
<1>4. Shape(g, d)  BY <1>2, <1>3 DEF Shape
<1> QED  BY <1>4 DEF d

(* The next message read: it is the next event, or the terminal error. *)
LEMMA ShapeRead ==
  ASSUME NEW g \in Seq(Message), NEW c \in Seq(Message), c # <<>>, Shape(g, c),
         Head(c).kind \notin Statuses
  PROVE  /\ Head(c).n = Len(g) + 1 /\ Head(c).kind \in {"event", "terminal"}
         /\ Head(c).kind = "event" => Len(g) < Events
         /\ ~FailedSeq(g)
         /\ Shape(Append(g, Head(c)), Tail(c))
         /\ \A m \in Nat : Flowing(g, c, m) => Flowing(Append(g, Head(c)), Tail(c), m)
         /\ Conclusive(g, c) => Conclusive(Append(g, Head(c)), Tail(c))
<1> DEFINE h == Head(c)
           p == Append(g, h)
           r == Tail(c)
<1>a. /\ Len(g) \in Nat /\ Len(c) \in Nat \ {0} /\ DOMAIN c = 1..Len(c)
      /\ 1 \in DOMAIN c /\ h = c[1] /\ h \in Message
  OBVIOUS
<1>b. /\ r \in Seq(Message) /\ Len(r) = Len(c) - 1
      /\ \A j \in 1..Len(r) : r[j] = c[j + 1]
  OBVIOUS
<1>c. DOMAIN r = 1..(Len(c) - 1)  BY <1>b
<1>d. \A j \in DOMAIN r : j + 1 \in DOMAIN c /\ r[j] = c[j + 1]
  BY <1>a, <1>b, <1>c
<1>e. Len(p) = Len(g) + 1 /\ p # <<>> /\ p[Len(p)] = h
  BY <1>a
<1>1. /\ Len(g) \in Nat /\ Len(c) \in Nat \ {0} /\ DOMAIN c = 1..Len(c)
      /\ Len(r) = Len(c) - 1 /\ DOMAIN r = 1..(Len(c) - 1)
      /\ \A j \in DOMAIN r : j + 1 \in DOMAIN c /\ r[j] = c[j + 1]
      /\ 1 \in DOMAIN c /\ h = c[1] /\ h \in Message
      /\ Len(p) = Len(g) + 1 /\ p # <<>> /\ p[Len(p)] = h
  BY <1>a, <1>b, <1>c, <1>d, <1>e
<1>2. /\ h.n = Len(g) + 1 /\ h.kind \in {"event", "terminal"}
      /\ h.kind = "event" => Len(g) < Events
      /\ ~FailedSeq(g)
  BY <1>1, PoolAssumption, SMTT(60) DEF Shape, Message
<1>3. FailedSeq(p) <=> h.kind # "event"
  BY <1>1, <1>2 DEF FailedSeq
<1> HIDE DEF h, p, r
<1>4. Shape(p, r)
  <2>1. ASSUME NEW j \in DOMAIN r
        PROVE  /\ r[j].kind \notin Statuses => r[j].n = Len(p) + j
               /\ r[j].kind = "event" => Len(p) + j <= Events
               /\ r[j].kind = "refused" => p = <<>> /\ j = 1
               /\ FailedSeq(p) => r[j].kind \in Statuses
    <3>1. /\ j + 1 \in DOMAIN c /\ r[j] = c[j + 1] /\ 1 < j + 1 /\ j + 1 # 1
          /\ Len(p) + j = Len(g) + (j + 1)
      BY <1>1, <2>1
    <3>2. /\ r[j].kind \notin Statuses => r[j].n = Len(p) + j
          /\ r[j].kind = "event" => Len(p) + j <= Events
          /\ r[j].kind # "refused"
      BY <3>1 DEF Shape
    <3>3. FailedSeq(p) => r[j].kind \in Statuses
      BY <1>1, <1>3, <3>1 DEF Shape
    <3> QED  BY <3>2, <3>3
  <2>2. ASSUME NEW j \in DOMAIN r, NEW k \in DOMAIN r, j < k, r[j].kind # "event"
        PROVE  r[k].kind \in Statuses
    <3>1. j + 1 \in DOMAIN c /\ k + 1 \in DOMAIN c /\ j + 1 < k + 1
      BY <1>1, <2>2
    <3> QED  BY <1>1, <2>2, <3>1 DEF Shape
  <2> QED  BY <2>1, <2>2 DEF Shape
<1>5. ASSUME NEW m \in Nat, Flowing(g, c, m) PROVE Flowing(p, r, m)
  <2>0. Len(g) + Len(c) = m  BY <1>5 DEF Flowing
  <2>n. Len(g) \in Int /\ Len(c) \in Int /\ Len(p) = Len(g) + 1 /\ Len(r) = Len(c) - 1
    BY <1>a, <1>b, <1>e
  <2>1. Len(p) + Len(r) = m  BY <2>n, <2>0
  <2>2. \A j \in DOMAIN r : r[j].kind = "event"  BY <1>1, <1>5 DEF Flowing
  <2>3. h.kind = "event"  BY <1>1, <1>5 DEF Flowing
  <2> QED  BY <1>3, <2>1, <2>2, <2>3 DEF Flowing
<1>6. ASSUME Conclusive(g, c) PROVE Conclusive(p, r)
  <2>1. CASE \E j \in DOMAIN c : c[j].kind # "event"
    <3>1. PICK j \in DOMAIN c : c[j].kind # "event"  BY <2>1
    <3>2. CASE j = 1  BY <1>1, <1>3, <3>1, <3>2 DEF Conclusive
    <3>3. CASE j # 1
      <4>1. j - 1 \in DOMAIN r /\ r[j - 1] = c[j]  BY <1>1, <3>1, <3>3
      <4> QED  BY <3>1, <4>1 DEF Conclusive
    <3> QED  BY <3>2, <3>3
  <2>2. CASE Len(g) + Len(c) = Events  BY <1>1, <2>2 DEF Conclusive
  <2> QED  BY <1>2, <1>6, <2>1, <2>2 DEF Conclusive
<1> QED  BY <1>2, <1>4, <1>5, <1>6 DEF h, p, r
-----------------------------------------------------------------------------
(* A step leaves a stream that it is not about as it is.                   *)
Kept(t) ==
    /\ client'[t] = client[t] /\ channel'[t] = channel[t] /\ got'[t] = got[t]
    /\ made'[t] = made[t] /\ body'[t] = body[t] /\ verdict'[t] = verdict[t]
    /\ supervisor'[t] = supervisor[t] /\ thread'[t] = thread[t]
    /\ body[t] = "leaving" => reason'[thread[t]] = reason[thread[t]]

LEMMA KeptFlows == ASSUME NEW t \in Streams, FlowOf(t), Kept(t) PROVE FlowOf(t)'
BY DEF FlowOf, Kept

StepOf(s) ==
    \/ Arrive(s)
    \/ BodySteps(s) \/ Panic(s)
    \/ SupervisorSteps(s)
    \/ Receive(s) \/ Leave(s)

LEMMA OthersKept ==
  ASSUME Control, NEW s \in Streams, NEW t \in Streams, s # t, StepOf(s)
  PROVE  Kept(t)
<1> USE DEF Control
<1>0. /\ OnThread(t) => thread[t] \in Threads
      /\ thread[s] # NoThread => thread[t] # thread[s]
      /\ thread[s] \in Threads \cup {NoThread}
  BY DEF Wired, WiredStream, TypeOK
<1>1. CASE Arrive(s) \/ Receive(s) \/ Leave(s)
  BY <1>1 DEF Arrive, Admit, TurnAway, Receive, Read, SeeEnd, Leave, Kept, TypeOK,
              bodyVars, supVars
<1>2. CASE Start(s)
  <2>1. PICK q \in Threads : Idle(q) /\ reason' = [reason EXCEPT ![q] = FALSE]
                             /\ thread' = [thread EXCEPT ![s] = q]
    BY <1>2 DEF Start, FreshReason
  <2>2. thread[t] # q  BY <2>1 DEF Idle
  <2>3. body[t] = "leaving" => reason'[thread[t]] = reason[thread[t]]
    BY <1>0, <2>1, <2>2 DEF OnThread, TypeOK
  <2> QED  BY <1>2, <2>1, <2>3 DEF Start, Kept, TypeOK, callVars, supVars
<1>3. CASE Refuse(s) \/ SendResumes(s) \/ \E kind \in {"event", "terminal"} : Send(s, kind)
  BY <1>3 DEF Refuse, Send, SendResumes, HandedOver, Put, Kept, TypeOK, callVars, supVars
<1>4. CASE Stall(s)
  <2>1. body[t] = "leaving" => reason'[thread[t]] = reason[thread[t]]
    BY <1>0, <1>4 DEF Stall, OnThread, Wired, WiredStream, TypeOK
  <2> QED  BY <1>4, <2>1 DEF Stall, Kept, TypeOK, callVars, supVars
<1>5. CASE Return(s)
  <2>0. thread[s] # NoThread  BY <1>5 DEF Return, OnThread, Wired, WiredStream
  <2>1. body[t] = "leaving" => reason'[thread[t]] = reason[thread[t]]
    BY <1>0, <1>5, <2>0 DEF Return, OnThread, TypeOK
  <2> QED  BY <1>5, <2>1 DEF Return, Leaves, Kept, TypeOK, callVars, supVars
<1>6. CASE Panic(s)
  BY <1>6 DEF Panic, Leaves, Kept, TypeOK, callVars, supVars
<1>7. CASE SupervisorSteps(s)
  BY <1>7 DEF SupervisorSteps, Supervise, Deliver, DropPermit, DropSender, Put, Kept,
              TypeOK, callVars, bodyVars
<1> QED
  BY <1>1, <1>2, <1>3, <1>4, <1>5, <1>6, <1>7 DEF StepOf, BodySteps

(* What Put makes of a channel. *)
LEMMA PutChannel ==
  ASSUME TypeOK, NEW s \in Streams, NEW kind, NEW n, Put(s, kind, n)
  PROVE  channel'[s] = Append(channel[s], [kind |-> kind, n |-> n])
BY DEF Put, TypeOK

LEMMA LastOfChannel ==
  ASSUME NEW g \in Seq(Message), NEW c \in Seq(Message), NEW m \in Message
  PROVE  /\ m.kind # "event" => Conclusive(g, Append(c, m))
         /\ \A n \in Nat : Flowing(g, c, n) /\ m.kind = "event"
                => Flowing(g, Append(c, m), n + 1)
<1>1. /\ Len(g) \in Nat /\ Len(c) \in Nat /\ DOMAIN c = 1..Len(c)
      /\ Len(Append(c, m)) = Len(c) + 1
      /\ DOMAIN Append(c, m) = 1..(Len(c) + 1) /\ Append(c, m)[Len(c) + 1] = m
      /\ \A j \in DOMAIN c : Append(c, m)[j] = c[j]
  OBVIOUS
<1>2. m.kind # "event" => Conclusive(g, Append(c, m))
  BY <1>1 DEF Conclusive
<1>3. ASSUME NEW n \in Nat, Flowing(g, c, n), m.kind = "event"
      PROVE  Flowing(g, Append(c, m), n + 1)
  <2>1. Len(g) + Len(Append(c, m)) = n + 1  BY <1>1, <1>3 DEF Flowing
  <2>2. \A j \in DOMAIN Append(c, m) : Append(c, m)[j].kind = "event"
    BY <1>1, <1>3 DEF Flowing
  <2> QED  BY <1>3, <2>1, <2>2 DEF Flowing
<1> QED  BY <1>2, <1>3

(* An event, or the terminal error, goes out behind events only. *)
LEMMA HandedOverFlows ==
  ASSUME Control, Flow, NEW s \in Streams, NEW kind \in {"event", "terminal"},
         client[s] = "reading", body[s] \in {"running", "waiting"},
         kind = "event" => made[s] < Events, HandedOver(s, kind),
         UNCHANGED <<callVars, thread, reason, verdict, supVars>>
  PROVE  FlowOf(s)'
<1> USE DEF Control
<1> DEFINE g == got[s]
           c == channel[s]
           m == [kind |-> kind, n |-> made[s] + 1]
<1>1. g \in Seq(Message) /\ c \in Seq(Message) /\ m \in Message /\ made[s] \in Nat
  <2>1. made[s] \in 0..Events /\ made[s] \in Nat  BY PoolAssumption DEF TypeOK
  <2>2. made[s] + 1 \in 1..(Events + 1)  BY <2>1, PoolAssumption
  <2>3. m \in Message  BY <2>2 DEF Message
  <2> QED  BY <2>1, <2>3 DEF TypeOK
<1>2. Shape(g, c) /\ Flowing(g, c, made[s])  BY DEF Flow, FlowOf
<1>3. channel'[s] = Append(c, m)  BY PutChannel DEF HandedOver
<1>4. Shape(g, Append(c, m))
  <2>1. Len(g) + Len(c) = made[s] /\ ~FailedSeq(g) /\ \A j \in DOMAIN c : c[j].kind = "event"
    BY <1>2 DEF Flowing
  <2>2. m.kind = kind /\ m.n = made[s] + 1 /\ m.kind # "refused"  OBVIOUS
  <2> HIDE DEF m, g, c
  <2> QED  BY <1>1, <1>2, <2>1, <2>2, ShapePut
<1>5. /\ got'[s] = g /\ client'[s] = "reading" /\ UNCHANGED <<thread, reason, verdict, supervisor>>
      /\ made'[s] = IF kind = "event" THEN made[s] + 1 ELSE made[s]
      /\ body'[s] = IF kind = "event" THEN "running" ELSE "leaving"
  BY DEF HandedOver, TypeOK, callVars, supVars
<1>6. verdict[s] = "none" /\ supervisor[s] \in {"none", "awaiting"}
  BY DEF Wired, WiredStream, TypeOK
<1>7. CASE kind = "event"
  <2>1. Flowing(g, Append(c, m), made[s] + 1)
    <3> HIDE DEF g, c
    <3> QED  BY <1>1, <1>2, <1>7, LastOfChannel
  <2> HIDE DEF m, g, c
  <2> QED  BY <1>3, <1>4, <1>5, <1>6, <1>7, <2>1 DEF FlowOf
<1>8. CASE kind = "terminal"
  <2>1. Conclusive(g, Append(c, m))
    <3> HIDE DEF g, c
    <3> QED  BY <1>1, <1>8, LastOfChannel
  <2> HIDE DEF m, g, c
  <2> QED  BY <1>3, <1>4, <1>5, <1>6, <1>8, <2>1 DEF FlowOf
<1> QED  BY <1>7, <1>8

LEMMA ReadFlows ==
  ASSUME Control, Flow, NEW s \in Streams, Read(s)
  PROVE  FlowOf(s)'
<1> USE DEF Control
<1>1. got[s] \in Seq(Message) /\ channel[s] \in Seq(Message) /\ channel[s] # <<>>
  BY DEF Read, TypeOK
<1>2. FlowOf(s) /\ client[s] = "reading" /\ made[s] \in Nat  BY DEF Flow, Read, TypeOK
<1>3. CASE Head(channel[s]).kind \in Statuses
  <2>1. /\ client'[s] \in Statuses /\ channel'[s] = <<>>
    BY <1>3 DEF Read, TypeOK
  <2> QED  BY <2>1 DEF FlowOf, Statuses
<1>4. CASE Head(channel[s]).kind \notin Statuses
  <2>1. /\ got'[s] = Append(got[s], Head(channel[s])) /\ channel'[s] = Tail(channel[s])
        /\ UNCHANGED <<client, bodyVars, supVars>>
    BY <1>4 DEF Read, TypeOK
  <2>2. Shape(got[s], channel[s])  BY <1>2 DEF FlowOf
  <2>3. /\ Shape(got'[s], channel'[s])
        /\ \A m \in Nat : Flowing(got[s], channel[s], m) => Flowing(got'[s], channel'[s], m)
        /\ Conclusive(got[s], channel[s]) => Conclusive(got'[s], channel'[s])
    BY <1>1, <1>4, <2>1, <2>2, ShapeRead
  <2>4. UNCHANGED <<client, body, thread, made, reason, verdict, supervisor>>
    BY <2>1 DEF bodyVars, supVars
  <2> QED  BY <1>2, <2>3, <2>4 DEF FlowOf
<1> QED  BY <1>3, <1>4

LEMMA BodyFlows ==
  ASSUME Control, Flow, NEW s \in Streams, BodySteps(s) \/ Panic(s)
  PROVE  FlowOf(s)'
<1> USE DEF Control
<1>0. FlowOf(s) /\ made[s] \in Nat  BY DEF Flow, TypeOK
<1>w. /\ client[s] \notin {"idle", "rejected"} /\ body[s] # "over"
      /\ supervisor[s] \in {"none", "awaiting"} /\ verdict[s] = "none"
  BY DEF BodySteps, Start, Refuse, Send, SendResumes, Stall, Return, Panic, Wired,
         WiredStream, TypeOK
<1>1. CASE Start(s)
  <2>1. /\ UNCHANGED <<client, got, channel, made, verdict, supervisor>>
        /\ body'[s] = "running" /\ body[s] = "spawned"
    BY <1>1 DEF Start, callVars, supVars, TypeOK
  <2> QED  BY <1>0, <1>w, <2>1 DEF FlowOf
<1>2. CASE Refuse(s)
  <2>1. /\ UNCHANGED <<client, got, made, verdict, supervisor>> /\ body'[s] = "leaving"
    BY <1>2 DEF Refuse, callVars, supVars, TypeOK
  <2>2. CASE Closed(s)
    <3>1. UNCHANGED channel  BY <1>2, <2>2 DEF Refuse
    <3> QED  BY <1>0, <1>w, <2>1, <2>2, <3>1 DEF FlowOf, Closed
  <2>3. CASE ~Closed(s)
    <3> DEFINE m == [kind |-> "refused", n |-> 1]
    <3>1. channel'[s] = Append(channel[s], m)
      BY <1>2, <2>3, PutChannel DEF Refuse
    <3>2. /\ Shape(got[s], channel[s]) /\ Flowing(got[s], channel[s], 0)
          /\ channel[s] = <<>>
      BY <1>0, <1>2, <2>3 DEF Refuse, FlowOf, Closed
    <3>3. /\ got[s] \in Seq(Message) /\ channel[s] \in Seq(Message) /\ m \in Message
          /\ m.kind = "refused"
      <4>1. 1 \in 1..(Events + 1)  BY PoolAssumption
      <4>2. m \in Message  BY <4>1 DEF Message, Statuses
      <4> QED  BY <4>2 DEF TypeOK
    <3>4. got[s] = <<>>
      <4>1. Len(got[s]) = 0  BY <3>2, <3>3 DEF Flowing
      <4> QED  BY <3>3, <4>1
    <3> HIDE DEF m
    <3>5. Shape(got[s], Append(channel[s], m))
      BY <3>2, <3>3, <3>4, ShapePut DEF Statuses
    <3>6. Conclusive(got[s], Append(channel[s], m))
      BY <3>3, LastOfChannel
    <3> QED  BY <1>w, <2>1, <2>3, <3>1, <3>5, <3>6 DEF FlowOf, Closed
  <2> QED  BY <2>2, <2>3
<1>3. ASSUME NEW kind \in {"event", "terminal"}, Send(s, kind) PROVE FlowOf(s)'
  <2>1. CASE ~Closed(s) /\ ~Full(s)
    BY <1>3, <2>1, HandedOverFlows DEF Send, Closed
  <2>2. CASE Closed(s) \/ Full(s)
    <3>1. /\ UNCHANGED <<client, got, made, verdict, supervisor, channel>>
          /\ body'[s] = "waiting" \/ client[s] # "reading"
          /\ body[s] = "running"
      BY <1>3, <2>2 DEF Send, Closed, callVars, supVars, TypeOK
    <3> QED  BY <1>0, <1>w, <3>1 DEF FlowOf
  <2> QED  BY <2>1, <2>2
<1>4. CASE SendResumes(s)
  <2>1. CASE Closed(s)
    <3>1. UNCHANGED <<client, got, made, verdict, supervisor, channel>>
      BY <1>4, <2>1 DEF SendResumes, callVars, supVars
    <3> QED  BY <1>0, <1>w, <2>1, <3>1 DEF FlowOf, Closed
  <2>2. CASE ~Closed(s)
    <3>1. wanted[s] \in {"event", "terminal"} /\ (wanted[s] = "event" => made[s] < Events)
      BY <1>4 DEF SendResumes, Wired, WiredStream, TypeOK
    <3> QED  BY <1>4, <2>2, <3>1, HandedOverFlows DEF SendResumes, Closed
  <2> QED  BY <2>1, <2>2
<1>5. CASE Stall(s)
  <2>1. /\ UNCHANGED <<client, got, channel, made, verdict, supervisor, thread>>
        /\ body'[s] = "leaving" /\ body[s] = "waiting" /\ reason'[thread[s]]
    BY <1>5 DEF Stall, callVars, supVars, TypeOK, Wired, WiredStream, OnThread
  <2> QED  BY <1>0, <1>w, <2>1 DEF FlowOf
<1>6. CASE Return(s)
  <2>1. /\ UNCHANGED <<client, got, channel, made, supervisor>>
        /\ body'[s] = "over"
        /\ verdict'[s] = "clean" => ~reason[thread[s]]
        /\ body[s] = "leaving" \/ (body[s] = "running" /\ made[s] = Events)
    BY <1>6 DEF Return, Leaves, callVars, supVars, TypeOK
  <2>2. client[s] = "reading" /\ ~reason[thread[s]] => Conclusive(got[s], channel[s])
    BY <1>0, <2>1 DEF FlowOf, Flowing, Conclusive
  <2> QED  BY <1>0, <1>w, <2>1, <2>2 DEF FlowOf
<1>7. CASE Panic(s)
  <2>1. /\ UNCHANGED <<client, got, channel, made, supervisor>>
        /\ body'[s] = "over" /\ verdict'[s] = "internal"
    BY <1>7 DEF Panic, Leaves, callVars, supVars, TypeOK
  <2> QED  BY <1>0, <1>w, <2>1 DEF FlowOf
<1> QED  BY <1>1, <1>2, <1>3, <1>4, <1>5, <1>6, <1>7 DEF BodySteps

LEMMA SupervisorFlows ==
  ASSUME Control, Flow, NEW s \in Streams, SupervisorSteps(s)
  PROVE  FlowOf(s)'
<1> USE DEF Control
<1>0. FlowOf(s)  BY DEF Flow
<1>w. /\ client[s] \notin {"idle", "rejected"}
      /\ supervisor[s] \in {"awaiting", "sending", "closing", "released"}
      /\ body[s] = "over"
  BY DEF SupervisorSteps, Supervise, Joined, Deliver, DropPermit, DropSender, Wired,
         WiredStream, TypeOK
<1>1. CASE Supervise(s)
  <2>1. /\ UNCHANGED <<client, got, channel, made, body, verdict>>
        /\ supervisor'[s] = IF verdict[s] = "clean" THEN "closing" ELSE "sending"
    BY <1>1 DEF Supervise, callVars, bodyVars, TypeOK
  <2> QED  BY <1>0, <1>w, <2>1 DEF FlowOf
<1>2. CASE Deliver(s)
  <2>1. /\ UNCHANGED <<client, got, made, body, verdict>> /\ supervisor'[s] = "closing"
    BY <1>2 DEF Deliver, callVars, bodyVars, TypeOK
  <2>2. CASE Closed(s)
    <3>1. UNCHANGED channel  BY <1>2, <2>2 DEF Deliver
    <3> QED  BY <1>0, <1>w, <2>1, <2>2, <3>1 DEF FlowOf, Closed
  <2>3. CASE ~Closed(s)
    <3> DEFINE m == [kind |-> verdict[s], n |-> 1]
    <3>1. Put(s, verdict[s], 1) /\ verdict[s] \in {"deadline", "internal"}
      BY <1>2, <2>3 DEF Deliver, Wired, WiredStream
    <3>2. channel'[s] = Append(channel[s], m)  BY <3>1, PutChannel
    <3>3. /\ got[s] \in Seq(Message) /\ channel[s] \in Seq(Message) /\ m \in Message
          /\ m.kind \in {"deadline", "internal"}
      <4>1. 1 \in 1..(Events + 1)  BY PoolAssumption
      <4>2. m \in Message  BY <3>1, <4>1 DEF Message, Statuses
      <4> QED  BY <3>1, <4>2 DEF TypeOK
    <3>4. Shape(got[s], channel[s])  BY <1>0, <2>3 DEF FlowOf, Closed
    <3> HIDE DEF m
    <3>5. Shape(got[s], Append(channel[s], m))
      BY <3>3, <3>4, ShapePut DEF Statuses
    <3>6. Conclusive(got[s], Append(channel[s], m))
      BY <3>3, LastOfChannel
    <3> QED  BY <1>w, <2>1, <2>3, <3>2, <3>5, <3>6 DEF FlowOf, Closed
  <2> QED  BY <2>2, <2>3
<1>3. CASE DropPermit(s) \/ DropSender(s)
  <2>1. /\ UNCHANGED <<client, got, channel, made, body, verdict>>
        /\ supervisor[s] \in {"closing", "released"}
    BY <1>3 DEF DropPermit, DropSender, callVars, bodyVars
  <2> QED  BY <1>0, <1>w, <2>1 DEF FlowOf
<1> QED  BY <1>1, <1>2, <1>3 DEF SupervisorSteps

LEMMA CallFlows ==
  ASSUME Control, Flow, NEW s \in Streams, Arrive(s) \/ SeeEnd(s) \/ Leave(s)
  PROVE  FlowOf(s)'
<1> USE DEF Control
<1>0. FlowOf(s)  BY DEF Flow
<1>1. CASE Admit(s)
  <2>1. /\ got'[s] = <<>> /\ channel'[s] = <<>> /\ made'[s] = 0
        /\ client'[s] = "reading" /\ body'[s] = "spawned" /\ supervisor'[s] = "awaiting"
        /\ verdict'[s] = "none"
    BY <1>0, <1>1 DEF Admit, FlowOf, Wired, WiredStream, TypeOK
  <2>2. Len(<<>>) = 0 /\ DOMAIN <<>> = {}  OBVIOUS
  <2>3. Shape(<<>>, <<>>)  BY <2>2 DEF Shape
  <2>4. Flowing(<<>>, <<>>, 0)  BY <2>2 DEF Flowing, FailedSeq
  <2> QED  BY <2>1, <2>3, <2>4 DEF FlowOf
<1>2. CASE TurnAway(s)
  <2>1. /\ client'[s] = "rejected" /\ client[s] = "idle"
        /\ UNCHANGED <<got, channel, made>>
    BY <1>2 DEF TurnAway, bodyVars, TypeOK
  <2> QED  BY <1>0, <2>1 DEF FlowOf
<1>3. CASE SeeEnd(s) \/ Leave(s)
  <2>1. client'[s] \in {"ok", "gone"} /\ channel'[s] = <<>>
    BY <1>3 DEF SeeEnd, Leave, TypeOK
  <2> QED  BY <2>1 DEF FlowOf
<1> QED  BY <1>1, <1>2, <1>3 DEF Arrive

LEMMA FlowStep == Control /\ Flow /\ [Next]_vars => Flow'
<1> SUFFICES ASSUME Control, Flow, [Next]_vars, NEW t \in Streams PROVE FlowOf(t)'
  BY DEF Flow
<1>0. FlowOf(t)  BY DEF Flow
<1>1. ASSUME NEW s \in Streams, StepOf(s) PROVE FlowOf(t)'
  <2>1. CASE s = t
    BY <1>1, <2>1, BodyFlows, SupervisorFlows, CallFlows, ReadFlows DEF StepOf, Receive
  <2>2. CASE s # t
    BY <1>0, <1>1, <2>2, OthersKept, KeptFlows
  <2> QED  BY <2>1, <2>2
<1>2. CASE UNCHANGED vars
  <2>1. Kept(t)  BY <1>2 DEF vars, callVars, bodyVars, supVars, Kept
  <2> QED  BY <1>0, <2>1, KeptFlows
<1> QED  BY <1>1, <1>2 DEF Next, StepOf

LEMMA FlowInit == Init => Flow
BY DEF Init, Flow, FlowOf

(* The control of a stream and the messages under way go along as Control  *)
(* and Flow say.                                                           *)
THEOREM Invariance == Spec => []IInv
<1>1. Init => IInv  BY ControlInit, FlowInit DEF IInv
<1>2. IInv /\ [Next]_vars => IInv'  BY ControlStep, FlowStep DEF IInv
<1> QED  BY <1>1, <1>2, PTL DEF Spec
-----------------------------------------------------------------------------
(* Each step is one of EventStreams', or nothing a client sees. *)
LEMMA ReadReceives ==
  ASSUME IInv, NEW s \in Streams, Read(s)
  PROVE  Calls!StreamsNext
<1> USE DEF IInv, Control
<1>1. /\ got[s] \in Seq(Message) /\ channel[s] \in Seq(Message) /\ channel[s] # <<>>
      /\ Shape(got[s], channel[s]) /\ client[s] = "reading"
  BY DEF Read, TypeOK, Flow, FlowOf
<1> DEFINE h == Head(channel[s])
<1>2. CASE h.kind \in Statuses
  <2>1. client' = [client EXCEPT ![s] = h.kind] /\ UNCHANGED got
    BY <1>2 DEF Read
  <2>2. h = channel[s][1] /\ 1 \in DOMAIN channel[s]  BY <1>1
  <2>3. h.kind = "refused" => got[s] = <<>>  BY <1>1, <2>2 DEF Shape
  <2> HIDE DEF h
  <2>4. Calls!Becomes(s, "reading", h.kind)  BY <1>1, <2>1 DEF Calls!Becomes
  <2>5. Calls!Ends(s)
    <3>1. CASE h.kind = "refused"  BY <2>3, <2>4, <3>1 DEF Calls!Ends
    <3>2. CASE h.kind \in {"deadline", "internal"}  BY <2>4, <3>2 DEF Calls!Ends
    <3> QED  BY <1>2, <3>1, <3>2 DEF Statuses
  <2> QED  BY <2>5 DEF Calls!StreamsNext
<1>3. CASE h.kind \notin Statuses
  <2>1. UNCHANGED client /\ got' = [got EXCEPT ![s] = Append(@, h)]
    BY <1>3 DEF Read
  <2>2. /\ h.n = Len(got[s]) + 1 /\ h.kind \in {"event", "terminal"}
        /\ h.kind = "event" => Len(got[s]) < Events
        /\ ~FailedSeq(got[s]) /\ h \in Message
    BY <1>1, <1>3, ShapeRead
  <2> HIDE DEF h
  <2>3. h = [kind |-> h.kind, n |-> Len(got[s]) + 1]  BY <2>2 DEF Message
  <2>4. ~Calls!Failed(s)  BY <2>2 DEF FailedSeq, Calls!Failed
  <2>5. Calls!Receives(s, h.kind)
    BY <1>1, <2>1, <2>2, <2>3, <2>4 DEF Calls!Receives
  <2> QED  BY <2>2, <2>5 DEF Calls!StreamsNext
<1> QED  BY <1>2, <1>3

LEMMA EndSeen ==
  ASSUME IInv, NEW s \in Streams, SeeEnd(s)
  PROVE  Calls!StreamsNext
<1> USE DEF IInv, Control
<1>1. got[s] \in Seq(Message) /\ client[s] = "reading" /\ channel[s] = <<>>
  BY DEF SeeEnd, TypeOK
<1>2. Conclusive(got[s], <<>>)  BY <1>1 DEF SeeEnd, SendersGone, Flow, FlowOf
<1>3. Len(<<>>) = 0 /\ DOMAIN <<>> = {} /\ Len(got[s]) \in Nat  BY <1>1
<1>4. Len(got[s]) = Events \/ FailedSeq(got[s])  BY <1>2, <1>3 DEF Conclusive
<1>5. Len(got[s]) = Events \/ Calls!Failed(s)  BY <1>4 DEF FailedSeq, Calls!Failed
<1>6. Calls!Becomes(s, "reading", "ok")  BY DEF SeeEnd, Calls!Becomes
<1> QED  BY <1>5, <1>6 DEF Calls!Ends, Calls!StreamsNext

LEMMA StreamStep == IInv /\ [Next]_vars => [Calls!StreamsNext]_Calls!streamVars
<1> SUFFICES ASSUME IInv, [Next]_vars PROVE [Calls!StreamsNext]_Calls!streamVars
  OBVIOUS
<1>1. ASSUME NEW s \in Streams, Arrive(s) PROVE Calls!StreamsNext
  BY <1>1 DEF Arrive, Admit, TurnAway, Calls!Becomes, Calls!StreamsNext
<1>2. ASSUME NEW s \in Streams, Leave(s) PROVE Calls!StreamsNext
  BY <1>2 DEF Leave, Calls!Becomes, Calls!Ends, Calls!StreamsNext
<1>3. ASSUME NEW s \in Streams, BodySteps(s) \/ Panic(s) \/ SupervisorSteps(s)
      PROVE  UNCHANGED Calls!streamVars
  BY <1>3 DEF BodySteps, Start, Refuse, Send, SendResumes, Stall, Return, Panic, Leaves,
       SupervisorSteps, Supervise, Deliver, DropPermit, DropSender, callVars,
       Calls!streamVars
<1>4. CASE UNCHANGED vars
  BY <1>4 DEF vars, callVars, Calls!streamVars
<1> QED
  BY <1>1, <1>2, <1>3, <1>4, ReadReceives, EndSeen DEF Next, Receive

LEMMA StreamStart == Init => Calls!StreamsInit
BY DEF Init, Calls!StreamsInit

(* Whatever stalls, panics, refusals and departures race, a client is told *)
(* what EventStreams promises: events in order and without a hole, nothing *)
(* after a terminal error, and OK only behind a whole stream or that error.*)
THEOREM StreamCorrect == Spec => IsEventStream
<1>1. Spec => Calls!StreamsInit /\ [][Calls!StreamsNext]_Calls!streamVars
  BY StreamStart, StreamStep, Invariance, PTL DEF Spec
<1> QED  BY <1>1 DEF IsEventStream, Calls!StreamsSpec
=============================================================================
