------------------------------- MODULE Server -------------------------------
(***************************************************************************)
(* The process around the streams (src/main.rs): run reads the settings    *)
(* and builds the runtime, serve answers until a signal, then drains: no   *)
(* call is taken any more and the calls under way go on to their end.      *)
(* When serve returns the runtime is dropped: its tasks go, what the       *)
(* blocking pool has not begun goes too, what it has begun is waited for.  *)
(*                                                                         *)
(* The streams are those of StreamPipeline.  One upload, from its spawned  *)
(* parse on, competes with them for the threads of the blocking pool, and  *)
(* is what else a client can be waiting for (module Upload has the rest).  *)
(***************************************************************************)
EXTENDS StreamPipeline

CONSTANT MaxCalls   \* bound: calls a server takes, streams and uploads

ASSUME CallsAssumption == MaxCalls \in Nat

VARIABLES
    process,        \* where run and serve are
    settings,       \* how many of the environment's settings are read
    uploader,       \* what the caller of OpenWorkbook has
    parse,          \* the parse of its workbook
    parser          \* the thread the parse runs on

serverVars == <<process, settings, uploader, parse, parser>>
allVars == <<vars, serverVars>>

(* GRPC_CALAMINE_WORKERS to GRPC_CALAMINE_WINDOW_BYTES, in the order read;  *)
(* the first two set up the runtime.                                       *)
Settings == 16
RuntimeSettings == 2

ServerInit ==
    /\ Init
    /\ process = "starting" /\ settings = 0
    /\ uploader = "idle" /\ parse = "none" /\ parser = NoThread

-----------------------------------------------------------------------------
(* env: unset gives the default, a value that does not parse ends run.     *)
ReadSetting ==
    /\ process = "starting" /\ settings < Settings
    /\ \E value \in {"unset", "parses", "does not parse"} :
        process' = IF value = "does not parse" THEN "failed" ELSE process
    /\ settings' = settings + 1
    /\ UNCHANGED <<vars, uploader, parse, parser>>

(* A runtime of no threads is refused where it is built. *)
BuildRuntime ==
    /\ process = "starting" /\ settings = RuntimeSettings
    /\ process' = "failed"
    /\ UNCHANGED <<vars, settings, uploader, parse, parser>>

Listen ==
    /\ process = "starting" /\ settings = Settings
    /\ process' \in {"up", "failed"}
    /\ UNCHANGED <<vars, settings, uploader, parse, parser>>

-----------------------------------------------------------------------------
Served == process \in {"up", "draining"}

(* A call is taken. *)
TakesCalls ==
    /\ process = "up"
    /\ Cardinality({s \in Streams : client[s] # "idle"})
        + (IF uploader = "idle" THEN 0 ELSE 1) < MaxCalls

(* A step of the streams: calls are taken only while the server is up,     *)
(* threads begin nothing and the tasks are gone once serve has returned.   *)
Streaming(s) ==
    /\ \/ TakesCalls /\ Arrive(s)
       \/ Served /\ (Start(s) \/ SupervisorSteps(s) \/ Receive(s) \/ Leave(s))
       \/ \/ Refuse(s) \/ (\E kind \in {"event", "terminal"} : Send(s, kind))
          \/ SendResumes(s) \/ Stall(s) \/ Return(s) \/ Panic(s)
    /\ parser # NoThread => thread'[s] # parser
    /\ UNCHANGED serverVars

Upload ==
    /\ TakesCalls /\ uploader = "idle"
    /\ uploader' = "waiting"
    /\ parse' = "queued"
    /\ UNCHANGED <<vars, process, settings, parser>>

StartParse == \E t \in Threads :
    /\ Served /\ parse = "queued"
    /\ Idle(t)
    /\ parse' = "running"
    /\ parser' = t
    /\ UNCHANGED <<vars, process, settings, uploader>>

EndParse ==
    /\ parse = "running"
    /\ parse' = "over"
    /\ parser' = NoThread
    /\ uploader' = IF uploader = "waiting" THEN "answered" ELSE uploader
    /\ UNCHANGED <<vars, process, settings>>

LeaveUpload ==
    /\ uploader = "waiting"
    /\ uploader' = "gone"
    /\ UNCHANGED <<vars, process, settings, parse, parser>>

-----------------------------------------------------------------------------
(* shutdown_signal resolves. *)
Signal ==
    /\ process = "up"
    /\ process' = "draining"
    /\ UNCHANGED <<vars, settings, uploader, parse, parser>>

DrainedAtOnce == process = "draining"
Drained ==
    /\ process = "draining"
    /\ \A s \in Streams : client[s] # "reading"
    /\ uploader # "waiting"

BodiesKept == UNCHANGED <<body, parse>>
UnbegunDropped ==
    /\ body' = [s \in Streams |-> IF body[s] = "spawned" THEN "over" ELSE body[s]]
    /\ parse' = IF parse = "queued" THEN "over" ELSE parse

(* serve returns and the runtime starts to go: the supervisors with what   *)
(* they hold, and what waits for a thread.                                 *)
ServeReturns ==
    /\ Drained
    /\ process' = "returned"
    /\ permits' = {}
    /\ supervisor' = [s \in Streams |->
            IF supervisor[s] = "none" THEN "none" ELSE "done"]
    /\ UnbegunDropped
    /\ UNCHANGED <<callVars, thread, made, wanted, reason, verdict, stalled,
                   channel, settings, uploader, parser>>

Exit ==
    /\ process = "returned"
    /\ \A t \in Threads : Idle(t) /\ parser # t
    /\ \A s \in Streams : body[s] # "spawned"
    /\ process' = "exited"
    /\ UNCHANGED <<vars, settings, uploader, parse, parser>>

Parsing == StartParse \/ EndParse
Ending == ServeReturns \/ Exit

ServerNext ==
    \/ ReadSetting \/ BuildRuntime \/ Listen
    \/ \E s \in Streams : Streaming(s)
    \/ Upload \/ LeaveUpload \/ Parsing
    \/ Signal \/ Ending

ServerSpec == ServerInit /\ [][ServerNext]_allVars

(* A runtime schedules its threads and tasks, calamine's parse ends; of    *)
(* clients and signals nothing is assumed.                                 *)
ServerFairSpec ==
    /\ ServerSpec
    /\ WF_allVars(Parsing) /\ WF_allVars(Ending)
    /\ \A s \in Streams :
        /\ WF_allVars(Streaming(s) /\ BodySteps(s))
        /\ WF_allVars(Streaming(s) /\ SupervisorSteps(s))
-----------------------------------------------------------------------------
(* "Streaming reads are capped ... so they can never ... leave uploads     *)
(* with none" (serve): not even as many streams as there are threads,      *)
(* whose clients have all stopped reading, keep a parse from beginning, or *)
(* else the server goes down first.                                        *)
UploadsGoOn == parse = "queued" ~> parse \in {"running", "over"}

(* "So open streams can drain" (shutdown_signal): a server that is told to *)
(* stop does, once every client reads to its end or leaves.  (One that     *)
(* stays and does not read keeps it.)                                      *)
ShutsDown ==
    (\A s \in Streams : WF_allVars(Streaming(s) /\ Receive(s)))
        => (process = "draining" ~> process = "exited")

(* StreamsEnd, for a server that may be told to stop meanwhile: no stream  *)
(* is cut.                                                                 *)
StreamsDrain ==
    \A s \in Streams :
        WF_allVars(Streaming(s) /\ Receive(s))
            => (client[s] = "reading" ~> client[s] \in Ended)
=============================================================================
