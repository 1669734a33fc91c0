---------------------------- MODULE OpenWorkbook ----------------------------
(***************************************************************************)
(* store.open and what open_workbook answers of it (src/store.rs,          *)
(* src/service.rs): a hint the server refuses is refused first; then the   *)
(* package is measured, room is reserved, the probe is opened in the hint  *)
(* or in the formats the server accepts, what the probe tells is read, and *)
(* the workbook is registered with the probe parked as its first reader.   *)
(* Later readers open the same bytes in the format the probe came to.      *)
(*                                                                         *)
(* Of the file it matters what it opens as; measuring, reserving, and what *)
(* calamine is asked after the open, have either outcome (modules          *)
(* ArchiveInspection and WorkbookStore say which).                         *)
(***************************************************************************)
EXTENDS Naturals, Sequences, Functions

CONSTANTS
    Readers,        \* bound: readers opened after the probe
    Words           \* bound: words of GRPC_CALAMINE_FORMATS

ASSUME OpenAssumption == Readers \in Nat /\ Words \in Nat

Formats == {"xlsx", "xlsb", "xls", "ods"}
DETECTION_ORDER == <<"xls", "xlsx", "xlsb", "ods">>
LISTED_ORDER == <<"xlsx", "xlsb", "xls", "ods">>
Unspecified == "unspecified"

VARIABLES
    formats,        \* the formats the store accepts
    hint,           \* format_hint
    file,           \* the formats the bytes open as
    stage,          \* where open is
    reservation,    \* the room taken for the workbook
    probed,         \* the format of the probe
    given,          \* history: the formats calamine was given the bytes as
    answer          \* the status of the call

openVars == <<formats, hint, file, stage, reservation, probed, given, answer>>

OpenInit ==
    /\ formats = {} /\ hint = Unspecified /\ file = {}
    /\ stage = "none"
    /\ reservation = "none"
    /\ probed = Unspecified
    /\ given = <<>>
    /\ answer = "none"

-----------------------------------------------------------------------------
(* FormatSet::from_str: the words of the list that are not empty must be   *)
(* names of formats, and one of them must be there.  {} is its error.      *)
Accepted(list) ==
    LET words == Range(list) \ {""} IN
    IF words \subseteq Formats THEN words ELSE {}

(* What the bytes may be opened as.  Where formats is every format and     *)
(* nothing is asked for, open_as leaves it to calamine's auto-detection,   *)
(* whose order is the same.                                                *)
CandidatesOfAll == IF hint = Unspecified THEN Formats ELSE {hint}
Candidates == IF hint = Unspecified THEN formats ELSE {hint}

(* detect_accepted goes along the order of detection. *)
PrecedesListed(f, g) ==
    \E i, j \in DOMAIN LISTED_ORDER :
        i < j /\ LISTED_ORDER[i] = f /\ LISTED_ORDER[j] = g
Precedes(f, g) ==
    \E i, j \in DOMAIN DETECTION_ORDER :
        i < j /\ DETECTION_ORDER[i] = f /\ DETECTION_ORDER[j] = g

(* A server is set up and a client uploads a file. *)
Call == \E n \in 0..Words : \E list \in [1..n -> Formats \cup {"", "other"}] :
    /\ stage = "none"
    /\ Accepted(list) # {}
    /\ formats' = Accepted(list)
    /\ hint' \in Formats \cup {Unspecified}
    /\ file' \in SUBSET Formats
    /\ stage' = "hint"
    /\ UNCHANGED <<reservation, probed, given, answer>>

Answer(status) == stage' = "answered" /\ answer' = status

(* The reservation is dropped, registered or not. *)
KeptAfterFailure == UNCHANGED reservation
GivenBack == reservation' = "none"

-----------------------------------------------------------------------------
TakeHint ==
    /\ stage = "hint"
    /\ IF hint # Unspecified /\ hint \notin formats
       THEN Answer("failed precondition")
       ELSE stage' = "measure" /\ UNCHANGED answer
    /\ UNCHANGED <<formats, hint, file, reservation, probed, given>>

(* archive::inspect: within the limits, past one, or inconsistent. *)
Inspect ==
    /\ stage = "measure"
    /\ \/ stage' = "reserve" /\ UNCHANGED answer
       \/ Answer("resource exhausted")
       \/ Answer("invalid argument")
    /\ UNCHANGED <<formats, hint, file, reservation, probed, given>>

Reserve ==
    /\ stage = "reserve"
    /\ \/ stage' = "probe" /\ reservation' = "held" /\ UNCHANGED answer
       \/ Answer("resource exhausted") /\ UNCHANGED reservation
    /\ UNCHANGED <<formats, hint, file, probed, given>>

Untried == Candidates \ Range(given)

(* open_as of the next candidate; the first that opens is the probe. *)
OpenAs == \E f \in Untried :
    /\ stage = "probe"
    /\ \A g \in Untried \ {f} : Precedes(f, g)
    /\ given' = Append(given, f)
    /\ IF f \in file
       THEN probed' = f /\ stage' = "metadata"
       ELSE UNCHANGED <<probed, stage>>
    /\ UNCHANGED <<formats, hint, file, reservation, answer>>

(* None opens: Unreadable, or NoAcceptedFormat. *)
NoFormat ==
    /\ stage = "probe" /\ Untried = {}
    /\ Answer("invalid argument")
    /\ GivenBack
    /\ UNCHANGED <<formats, hint, file, probed, given>>

(* workbook_properties of xlsx and xlsb, then declared_tables of xlsx. *)
ReadMetadata ==
    /\ stage = "metadata"
    /\ \/ stage' = "register" /\ UNCHANGED <<reservation, answer>>
       \/ /\ probed \in {"xlsx", "xlsb"}
          /\ Answer("invalid argument") /\ GivenBack
    /\ UNCHANGED <<formats, hint, file, probed, given>>

(* calamine panics, in an open or after it: the join tells. *)
PanicInOpen ==
    /\ stage \in {"probe", "metadata"}
    /\ Answer("internal")
    /\ GivenBack
    /\ UNCHANGED <<formats, hint, file, probed, given>>

(* The probe is parked and the workbook registered. *)
Register ==
    /\ stage = "register"
    /\ Answer("ok")
    /\ reservation' = "registered"
    /\ UNCHANGED <<formats, hint, file, probed, given>>

(* WorkbookEntry::reader, where no reader is parked. *)
Recorded == probed
Reader ==
    /\ answer = "ok" /\ Len(given) < Len(DETECTION_ORDER) + Readers
    /\ given' = Append(given, Recorded)
    /\ UNCHANGED <<formats, hint, file, stage, reservation, probed, answer>>

OpenNext ==
    \/ Call \/ TakeHint \/ Inspect \/ Reserve
    \/ OpenAs \/ NoFormat \/ ReadMetadata \/ PanicInOpen \/ Register
    \/ Reader

OpenSpec == OpenInit /\ [][OpenNext]_openVars
-----------------------------------------------------------------------------
(* "A refused format is never handed to calamine at all" (FormatSet):      *)
(* neither as a hint, nor while detecting, nor by a later reader, however  *)
(* the list that set the server up is written.                             *)
RefusedNeverGiven == Range(given) \subseteq formats

(* "Both checked before calamine parses anything" (WorkbookStore::open):   *)
(* calamine has the bytes only under a reservation, given back on each way *)
(* to fail, and an answer that names a limit or a format came before.      *)
ChargedWhileParsed ==
    /\ stage \in {"probe", "metadata", "register"} <=> reservation = "held"
    /\ answer = "ok" <=> reservation = "registered"
    /\ answer \in {"resource exhausted", "failed precondition"} => given = <<>>

(* So what a client uploads meets every check of the store before calamine *)
(* has it.                                                                 *)
CheckedBeforeParsed == RefusedNeverGiven /\ ChargedWhileParsed

(* Accepting fewer formats changes no answer but to a refusal: what a file *)
(* is detected as is the format a server that accepts every format that    *)
(* opens no earlier would come to, and later readers open it as that.      *)
DetectedAsEverywhere ==
    answer = "ok" =>
        /\ probed \in file
        /\ hint # Unspecified => probed = hint
        /\ hint = Unspecified =>
            \A i, j \in DOMAIN DETECTION_ORDER :
                /\ DETECTION_ORDER[i] \in file \cap formats
                /\ DETECTION_ORDER[j] = probed
                => j <= i
        /\ given[Len(given)] = probed
=============================================================================
