----------------------------- MODULE ItemStream -----------------------------
(***************************************************************************)
(* StreamVbaProject and GetPictures (src/service.rs): items sent one       *)
(* event each.  An item that cannot be read, or that would not fit one     *)
(* frame, is answered with an in-band error that does not end the stream.  *)
(*                                                                         *)
(* Sizes are what an event encodes to.                                     *)
(***************************************************************************)
EXTENDS Naturals, Sequences

CONSTANTS
    Rpcs,           \* a subset of {"vba", "pictures"}
    FrameLimit,     \* MAX_FRAME_BYTES
    ItemSizes,      \* what an item's event may encode to
    MaxItems        \* bound: items of a workbook

ASSUME FrameAssumption ==
    FrameLimit \in Nat \ {0} /\ ItemSizes \subseteq Nat /\ MaxItems \in Nat

Unreadable == [size |-> 0, readable |-> FALSE]
Readable(size) == [size |-> size, readable |-> TRUE]
ItemLists == UNION {[1..n -> {Unreadable} \cup {Readable(s) : s \in ItemSizes}] : n \in 0..MaxItems}

VARIABLES
    rpc,
    itemsOf,        \* the workbook's modules or pictures
    stageOf,        \* how far the body is, or what it came to
    next,           \* the item the loop is at
    events          \* what was sent

itemVars == <<rpc, itemsOf, stageOf, next, events>>

Event(kind, size) == [kind |-> kind, item |-> 0, size |-> size, terminal |-> FALSE]
StreamError(terminal) == [kind |-> "error", item |-> 0, size |-> 1, terminal |-> terminal]

(* GetPictures reads images calamine holds in memory. *)
ItemInit ==
    /\ rpc \in Rpcs
    /\ itemsOf \in ItemLists
    /\ rpc = "pictures" => \A i \in DOMAIN itemsOf : itemsOf[i].readable
    /\ stageOf = "start" /\ next = 1 /\ events = <<>>

Finish(how, what) ==
    /\ stageOf' = how
    /\ events' = events \o what
    /\ UNCHANGED <<rpc, itemsOf, next>>

(* checkout: by status, or in band where calamine cannot re-open. *)
ReaderRefused ==
    /\ stageOf = "start"
    /\ \/ Finish("exhausted", <<>>)
       \/ Finish("failed", <<StreamError(TRUE)>>)

(* vba_project: none there, unreadable, or a header that lists the modules *)
(* and references, of whatever size.                                       *)
NoProject ==
    /\ stageOf = "start" /\ rpc = "vba" /\ itemsOf = <<>>
    /\ Finish("ended", <<Event("absent", 1)>>)
ProjectFails ==
    /\ stageOf = "start" /\ rpc = "vba"
    /\ Finish("failed", <<StreamError(TRUE)>>)
Begin ==
    /\ stageOf = "start"
    /\ stageOf' = "items"
    /\ IF rpc = "vba" THEN \E size \in ItemSizes : events' = <<Event("info", size)>>
       ELSE UNCHANGED events
    /\ UNCHANGED <<rpc, itemsOf, next>>

(* within_frame. *)
WithinFrame(event) == IF event.size <= FrameLimit THEN event ELSE StreamError(FALSE)

(* An item's event, and what the loop does after one. *)
Result(item, i) ==
    IF item.readable THEN WithinFrame([Event("item", item.size) EXCEPT !.item = i])
    ELSE StreamError(FALSE)
SkipSilently(i) ==
    /\ events' = IF Result(itemsOf[i], i).kind = "item"
                 THEN Append(events, Result(itemsOf[i], i)) ELSE events
    /\ next' = i + 1
Tell(i) ==
    /\ events' = Append(events, Result(itemsOf[i], i))
    /\ next' = i + 1

SendItem ==
    /\ stageOf = "items" /\ next <= Len(itemsOf)
    /\ Tell(next)
    /\ UNCHANGED <<rpc, itemsOf, stageOf>>

AllItemsSent ==
    /\ stageOf = "items" /\ next > Len(itemsOf)
    /\ Finish("ended", <<>>)

(* send_event finds the client gone, or stalled for too long. *)
ClientLeft ==
    /\ stageOf \in {"start", "items"}
    /\ Finish("gone", <<>>)

ItemNext ==
    \/ ReaderRefused \/ NoProject \/ ProjectFails \/ Begin
    \/ SendItem \/ AllItemsSent \/ ClientLeft

ItemSpec == ItemInit /\ [][ItemNext]_itemVars
-----------------------------------------------------------------------------
HeaderCount == IF rpc = "vba" THEN 1 ELSE 0
Answers == SubSeq(events, HeaderCount + 1, Len(events))

(* The k-th event after the header is about the k-th module or picture, so *)
(* a client can tell which one an error stands for; an item that is sound  *)
(* and fits comes through whatever its neighbours are, and a stream that   *)
(* ends well has answered for all.                                         *)
ItemsAnswered ==
    LET whole(i) == itemsOf[i].readable /\ itemsOf[i].size <= FrameLimit IN
    stageOf \in {"items", "ended"} =>
        /\ \A k \in DOMAIN Answers :
            IF whole(k) THEN Answers[k].item = k
            ELSE Answers[k].kind = "error" /\ ~Answers[k].terminal
        /\ stageOf = "ended" => Len(Answers) = Len(itemsOf)

=============================================================================
