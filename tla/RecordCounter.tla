--------------------------- MODULE RecordCounter ---------------------------
(***************************************************************************)
(* RecordCounter (src/archive.rs): counts the records of an xlsb stream    *)
(* that is fed to it in pieces, wherever the pieces are cut.  A record is  *)
(* a type of one or two bytes, a length of one to four bytes, least        *)
(* significant first, and that many bytes of payload.  The high bit of the *)
(* first type byte, or of a length byte, asks for another.                 *)
(*                                                                         *)
(* A byte is its high bit and the rest, of which only the size of its      *)
(* range matters: Base instead of 128.                                     *)
(***************************************************************************)
EXTENDS Naturals, Sequences

CONSTANTS
    Base,           \* the values of a byte without its high bit
    PieceMax,       \* the most bytes one read gives
    StreamMax       \* bound: bytes fed before the stream ends

ASSUME ByteAssumption ==
    Base \in Nat \ {0} /\ PieceMax \in Nat \ {0} /\ StreamMax \in Nat

Byte == [more : BOOLEAN, low : 0..(Base - 1)]
LengthBytes == 4

(* What one more of length byte i is worth: 7 * read bits to the left. *)
PlaceValue == <<1, Base, Base * Base, Base * Base * Base>>

VARIABLES
    records,        \* RecordCounter::records
    at,             \* RecordCounter::state
    count,          \* `read` of RecordState::Length
    left,           \* `len` of Length, or what Payload has left to skip
    rest,           \* the bytes feed has not looked at yet
    fed             \* history: all that was fed

counterVars == <<records, at, count, left>>
rcVars == <<counterVars, rest, fed>>

RCInit ==
    /\ records = 0
    /\ at = "type" /\ count = 0 /\ left = 0
    /\ rest = <<>> /\ fed = <<>>

(* feed is called with the next piece of the stream. *)
Feed == \E n \in 1..PieceMax : \E piece \in [1..n -> Byte] :
    /\ rest = <<>>
    /\ Len(fed) + n <= StreamMax
    /\ rest' = piece
    /\ fed' = fed \o piece
    /\ UNCHANGED counterVars

SkipPayload ==
    LET skip == IF left < Len(rest) THEN left ELSE Len(rest) IN
    /\ rest # <<>> /\ at = "payload"
    /\ rest' = SubSeq(rest, skip + 1, Len(rest))
    /\ left' = left - skip
    /\ at' = IF left = skip THEN "type" ELSE "payload"
    /\ UNCHANGED <<records, count, fed>>

(* One byte of a header: the loop takes it off the front. *)
TakeByte == rest # <<>> /\ rest' = Tail(rest) /\ UNCHANGED fed

ReadType ==
    /\ at = "type" /\ TakeByte
    /\ at' = IF Head(rest).more THEN "second" ELSE "length"
    /\ UNCHANGED <<records, count, left>>

ReadSecondType ==
    /\ at = "second" /\ TakeByte
    /\ at' = "length"
    /\ UNCHANGED <<records, count, left>>

AsksForMoreUpToThree(byte) == byte.more /\ count < LengthBytes - 2
AsksForMore(byte) == byte.more /\ count < LengthBytes - 1
AfterHeader(length) == IF length = 0 THEN "type" ELSE "payload"

ReadLength ==
    LET byte == Head(rest)
        length == left + byte.low * PlaceValue[count + 1] IN
    /\ at = "length" /\ TakeByte
    /\ left' = length
    /\ IF AsksForMore(byte)
       THEN count' = count + 1 /\ UNCHANGED <<at, records>>
       ELSE /\ records' = records + 1
            /\ at' = AfterHeader(length)
            /\ count' = 0

RCNext == Feed \/ SkipPayload \/ ReadType \/ ReadSecondType \/ ReadLength

RCSpec == RCInit /\ [][RCNext]_rcVars
-----------------------------------------------------------------------------
(***************************************************************************)
(* The format, read over a whole stream s at once.                         *)
(***************************************************************************)
LengthAt(s, p) == IF s[p].more THEN p + 2 ELSE p + 1

(* The last byte of the length that begins at q; 0 when s is cut before. *)
EndsLength(s, q, e) ==
    e <= Len(s) /\ (~s[e].more \/ e = q + LengthBytes - 1)
LastOfLength(s, q) ==
    LET stops == {e \in q..(q + LengthBytes - 1) : EndsLength(s, q, e)} IN
    IF stops = {} THEN 0 ELSE CHOOSE e \in stops : \A f \in stops : e <= f

(* What the n length bytes from q on are worth. *)
Digit(s, q, n, i) == IF i > n THEN 0 ELSE s[q + i - 1].low * PlaceValue[i]
LengthValue(s, q, n) ==
    Digit(s, q, n, 1) + Digit(s, q, n, 2) + Digit(s, q, n, 3) + Digit(s, q, n, 4)

(* Where the record after the one of byte p begins; 0 when p's header is cut. *)
NextRecord(s, p) ==
    LET q == LengthAt(s, p)
        e == LastOfLength(s, q) IN
    IF e = 0 THEN 0 ELSE e + LengthValue(s, q, e - q + 1) + 1

(* The headers that are complete from byte p on. *)
HeadersFrom(s, p) ==
    LET next == [x \in 1..Len(s) |-> NextRecord(s, x)]
        from[x \in 1..Len(s)] ==
            IF next[x] = 0 THEN 0
            ELSE 1 + (IF next[x] > Len(s) THEN 0 ELSE from[next[x]]) IN
    IF p > Len(s) THEN 0 ELSE from[p]

(* The count does not depend on where the pieces are cut: it is the number *)
(* of record headers a reader of the whole stream would come to.  "Bytes   *)
(* still to skip, never zero" (RecordState::Payload).                      *)
CountsRecords ==
    /\ at = "payload" => left > 0
    /\ rest = <<>> => records = HeadersFrom(fed, 1)
=============================================================================
