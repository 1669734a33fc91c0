------------------------- MODULE ArchiveInspection -------------------------
(***************************************************************************)
(* What store.open does before it lets calamine parse (src/archive.rs):    *)
(* inspect inflates the pictures and shared-string tables of a package     *)
(* into nothing, entry by entry, refuses the workbook once a count passes  *)
(* its limit, and estimates what every reader will hold, which is what the *)
(* store charges (reader_bytes of module WorkbookStore).                   *)
(*                                                                         *)
(* A picture is the bytes its reads give.  A table is the strings its      *)
(* reads give, each with its place in the XML or record around it, and the *)
(* uniqueCount its root declares.  A string is n characters, of one byte   *)
(* each in UTF-8, or of three ("wide"); an xlsb record holds UTF-16, an    *)
(* owned String of calamine's is UTF-8.                                    *)
(***************************************************************************)
EXTENDS Naturals, FiniteSets, Bounds

CONSTANTS
    MaxPicture,         \* InflateLimits::max_picture_bytes
    MaxPictureTotal,    \* InflateLimits::max_picture_total_bytes
    MaxSharedStrings,   \* InflateLimits::max_shared_strings_bytes
    ReadMax,            \* the most bytes one read gives: the sink's size
    Entries,            \* bound: entries of the package
    Lengths,            \* the characters a string may have
    Counts              \* the uniqueCounts a table may declare

ASSUME InflateAssumption ==
    /\ MaxPicture \in Nat /\ MaxPictureTotal \in Nat /\ MaxSharedStrings \in Nat
    /\ ReadMax \in Nat \ {0} /\ Entries \in Nat
    /\ Lengths \subseteq Nat /\ Counts \subseteq Nat

SharedStringTagCost == 16
SharedStringRecordCost == 48
SharedStringSlot == 24
MinSiBytes == 8

VARIABLES
    part,           \* what inspect is reading: a picture, a table, nothing
    entry,          \* index
    limit,          \* limit of the picture being read
    size,           \* bytes the part has given
    units,          \* tags or records of the table
    declares,       \* its uniqueCount, 0 also where it declares none
    media,          \* media_total
    strings,        \* strings_total
    verdict,        \* what inspect came to
    inflated,       \* history: bytes of pictures inflated
    table,          \* history: strings of this table and their heap blocks
    kept            \* history: what calamine keeps of the tables read

archiveVars == <<part, entry, limit, size, units, declares, media, strings,
                 verdict, inflated, table, kept>>

ArchiveInit ==
    /\ part = "none" /\ entry = 0 /\ limit = 0
    /\ size = 0 /\ units = 0 /\ declares = 0
    /\ media = 0 /\ strings = 0
    /\ verdict = "none"
    /\ inflated = 0
    /\ table = [strings |-> 0, heap |-> 0]
    /\ kept = [bytes |-> 0, plain |-> TRUE]


Reading(what) == verdict = "none" /\ part = what
MoreEntries == Reading("none") /\ entry < Entries
(* The counts of one part go with it. *)
NoPart ==
    /\ size' = 0 /\ units' = 0 /\ declares' = 0
    /\ table' = [strings |-> 0, heap |-> 0]

Refuse(why) ==
    /\ verdict' = why
    /\ part' = "none"

(* An entry that is neither, or that the zip reader cannot open. *)
SkipEntry ==
    /\ MoreEntries
    /\ entry' = entry + 1
    /\ UNCHANGED <<part, limit, size, units, declares, media, strings, verdict,
                   inflated, table, kept>>

-----------------------------------------------------------------------------
(* Pictures. *)
RoomOfTotal == MaxPictureTotal
Room == IF media > MaxPictureTotal THEN 0 ELSE MaxPictureTotal - media

StartPicture ==
    /\ MoreEntries
    /\ part' = "picture"
    /\ entry' = entry + 1
    /\ limit' = Lesser(MaxPicture, Room)
    /\ size' = 0
    /\ UNCHANGED <<units, declares, media, strings, verdict, inflated, table, kept>>

(* Which limit a picture passed: the test inspect makes. *)
PassedTotal == limit = Room
PassedOwn == limit = MaxPicture

ReadPicture(n) ==
    /\ Reading("picture")
    /\ size' = size + n
    /\ inflated' = inflated + n
    /\ IF size + n > limit
       THEN Refuse(IF PassedOwn THEN "Picture" ELSE "PictureTotal")
       ELSE UNCHANGED <<part, verdict>>
    /\ UNCHANGED <<entry, limit, units, declares, media, strings, table, kept>>

(* The picture's end, or a read that fails. *)
EndPicture ==
    /\ Reading("picture")
    /\ part' = "none"
    /\ media' = media + size
    /\ NoPart
    /\ UNCHANGED <<entry, limit, strings, verdict, inflated, kept>>

-----------------------------------------------------------------------------
(* Shared-string tables. *)
(* A root of 20 bytes, which are two tags or one record. *)
StartTable(kind) ==
    /\ MoreEntries
    /\ part' = kind
    /\ entry' = entry + 1
    /\ size' = 20
    /\ units' = IF kind = "xlsx" THEN 2 ELSE 1
    /\ declares' \in {0} \cup (IF kind = "xlsx" THEN Counts ELSE {})
    /\ table' = [strings |-> 0, heap |-> 0]
    /\ UNCHANGED <<limit, media, strings, verdict, inflated, kept>>

(* The UTF-8 of n characters, and its heap block, rounded up to 32; an     *)
(* empty String has none.                                                  *)
Utf8(n, wide) == IF wide THEN 3 * n ELSE n
HeapBlock(n, wide) == IF n = 0 THEN 0 ELSE Greater(32, Utf8(n, wide))

(* <si><t>...</t></si>: 16 bytes and 4 tags; or a record of 7 bytes. *)
StringBytes(n, wide) == IF part = "xlsx" THEN 16 + Utf8(n, wide) ELSE 7 + 2 * n
StringUnits == IF part = "xlsx" THEN 4 ELSE 1

ReadString(n, wide) ==
    LET total == size + StringBytes(n, wide) IN
    /\ verdict = "none" /\ part \in {"xlsx", "xlsb"}
    /\ size' = total
    /\ IF total > MaxSharedStrings
       THEN Refuse("SharedStrings") /\ UNCHANGED <<units, table, kept>>
       ELSE /\ units' = units + StringUnits
            /\ table' = [strings |-> table.strings + 1,
                         heap |-> table.heap + HeapBlock(n, wide)]
            /\ kept' = [kept EXCEPT !.plain = @ /\ ~(wide /\ part = "xlsb")]
            /\ UNCHANGED <<part, verdict>>
    /\ UNCHANGED <<entry, limit, declares, media, strings, inflated>>

EntryCostPerString == (units \div 4) * SharedStringTagCost
EntryCost ==
    units * (IF part = "xlsx" THEN SharedStringTagCost ELSE SharedStringRecordCost)

(* What the table is charged, parsed. *)
Parsed == Greater(size + EntryCost, declares * SharedStringSlot)

(* The strings calamine reserves slots for, then grows to if need be, and  *)
(* their blocks. *)
Keeps == SharedStringSlot * Greater(declares, table.strings) + table.heap

EndTable ==
    /\ verdict = "none" /\ part \in {"xlsx", "xlsb"}
    /\ IF declares > size \div MinSiBytes
       THEN Refuse("Malformed") /\ UNCHANGED <<strings, kept>>
       ELSE /\ part' = "none"
            /\ strings' = strings + Parsed
            /\ kept' = [bytes |-> kept.bytes + Keeps,
                        plain |-> kept.plain /\ declares <= table.strings]
            /\ UNCHANGED verdict
    /\ NoPart
    /\ UNCHANGED <<entry, limit, media, inflated>>

EndOfArchive ==
    /\ Reading("none")
    /\ verdict' = "Ok"
    /\ UNCHANGED <<part, entry, limit, size, units, declares, media, strings,
                   inflated, table, kept>>

ArchiveNext ==
    \/ SkipEntry
    \/ StartPicture \/ (\E n \in 1..ReadMax : ReadPicture(n)) \/ EndPicture
    \/ (\E kind \in {"xlsx", "xlsb"} : StartTable(kind))
    \/ (\E n \in Lengths, wide \in BOOLEAN : ReadString(n, wide))
    \/ EndTable
    \/ EndOfArchive

ArchiveSpec == ArchiveInit /\ [][ArchiveNext]_archiveVars
-----------------------------------------------------------------------------
ArchiveTypeOK ==
    /\ part \in {"none", "picture", "xlsx", "xlsb"}
    /\ entry \in 0..Entries
    /\ limit \in 0..Lesser(MaxPicture, MaxPictureTotal)
    /\ size \in Nat /\ units \in Nat
    /\ declares \in Counts \cup {0}
    /\ media \in 0..MaxPictureTotal
    /\ strings \in Nat
    /\ verdict \in {"none", "Ok", "Picture", "PictureTotal", "SharedStrings", "Malformed"}
    /\ inflated \in Nat
    /\ table \in [strings : Nat, heap : Nat]
    /\ kept \in [bytes : Nat, plain : BOOLEAN]

(* "The work this costs is bounded by the limits, never by the file": all  *)
(* the pictures of a package together inflate to one read more than their  *)
(* total at most, however many there are.                                  *)
PictureWorkBounded == inflated <= MaxPictureTotal + ReadMax

(* The limit a refusal names is one the workbook passes: a server with     *)
(* more of it gets further.                                                *)
HonestRefusal ==
    /\ verdict = "Picture" => size > MaxPicture
    /\ verdict = "PictureTotal" => media + size > MaxPictureTotal

(* Both limits on pictures, at once. *)
PictureLimitsHold == PictureWorkBounded /\ HonestRefusal

(* Every reader is charged what its string tables cost, over any number of *)
(* tables, where their counts declare no more than they hold and no xlsb   *)
(* text is longer in UTF-8.                                                *)
PlainTablesCovered ==
    kept.plain => kept.bytes <= strings

(* "An estimate, never below what the table can cost"                      *)
(* (Inflated::shared_strings_bytes).                                       *)
TablesCovered == kept.bytes <= strings
=============================================================================
