--------------------------- MODULE ArchiveProofs ---------------------------
(***************************************************************************)
(* What runs between an upload and its workbook, for any limits, reads and *)
(* packages: what pictures may cost, who is told of which limit, that the  *)
(* estimate covers plain tables; that nothing is parsed before it is       *)
(* checked, and as what; that records are counted wherever reads cut; and  *)
(* that the count a plain head declares is read as a parser reads it.      *)
(***************************************************************************)
EXTENDS ArchiveInspection, OpenWorkbook, RecordCounter, TableHead,
        NumberLemmas, SequenceTheorems, TLAPS

InTable == part \in {"xlsx", "xlsb"}

(* All that pictures inflated to is in media_total, or in this picture.    *)
PictureInv ==
    /\ verdict = "none" /\ part = "picture" =>
        /\ limit = Lesser(MaxPicture, Room)
        /\ size <= limit
        /\ inflated <= media + size
    /\ verdict = "none" /\ part # "picture" => inflated <= media
    /\ PictureLimitsHold

(* The bytes and tags of a table so far pay for the strings so far.        *)
TableInv ==
    /\ InTable /\ kept.plain =>
        SharedStringSlot * table.strings + table.heap <= size + EntryCost
    /\ PlainTablesCovered

IInv == ArchiveTypeOK /\ PictureInv /\ TableInv
-----------------------------------------------------------------------------
LEMMA LesserIs ==
  ASSUME NEW m \in Nat, NEW n \in Nat
  PROVE  /\ Lesser(m, n) \in Nat /\ Lesser(m, n) <= m /\ Lesser(m, n) <= n
         /\ Lesser(m, n) = m \/ Lesser(m, n) = n
BY DEF Lesser

LEMMA GreaterIs ==
  ASSUME NEW m \in Nat, NEW n \in Nat
  PROVE  /\ Greater(m, n) \in Nat /\ m <= Greater(m, n) /\ n <= Greater(m, n)
         /\ Greater(m, n) <= m + n
         /\ Greater(m, n) = m \/ Greater(m, n) = n
BY DEF Greater

LEMMA RoomIs == ASSUME ArchiveTypeOK PROVE Room \in Nat /\ media + Room = MaxPictureTotal
BY InflateAssumption DEF ArchiveTypeOK, Room

(* A string's block and slot are no more than its bytes and its tags or    *)
(* record are charged: 16 bytes of XML around it and 4 tags, or 7 bytes and *)
(* one record.  That takes a block of 32 and a text of one byte at least.  *)
LEMMA StringPaid ==
  ASSUME InTable, NEW n \in Nat, NEW wide \in BOOLEAN, ~(wide /\ part = "xlsb")
  PROVE  /\ HeapBlock(n, wide) \in Nat /\ StringBytes(n, wide) \in Nat
         /\ SharedStringSlot + HeapBlock(n, wide) <=
                StringBytes(n, wide) + StringUnits *
                (IF part = "xlsx" THEN SharedStringTagCost ELSE SharedStringRecordCost)
<1>1. Utf8(n, wide) \in Nat /\ n <= Utf8(n, wide)  BY DEF Utf8
<1>2. /\ HeapBlock(n, wide) \in Nat /\ HeapBlock(n, wide) <= 32 + Utf8(n, wide)
      /\ n = 0 => HeapBlock(n, wide) = 0
  <2>1. Greater(32, Utf8(n, wide)) \in Nat /\ Greater(32, Utf8(n, wide)) <= 32 + Utf8(n, wide)
    BY <1>1, GreaterIs
  <2> QED  BY <1>1, <2>1 DEF HeapBlock
<1>3. CASE part = "xlsx"
  <2>1. /\ StringBytes(n, wide) = 16 + Utf8(n, wide) /\ SharedStringSlot = 24
        /\ StringUnits * (IF part = "xlsx" THEN SharedStringTagCost
                                           ELSE SharedStringRecordCost) = 64
    BY <1>3 DEF StringBytes, StringUnits, SharedStringSlot, SharedStringTagCost
  <2> QED  BY <1>1, <1>2, <2>1
<1>4. CASE part = "xlsb"
  <2>1. /\ StringBytes(n, wide) = 7 + 2 * n /\ SharedStringSlot = 24
        /\ StringUnits * (IF part = "xlsx" THEN SharedStringTagCost
                                           ELSE SharedStringRecordCost) = 48
    BY <1>4 DEF StringBytes, StringUnits, SharedStringSlot, SharedStringRecordCost
  <2>2. HeapBlock(n, wide) <= 31 + 2 * n
    <3>1. CASE n = 0  BY <1>2, <3>1
    <3>2. CASE n # 0
      <4>1. Utf8(n, wide) = n  BY <1>4 DEF Utf8
      <4> QED  BY <1>2, <3>2, <4>1
    <3> QED  BY <3>1, <3>2
  <2> QED  BY <1>2, <2>1, <2>2
<1> QED  BY <1>3, <1>4 DEF InTable

LEMMA CostIs ==
  ASSUME ArchiveTypeOK
  PROVE  /\ EntryCost \in Nat /\ Parsed \in Nat /\ size + EntryCost <= Parsed
<1>1. EntryCost \in Nat
  BY DEF ArchiveTypeOK, EntryCost, SharedStringTagCost, SharedStringRecordCost
<1>2. declares * SharedStringSlot \in Nat /\ size + EntryCost \in Nat
  BY <1>1, InflateAssumption DEF ArchiveTypeOK, SharedStringSlot
<1> QED  BY <1>1, <1>2, GreaterIs DEF Parsed
-----------------------------------------------------------------------------
LEMMA InspectionStarts == ArchiveInit => IInv
<1> SUFFICES ASSUME ArchiveInit PROVE IInv
  OBVIOUS
<1>1. Lesser(MaxPicture, MaxPictureTotal) \in Nat  BY InflateAssumption, LesserIs
<1>2. ArchiveTypeOK
  BY <1>1, InflateAssumption DEF ArchiveInit, ArchiveTypeOK
<1>3. PictureInv
  BY InflateAssumption
  DEF ArchiveInit, PictureInv, PictureLimitsHold, PictureWorkBounded, HonestRefusal
<1>4. TableInv  BY DEF ArchiveInit, TableInv, InTable, PlainTablesCovered
<1> QED  BY <1>2, <1>3, <1>4 DEF IInv

(* Steps that touch no count. *)
LEMMA QuietStep ==
  ASSUME IInv, SkipEntry \/ EndOfArchive \/ UNCHANGED archiveVars
  PROVE  IInv'
<1>1. /\ UNCHANGED <<part, limit, size, units, declares, media, strings, inflated, table, kept>>
      /\ entry' \in 0..Entries
      /\ \/ verdict' = verdict
         \/ verdict = "none" /\ part = "none" /\ verdict' = "Ok"
  BY InflateAssumption
  DEF SkipEntry, EndOfArchive, archiveVars, Reading, MoreEntries, IInv, ArchiveTypeOK
<1>2. ArchiveTypeOK'  BY <1>1 DEF IInv, ArchiveTypeOK
<1>3. PictureInv'
  BY <1>1 DEF IInv, PictureInv, PictureLimitsHold, PictureWorkBounded, HonestRefusal, Room
<1>4. TableInv'
  BY <1>1 DEF IInv, TableInv, InTable, EntryCost, PlainTablesCovered
<1> QED  BY <1>2, <1>3, <1>4 DEF IInv

LEMMA PictureStarts == ASSUME IInv, StartPicture PROVE IInv'
<1> USE DEF IInv
<1>1. /\ part' = "picture" /\ entry' \in 0..Entries /\ limit' = Lesser(MaxPicture, Room)
      /\ size' = 0 /\ verdict = "none" /\ part = "none"
      /\ UNCHANGED <<units, declares, media, strings, verdict, inflated, table, kept>>
  BY InflateAssumption DEF StartPicture, MoreEntries, Reading, ArchiveTypeOK
<1>2. Room \in Nat /\ media + Room = MaxPictureTotal  BY RoomIs
<1>3. limit' \in Nat /\ limit' <= MaxPicture /\ limit' <= MaxPictureTotal
  BY <1>1, <1>2, LesserIs, InflateAssumption DEF ArchiveTypeOK
<1>4. limit' \in 0..Lesser(MaxPicture, MaxPictureTotal)
  BY <1>3, InflateAssumption DEF Lesser
<1>5. ArchiveTypeOK'  BY <1>1, <1>4 DEF ArchiveTypeOK
<1>6. PictureInv'
  BY <1>1, <1>3 DEF PictureInv, PictureLimitsHold, PictureWorkBounded, HonestRefusal,
                    Room, ArchiveTypeOK
<1>7. TableInv'  BY <1>1 DEF TableInv, InTable, PlainTablesCovered
<1> QED  BY <1>5, <1>6, <1>7

LEMMA PictureRead == ASSUME IInv, NEW n \in 1..ReadMax, ReadPicture(n) PROVE IInv'
<1> USE DEF IInv
<1>1. /\ verdict = "none" /\ part = "picture"
      /\ size' = size + n /\ inflated' = inflated + n
      /\ UNCHANGED <<entry, limit, units, declares, media, strings, table, kept>>
  BY DEF ReadPicture, Reading
<1>2. Room \in Nat /\ media + Room = MaxPictureTotal  BY RoomIs
<1>3. /\ n \in Nat /\ n <= ReadMax /\ size \in Nat /\ media \in Nat /\ limit \in Nat
      /\ inflated \in Nat
  BY LesserIs, InflateAssumption DEF ArchiveTypeOK
<1>4. /\ limit = Lesser(MaxPicture, Room) /\ size <= limit /\ inflated <= media + size
  BY <1>1 DEF PictureInv
<1>5. limit <= Room /\ (limit = MaxPicture \/ limit = Room)
  BY <1>2, <1>4, LesserIs, InflateAssumption
<1>6. inflated' <= MaxPictureTotal + ReadMax
  BY <1>1, <1>2, <1>3, <1>4, <1>5, InflateAssumption
<1>7. CASE size + n > limit
  <2>1. part' = "none" /\ verdict' = IF limit = MaxPicture THEN "Picture" ELSE "PictureTotal"
    BY <1>7 DEF ReadPicture, Refuse, PassedOwn
  <2>2. ArchiveTypeOK'  BY <1>1, <1>3, <2>1 DEF ArchiveTypeOK
  <2>3. HonestRefusal'
    <3>1. CASE limit = MaxPicture  BY <1>1, <1>7, <2>1, <3>1 DEF HonestRefusal
    <3>2. CASE limit # MaxPicture
      <4>1. media + (size + n) > MaxPictureTotal  BY <1>2, <1>3, <1>5, <1>7, <3>2
      <4> QED  BY <1>1, <2>1, <3>2, <4>1 DEF HonestRefusal
    <3> QED  BY <3>1, <3>2
  <2>4. PictureInv'
    BY <1>6, <2>1, <2>3 DEF PictureInv, PictureLimitsHold, PictureWorkBounded
  <2>5. TableInv'  BY <1>1, <2>1 DEF TableInv, InTable, PlainTablesCovered
  <2> QED  BY <2>2, <2>4, <2>5
<1>8. CASE ~(size + n > limit)
  <2>1. UNCHANGED <<part, verdict>>  BY <1>8 DEF ReadPicture
  <2>2. ArchiveTypeOK'  BY <1>1, <1>3, <2>1 DEF ArchiveTypeOK
  <2>3. size' <= limit' /\ inflated' <= media' + size' /\ Room' = Room
    BY <1>1, <1>3, <1>4, <1>8 DEF Room
  <2>4. PictureInv'
    BY <1>1, <1>4, <1>6, <2>1, <2>3
    DEF PictureInv, PictureLimitsHold, PictureWorkBounded, HonestRefusal
  <2>5. TableInv'  BY <1>1, <2>1 DEF TableInv, InTable, PlainTablesCovered
  <2> QED  BY <2>2, <2>4, <2>5
<1> QED  BY <1>7, <1>8

LEMMA PictureEnds == ASSUME IInv, EndPicture PROVE IInv'
<1> USE DEF IInv
<1>1. /\ verdict = "none" /\ part = "picture" /\ part' = "none" /\ media' = media + size
      /\ size' = 0 /\ units' = 0 /\ declares' = 0 /\ table' = [strings |-> 0, heap |-> 0]
      /\ UNCHANGED <<entry, limit, strings, verdict, inflated, kept>>
  BY DEF EndPicture, Reading, NoPart
<1>2. Room \in Nat /\ media + Room = MaxPictureTotal  BY RoomIs
<1>3. size \in Nat /\ media \in Nat /\ limit \in Nat
  BY LesserIs, InflateAssumption DEF ArchiveTypeOK
<1>4. limit <= Room /\ size <= limit /\ inflated <= media + size
  BY <1>1, <1>2, LesserIs, InflateAssumption DEF PictureInv
<1>5. media' \in 0..MaxPictureTotal  BY <1>1, <1>2, <1>3, <1>4, InflateAssumption
<1>6. ArchiveTypeOK'  BY <1>1, <1>5 DEF ArchiveTypeOK
<1>7. PictureInv'
  BY <1>1, <1>4 DEF PictureInv, PictureLimitsHold, PictureWorkBounded, HonestRefusal
<1>8. TableInv'  BY <1>1 DEF TableInv, InTable, PlainTablesCovered
<1> QED  BY <1>6, <1>7, <1>8

LEMMA TableStarts == ASSUME IInv, NEW kind \in {"xlsx", "xlsb"}, StartTable(kind) PROVE IInv'
<1> USE DEF IInv
<1>1. /\ verdict = "none" /\ part = "none" /\ part' = kind /\ entry' \in 0..Entries
      /\ size' = 20 /\ units' \in {1, 2} /\ declares' \in Counts \cup {0}
      /\ table' = [strings |-> 0, heap |-> 0]
      /\ UNCHANGED <<limit, media, strings, verdict, inflated, kept>>
  BY InflateAssumption DEF StartTable, MoreEntries, Reading, ArchiveTypeOK
<1>2. ArchiveTypeOK'  BY <1>1 DEF ArchiveTypeOK
<1>3. PictureInv'
  BY <1>1 DEF PictureInv, PictureLimitsHold, PictureWorkBounded, HonestRefusal
<1>4. EntryCost' \in Nat
  <2>1. units' = 1 \/ units' = 2  BY <1>1
  <2>2. EntryCost' = units' * 16 \/ EntryCost' = units' * 48
    BY DEF EntryCost, SharedStringTagCost, SharedStringRecordCost
  <2> QED  BY <2>1, <2>2
<1>5. SharedStringSlot * table'.strings + table'.heap = 0
  BY <1>1 DEF SharedStringSlot
<1>6. TableInv'  BY <1>1, <1>4, <1>5 DEF TableInv, PlainTablesCovered
<1> QED  BY <1>2, <1>3, <1>6

LEMMA StringRead ==
  ASSUME IInv, NEW n \in Lengths, NEW wide \in BOOLEAN, ReadString(n, wide)
  PROVE  IInv'
<1> USE DEF IInv
<1>1. /\ verdict = "none" /\ InTable /\ size' = size + StringBytes(n, wide) /\ n \in Nat
      /\ UNCHANGED <<entry, limit, declares, media, strings, inflated>>
  BY InflateAssumption DEF ReadString, InTable
<1>2. Utf8(n, wide) \in Nat /\ HeapBlock(n, wide) \in Nat /\ StringBytes(n, wide) \in Nat
  <2>1. Utf8(n, wide) \in Nat  BY <1>1 DEF Utf8
  <2>2. Greater(32, Utf8(n, wide)) \in Nat  BY <2>1, GreaterIs
  <2> QED  BY <1>1, <2>1, <2>2 DEF HeapBlock, StringBytes
<1>3. size \in Nat /\ size' \in Nat /\ part # "picture"
  BY <1>1, <1>2 DEF ArchiveTypeOK, InTable
<1>4. CASE size + StringBytes(n, wide) > MaxSharedStrings
  <2>1. /\ verdict' = "SharedStrings" /\ part' = "none" /\ UNCHANGED <<units, table, kept>>
    BY <1>4 DEF ReadString, Refuse
  <2>2. ArchiveTypeOK'  BY <1>1, <1>3, <2>1 DEF ArchiveTypeOK
  <2>3. PictureInv'
    BY <1>1, <1>3, <2>1 DEF PictureInv, PictureLimitsHold, PictureWorkBounded, HonestRefusal
  <2>4. TableInv'  BY <1>1, <2>1 DEF TableInv, InTable, PlainTablesCovered
  <2> QED  BY <2>2, <2>3, <2>4
<1>5. CASE ~(size + StringBytes(n, wide) > MaxSharedStrings)
  <2> DEFINE cost == IF part = "xlsx" THEN SharedStringTagCost ELSE SharedStringRecordCost
  <2>1. /\ units' = units + StringUnits
        /\ table' = [strings |-> table.strings + 1,
                     heap |-> table.heap + HeapBlock(n, wide)]
        /\ kept' = [kept EXCEPT !.plain = @ /\ ~(wide /\ part = "xlsb")]
        /\ UNCHANGED <<part, verdict>>
    BY <1>5 DEF ReadString
  <2>2. /\ kept'.bytes = kept.bytes /\ kept' \in [bytes : Nat, plain : BOOLEAN]
        /\ kept'.plain => kept.plain /\ ~(wide /\ part = "xlsb")
    BY <2>1 DEF ArchiveTypeOK
  <2>3. /\ table.strings \in Nat /\ table.heap \in Nat /\ units \in Nat
        /\ StringUnits \in {1, 4} /\ cost \in {16, 48}
    BY DEF ArchiveTypeOK, StringUnits, SharedStringTagCost, SharedStringRecordCost
  <2>4. table' \in [strings : Nat, heap : Nat] /\ units' \in Nat
    BY <1>2, <2>1, <2>3
  <2>5. ArchiveTypeOK'  BY <1>1, <1>3, <2>1, <2>2, <2>4 DEF ArchiveTypeOK
  <2>6. PictureInv'
    BY <1>1, <1>3, <2>1 DEF PictureInv, PictureLimitsHold, PictureWorkBounded, HonestRefusal
  <2>7. ASSUME kept'.plain
        PROVE  SharedStringSlot * table'.strings + table'.heap <= size' + EntryCost'
    <3>1. 24 * table.strings + table.heap <= size + units * cost
      BY <1>1, <2>2, <2>7 DEF TableInv, EntryCost, SharedStringSlot
    <3>2. 24 + HeapBlock(n, wide) <= StringBytes(n, wide) + StringUnits * cost
      BY <1>1, <2>2, <2>7, StringPaid DEF SharedStringSlot
    <3>3. EntryCost' = (units + StringUnits) * cost
      BY <2>1 DEF EntryCost
    <3>4. /\ table'.strings = table.strings + 1
          /\ table'.heap = table.heap + HeapBlock(n, wide)
      BY <2>1
    <3> HIDE DEF cost
    <3>5. (units + StringUnits) * cost = units * cost + StringUnits * cost
      <4>1. CASE cost = 16  BY <2>3, <4>1
      <4>2. CASE cost = 48  BY <2>3, <4>2
      <4> QED  BY <2>3, <4>1, <4>2
    <3>6. units * cost \in Nat /\ StringUnits * cost \in Nat
      <4>1. CASE cost = 16  BY <2>3, <4>1
      <4>2. CASE cost = 48  BY <2>3, <4>2
      <4> QED  BY <2>3, <4>1, <4>2
    <3>7. SharedStringSlot * table'.strings = 24 * table.strings + 24
      BY <2>3, <3>4 DEF SharedStringSlot
    <3> QED  BY <1>1, <1>2, <1>3, <2>3, <3>1, <3>2, <3>3, <3>4, <3>5, <3>6, <3>7
  <2>8. TableInv'
    BY <1>1, <2>1, <2>2, <2>7 DEF TableInv, PlainTablesCovered
  <2> QED  BY <2>5, <2>6, <2>8
<1> QED  BY <1>4, <1>5

LEMMA TableEnds == ASSUME IInv, EndTable PROVE IInv'
<1> USE DEF IInv
<1>1. /\ verdict = "none" /\ InTable /\ size' = 0 /\ units' = 0 /\ declares' = 0
      /\ table' = [strings |-> 0, heap |-> 0]
      /\ UNCHANGED <<entry, limit, media, inflated>>
  BY DEF EndTable, InTable, NoPart
<1>2. part # "picture"  BY <1>1 DEF InTable
<1>3. CASE declares > size \div MinSiBytes
  <2>1. verdict' = "Malformed" /\ part' = "none" /\ UNCHANGED <<strings, kept>>
    BY <1>3 DEF EndTable, Refuse
  <2>2. ArchiveTypeOK'  BY <1>1, <2>1 DEF ArchiveTypeOK
  <2>3. PictureInv'
    BY <1>1, <1>2, <2>1 DEF PictureInv, PictureLimitsHold, PictureWorkBounded, HonestRefusal
  <2>4. TableInv'  BY <1>1, <2>1 DEF TableInv, InTable, PlainTablesCovered
  <2> QED  BY <2>2, <2>3, <2>4
<1>4. CASE ~(declares > size \div MinSiBytes)
  <2>1. /\ part' = "none" /\ strings' = strings + Parsed /\ UNCHANGED verdict
        /\ kept' = [bytes |-> kept.bytes + Keeps,
                    plain |-> kept.plain /\ declares <= table.strings]
    BY <1>4 DEF EndTable
  <2>2. /\ Parsed \in Nat /\ EntryCost \in Nat /\ size + EntryCost <= Parsed
    BY CostIs
  <2>3. /\ strings \in Nat /\ kept.bytes \in Nat /\ kept.plain \in BOOLEAN
        /\ table.strings \in Nat /\ table.heap \in Nat /\ declares \in Nat /\ size \in Nat
    BY InflateAssumption DEF ArchiveTypeOK
  <2>4. Greater(declares, table.strings) \in Nat  BY <2>3, GreaterIs
  <2>5. Keeps \in Nat  BY <2>3, <2>4 DEF Keeps, SharedStringSlot
  <2>6. ArchiveTypeOK'  BY <1>1, <2>1, <2>2, <2>3, <2>5 DEF ArchiveTypeOK
  <2>7. PictureInv'
    BY <1>1, <1>2, <2>1 DEF PictureInv, PictureLimitsHold, PictureWorkBounded, HonestRefusal
  <2>8. ASSUME kept'.plain PROVE kept'.bytes <= strings'
    <3>1. kept.plain /\ declares <= table.strings  BY <2>1, <2>8
    <3>2. Greater(declares, table.strings) = table.strings
      BY <2>3, <3>1 DEF Greater
    <3>3. Keeps <= size + EntryCost
      BY <1>1, <3>1, <3>2 DEF TableInv, Keeps
    <3>4. kept.bytes <= strings  BY <3>1 DEF TableInv, PlainTablesCovered
    <3> QED  BY <2>1, <2>2, <2>3, <2>5, <3>3, <3>4
  <2>9. TableInv'  BY <2>1, <2>8 DEF TableInv, InTable, PlainTablesCovered
  <2> QED  BY <2>6, <2>7, <2>9
<1> QED  BY <1>3, <1>4

(* The counts of inspect go along as PictureInv and TableInv say.          *)
THEOREM Invariance == ArchiveSpec => []IInv
<1>1. IInv /\ [ArchiveNext]_archiveVars => IInv'
  BY QuietStep, PictureStarts, PictureRead, PictureEnds, TableStarts, StringRead, TableEnds
  DEF ArchiveNext
<1> QED  BY InspectionStarts, <1>1, PTL DEF ArchiveSpec

(* The state of inspect keeps its type.                                    *)
THEOREM TypeCorrect == ArchiveSpec => []ArchiveTypeOK
<1>1. IInv => ArchiveTypeOK  BY DEF IInv
<1> QED  BY <1>1, Invariance, PTL

(* However many pictures a package has and however they are read, they     *)
(* inflate to one read more than their total at most, and a refusal names  *)
(* a limit that is passed (InflateLimits, inspect).                        *)
THEOREM PicturesCorrect == ArchiveSpec => []PictureLimitsHold
<1>1. IInv => PictureLimitsHold  BY DEF IInv, PictureInv
<1> QED  BY <1>1, Invariance, PTL

(* A reader is charged what its string tables cost, for any number of      *)
(* tables and strings, where their counts are honest and no xlsb text is   *)
(* longer in UTF-8 (SHARED_STRING_TAG_COST, SHARED_STRING_RECORD_COST).    *)
THEOREM TablesCorrect == ArchiveSpec => []PlainTablesCovered
<1>1. IInv => PlainTablesCovered  BY DEF IInv, TableInv
<1> QED  BY <1>1, Invariance, PTL
-----------------------------------------------------------------------------
(* store.open and the answer to it.                                        *)

OpenTypeOK ==
    /\ formats \subseteq Formats
    /\ hint \in Formats \cup {Unspecified}
    /\ probed \in Formats \cup {Unspecified}
    /\ given \in Seq(Formats)

(* The workbook is what a server that accepts all would open first.        *)
Detected ==
    /\ probed \in file \cap formats
    /\ hint # Unspecified => probed = hint
    /\ hint = Unspecified => \A g \in (file \cap formats) \ {probed} : Precedes(probed, g)
    /\ given[Len(given)] = probed

(* What open has done where it stands: no byte given before the probe, and *)
(* none of the formats the probe was tried as did open.                    *)
OpenStage ==
    /\ stage \in {"none", "hint", "measure", "reserve"} => given = <<>>
    /\ stage \notin {"none", "hint", "answered"} => hint \in formats \cup {Unspecified}
    /\ stage # "answered" => answer = "none"
    /\ stage = "probe" => Range(given) \cap file = {}
    /\ stage \in {"metadata", "register"} => Detected

OpenInv ==
    /\ OpenTypeOK /\ OpenStage
    /\ RefusedNeverGiven /\ ChargedWhileParsed
    /\ answer = "ok" => Detected

(* One more format is given, and is the last. *)
LEMMA GivenAppended ==
  ASSUME NEW S, NEW s \in Seq(S), NEW e \in S
  PROVE  /\ Append(s, e) \in Seq(S)
         /\ Range(Append(s, e)) = Range(s) \cup {e}
         /\ Append(s, e)[Len(Append(s, e))] = e
<1>1. /\ Append(s, e) \in Seq(S) /\ Len(Append(s, e)) = Len(s) + 1
      /\ \A i \in 1..Len(s) : Append(s, e)[i] = s[i]
      /\ Append(s, e)[Len(s) + 1] = e
  BY AppendProperties
<1>2. /\ Len(s) \in Nat /\ DOMAIN s = 1..Len(s)
      /\ DOMAIN Append(s, e) = 1..(Len(s) + 1)
  BY <1>1, LenProperties
<1>3. 1..(Len(s) + 1) = (1..Len(s)) \cup {Len(s) + 1}  BY <1>2
<1>4. Range(Append(s, e)) = Range(s) \cup {e}
  BY <1>1, <1>2, <1>3, ZenonT(60) DEF Range
<1> QED  BY <1>1, <1>4

LEMMA NoneGiven == Range(<<>>) = {}
BY DEF Range

(* The order of detection is one: no two formats come before each other. *)
LEMMA OrderIsStrict ==
  ASSUME NEW f, NEW g, Precedes(f, g)
  PROVE  \A i, j \in DOMAIN DETECTION_ORDER :
            DETECTION_ORDER[i] = g /\ DETECTION_ORDER[j] = f => j <= i
<1>1. DOMAIN DETECTION_ORDER = 1..4  BY DEF DETECTION_ORDER
<1>2. /\ DETECTION_ORDER[1] = "xls" /\ DETECTION_ORDER[2] = "xlsx"
      /\ DETECTION_ORDER[3] = "xlsb" /\ DETECTION_ORDER[4] = "ods"
  BY DEF DETECTION_ORDER
<1>3. \A i, j \in 1..4 : DETECTION_ORDER[i] = DETECTION_ORDER[j] => i = j
  BY <1>2
<1>4. PICK k, l \in 1..4 : k < l /\ DETECTION_ORDER[k] = f /\ DETECTION_ORDER[l] = g
  BY <1>1 DEF Precedes
<1> QED  BY <1>1, <1>3, <1>4

LEMMA OpenStart == OpenInit => OpenInv
<1> SUFFICES ASSUME OpenInit PROVE OpenInv  OBVIOUS
<1>1. given \in Seq(Formats) /\ Range(given) = {}  BY NoneGiven, EmptySeq DEF OpenInit
<1> QED
  BY <1>1, Zenon DEF OpenInit, OpenInv, OpenTypeOK, OpenStage, RefusedNeverGiven,
     ChargedWhileParsed

(* Who is called and with what. *)
LEMMA CallKeeps == ASSUME OpenInv, Call PROVE OpenInv'
<1>1. /\ stage = "none" /\ stage' = "hint" /\ UNCHANGED <<reservation, probed, given, answer>>
      /\ hint' \in Formats \cup {Unspecified} /\ formats' \subseteq Formats
  <2>1. PICK list : formats' = Accepted(list)  BY DEF Call
  <2>2. formats' \subseteq Formats  BY <2>1, Zenon DEF Accepted
  <2> QED  BY <2>2, Zenon DEF Call
<1>2. given = <<>> /\ answer = "none"  BY <1>1, Zenon DEF OpenInv, OpenStage
<1>3. Range(given') = {}  BY <1>1, <1>2, NoneGiven
<1> QED
  BY <1>1, <1>2, <1>3, Zenon DEF OpenInv, OpenTypeOK, OpenStage, RefusedNeverGiven,
     ChargedWhileParsed

(* What is done before calamine has the bytes. *)
LEMMA BeforeKeeps == ASSUME OpenInv, TakeHint \/ Inspect \/ Reserve PROVE OpenInv'
<1>1. UNCHANGED <<formats, hint, file, probed, given>>
  BY Zenon DEF TakeHint, Inspect, Reserve
<1>2. stage \in {"hint", "measure", "reserve"} /\ answer = "none" /\ given = <<>>
  BY Zenon DEF TakeHint, Inspect, Reserve, OpenInv, OpenStage
<1>3. OpenTypeOK'  BY <1>1, Zenon DEF OpenInv, OpenTypeOK
<1>4. RefusedNeverGiven'  BY <1>1, Zenon DEF OpenInv, RefusedNeverGiven
<1>5. Range(given) = {}  BY <1>2, NoneGiven
<1>6. CASE TakeHint
  BY <1>1, <1>2, <1>3, <1>4, <1>5, <1>6, Zenon DEF TakeHint, Answer, OpenInv, OpenTypeOK,
     OpenStage, ChargedWhileParsed
<1>7. CASE Inspect
  BY <1>1, <1>2, <1>3, <1>4, <1>5, <1>7, Zenon DEF Inspect, Answer, OpenInv, OpenTypeOK,
     OpenStage, ChargedWhileParsed
<1>8. CASE Reserve
  BY <1>1, <1>2, <1>3, <1>4, <1>5, <1>8, Zenon DEF Reserve, Answer, OpenInv, OpenTypeOK,
     OpenStage, ChargedWhileParsed
<1> QED  BY <1>6, <1>7, <1>8

(* A format is tried: it opens and comes first, or is not what the file is. *)
LEMMA OpenAsKeeps == ASSUME OpenInv, OpenAs PROVE OpenInv'
<1>1. PICK f \in Untried :
        /\ stage = "probe"
        /\ \A g \in Untried \ {f} : Precedes(f, g)
        /\ given' = Append(given, f)
        /\ IF f \in file
           THEN probed' = f /\ stage' = "metadata"
           ELSE UNCHANGED <<probed, stage>>
        /\ UNCHANGED <<formats, hint, file, reservation, answer>>
  BY Zenon DEF OpenAs
<1>2. /\ formats \subseteq Formats /\ hint \in formats \cup {Unspecified}
      /\ given \in Seq(Formats) /\ Range(given) \subseteq formats
      /\ Range(given) \cap file = {} /\ answer = "none" /\ reservation = "held"
  BY <1>1, Zenon DEF OpenInv, OpenTypeOK, OpenStage, RefusedNeverGiven, ChargedWhileParsed
<1>3. f \in formats /\ f \notin Range(given)  BY <1>1, <1>2, Zenon DEF Untried, Candidates
<1>4. /\ given' \in Seq(Formats) /\ Range(given') = Range(given) \cup {f}
      /\ given'[Len(given')] = f
  BY <1>1, <1>2, <1>3, GivenAppended
<1>5. OpenTypeOK' /\ RefusedNeverGiven'
  <2>1. probed' \in Formats \cup {Unspecified}
    BY <1>1, <1>2, <1>3, Zenon DEF OpenInv, OpenTypeOK
  <2> QED  BY <1>1, <1>2, <1>3, <1>4, <2>1, Zenon DEF OpenInv, OpenTypeOK, RefusedNeverGiven
<1>6. stage' \in {"probe", "metadata"} /\ stage' # "answered"  BY <1>1, Zenon
<1>7. ChargedWhileParsed'
  BY <1>1, <1>2, <1>6, Zenon DEF ChargedWhileParsed
<1>8. CASE f \in file
  <2>1. Detected'
    <3>1. hint # Unspecified => f = hint  BY <1>1, Zenon DEF Untried, Candidates
    <3>2. ASSUME hint = Unspecified, NEW g \in (file \cap formats) \ {f}
          PROVE  Precedes(f, g)
      <4>1. g \in Untried  BY <1>2, <3>2, Zenon DEF Untried, Candidates
      <4> QED  BY <1>1, <3>2, <4>1, Zenon
    <3> QED  BY <1>1, <1>3, <1>4, <1>8, <3>1, <3>2, Zenon DEF Detected, Precedes
  <2> QED
    BY <1>1, <1>2, <1>5, <1>7, <1>8, <2>1, Zenon DEF OpenInv, OpenStage
<1>9. CASE f \notin file
  <2>1. stage' = "probe" /\ Range(given') \cap file' = {}  BY <1>1, <1>2, <1>4, <1>9, Zenon
  <2> QED
    BY <1>1, <1>2, <1>5, <1>7, <2>1, Zenon DEF OpenInv, OpenStage
<1> QED  BY <1>8, <1>9

(* The end, registered or not. *)
LEMMA EndKeeps ==
  ASSUME OpenInv, NoFormat \/ ReadMetadata \/ PanicInOpen \/ Register
  PROVE  OpenInv'
<1>1. UNCHANGED <<formats, hint, file, probed, given>>
  BY Zenon DEF NoFormat, ReadMetadata, PanicInOpen, Register
<1>2. stage \in {"probe", "metadata", "register"} /\ answer = "none" /\ reservation = "held"
  BY Zenon DEF NoFormat, ReadMetadata, PanicInOpen, Register, OpenInv, OpenStage,
     ChargedWhileParsed
<1>3. OpenTypeOK' /\ RefusedNeverGiven'
  BY <1>1, Zenon DEF OpenInv, OpenTypeOK, RefusedNeverGiven
<1>4. Detected => Detected'  BY <1>1, Zenon DEF Detected, Precedes
<1>5. CASE NoFormat \/ PanicInOpen
  BY <1>1, <1>2, <1>3, <1>5, Zenon DEF NoFormat, PanicInOpen, Answer, GivenBack, OpenInv,
     OpenStage, ChargedWhileParsed
<1>6. CASE ReadMetadata
  BY <1>1, <1>2, <1>3, <1>4, <1>6, Zenon DEF ReadMetadata, Answer, GivenBack, OpenInv,
     OpenStage, ChargedWhileParsed
<1>7. CASE Register
  BY <1>1, <1>2, <1>3, <1>4, <1>7, Zenon DEF Register, Answer, OpenInv,
     OpenStage, ChargedWhileParsed
<1> QED  BY <1>5, <1>6, <1>7

(* A later reader is opened in the format of the probe. *)
LEMMA ReaderKeeps == ASSUME OpenInv, Reader PROVE OpenInv'
<1>1. /\ answer = "ok" /\ given' = Append(given, probed)
      /\ UNCHANGED <<formats, hint, file, stage, reservation, probed, answer>>
  BY Zenon DEF Reader, Recorded
<1>2. Detected /\ stage = "answered"  BY <1>1, Zenon DEF OpenInv, OpenStage
<1>3. probed \in formats /\ formats \subseteq Formats /\ given \in Seq(Formats)
  BY <1>2, Zenon DEF Detected, OpenInv, OpenTypeOK
<1>4. /\ given' \in Seq(Formats) /\ Range(given') = Range(given) \cup {probed}
      /\ given'[Len(given')] = probed
  BY <1>1, <1>3, GivenAppended
<1>5. Detected'  BY <1>1, <1>2, <1>4, Zenon DEF Detected, Precedes
<1>6. OpenTypeOK' /\ RefusedNeverGiven'
  BY <1>1, <1>3, <1>4, Zenon DEF OpenInv, OpenTypeOK, RefusedNeverGiven
<1>7. ChargedWhileParsed'
  BY <1>1, Zenon DEF OpenInv, ChargedWhileParsed
<1> QED
  BY <1>1, <1>2, <1>5, <1>6, <1>7, Zenon DEF OpenInv, OpenStage

(* At each stage of open: what is reserved, what calamine was given, and   *)
(* that a probe is in front of all else the bytes open as.                 *)
THEOREM OpenInvariance == OpenSpec => []OpenInv
<1>1. OpenInv /\ [OpenNext]_openVars => OpenInv'
  <2> SUFFICES ASSUME OpenInv, [OpenNext]_openVars PROVE OpenInv'  OBVIOUS
  <2>1. CASE UNCHANGED openVars
    BY <2>1, Zenon DEF openVars, OpenInv, OpenTypeOK, OpenStage, RefusedNeverGiven,
       ChargedWhileParsed, Detected, Precedes
  <2> QED
    BY <2>1, CallKeeps, BeforeKeeps, OpenAsKeeps, EndKeeps, ReaderKeeps, Zenon DEF OpenNext
<1> QED  BY OpenStart, <1>1, PTL DEF OpenSpec

(* Whatever a server accepts and a client uploads, calamine has the bytes  *)
(* in an accepted format alone and under a reservation, and an answer that *)
(* names a limit or a refused format comes before it has them              *)
(* (WorkbookStore::open, FormatSet).                                       *)
THEOREM CheckedCorrect == OpenSpec => []CheckedBeforeParsed
<1>1. OpenInv => CheckedBeforeParsed  BY DEF OpenInv, CheckedBeforeParsed
<1> QED  BY OpenInvariance, <1>1, PTL

(* Whatever formats are accepted, a workbook is opened as the first in the *)
(* order of detection of those the bytes open as, or as its hint says, and *)
(* so is each later reader (detect_accepted, WorkbookEntry::reader).       *)
THEOREM DetectionCorrect == OpenSpec => []DetectedAsEverywhere
<1>1. OpenInv => DetectedAsEverywhere
  <2> SUFFICES ASSUME Detected PROVE DetectedAsEverywhere
    BY DEF OpenInv, DetectedAsEverywhere
  <2>1. ASSUME hint = Unspecified,
               NEW i \in DOMAIN DETECTION_ORDER, NEW j \in DOMAIN DETECTION_ORDER,
               DETECTION_ORDER[i] \in file \cap formats, DETECTION_ORDER[j] = probed
        PROVE  j <= i
    <3>1. CASE DETECTION_ORDER[i] = probed
      <4>1. i \in 1..4 /\ j \in 1..4  BY DEF DETECTION_ORDER
      <4> QED  BY <2>1, <3>1, <4>1 DEF DETECTION_ORDER
    <3>2. CASE DETECTION_ORDER[i] # probed
      <4>1. Precedes(probed, DETECTION_ORDER[i])  BY <2>1, <3>2, Zenon DEF Detected
      <4> QED  BY <2>1, <4>1, OrderIsStrict
    <3> QED  BY <3>1, <3>2
  <2> QED  BY <2>1, Zenon DEF Detected, DetectedAsEverywhere
<1> QED  BY OpenInvariance, <1>1, PTL

-----------------------------------------------------------------------------
(***************************************************************************)
(* RecordCounter: the format read over a whole stream, lemma by lemma,     *)
(* then the counter that reads it byte by byte.                            *)
(***************************************************************************)
LEMMA PlaceIsNat == ASSUME NEW i \in 1..4  PROVE PlaceValue[i] \in Nat
<1> DEFINE b == Base
           b2 == Base * Base
           b3 == Base * Base * Base
<1>1. b \in Nat /\ b2 \in Nat /\ b3 \in Nat  BY ByteAssumption
<1>2. PlaceValue = <<1, b, b2, b3>>  BY DEF PlaceValue
<1> HIDE DEF b, b2, b3
<1> QED  BY <1>1, <1>2

LEMMA PartIsNat ==
  ASSUME NEW s \in Seq(Byte), NEW j \in 1..Len(s), NEW i \in 1..4
  PROVE  s[j].low * PlaceValue[i] \in Nat
<1> DEFINE a == s[j].low
           b == PlaceValue[i]
<1>1. a \in Nat /\ b \in Nat
  <2>1. s[j] \in Byte  OBVIOUS
  <2> QED  BY <2>1, PlaceIsNat, ByteAssumption, SMTT(60) DEF Byte
<1> HIDE DEF a, b
<1>2. a * b \in Nat  BY <1>1
<1> QED  BY <1>2 DEF a, b

LEMMA LengthMeans ==
  ASSUME NEW s \in Seq(Byte), NEW q \in Nat \ {0}, NEW n \in 0..4,
         q + n <= Len(s) + 1
  PROVE  /\ LengthValue(s, q, n) \in Nat
         /\ n = 0 => LengthValue(s, q, n) = 0
         /\ n > 0 => LengthValue(s, q, n) =
               LengthValue(s, q, n - 1) + s[q + n - 1].low * PlaceValue[n]
<1> DEFINE D(i) == s[q + i - 1].low * PlaceValue[i]
<1>1. \A i \in 1..4 : i <= n => D(i) \in Nat
  <2> SUFFICES ASSUME NEW i \in 1..4, i <= n  PROVE D(i) \in Nat
    OBVIOUS
  <2>1. q + i - 1 \in 1..Len(s)  OBVIOUS
  <2> QED  BY <2>1, PartIsNat
<1>2. \A m \in 0..4 : LengthValue(s, q, m) =
        (IF 1 > m THEN 0 ELSE D(1)) + (IF 2 > m THEN 0 ELSE D(2))
        + (IF 3 > m THEN 0 ELSE D(3)) + (IF 4 > m THEN 0 ELSE D(4))
  BY DEF LengthValue, Digit
<1>3. s[q + n - 1].low * PlaceValue[n] = D(n)  OBVIOUS
<1>4. n \in 0..4 /\ (n > 0 => n - 1 \in 0..4)  OBVIOUS
<1> HIDE DEF D
<1>5. /\ 1 <= n => D(1) \in Nat
      /\ 2 <= n => D(2) \in Nat
      /\ 3 <= n => D(3) \in Nat
      /\ 4 <= n => D(4) \in Nat
  BY <1>1
<1> QED  BY ONLY <1>2, <1>3, <1>4, <1>5, SMTT(60)

(* Bytes that are the same are worth the same. *)
LEMMA LengthLocal ==
  ASSUME NEW s, NEW t, NEW q \in Nat \ {0}, NEW n \in 0..4,
         \A j \in q..(q + n - 1) : s[j] = t[j]
  PROVE  LengthValue(s, q, n) = LengthValue(t, q, n)
<1>1. \A i \in 1..4 : Digit(s, q, n, i) = Digit(t, q, n, i)
  <2> SUFFICES ASSUME NEW i \in 1..4
               PROVE  Digit(s, q, n, i) = Digit(t, q, n, i)
    OBVIOUS
  <2>1. ~(i > n) => q + i - 1 \in q..(q + n - 1)  OBVIOUS
  <2>2. ~(i > n) => s[q + i - 1] = t[q + i - 1]  BY <2>1
  <2> QED  BY <2>2, Zenon DEF Digit
<1> QED  BY <1>1 DEF LengthValue

LEMMA LengthEnds ==
  ASSUME NEW s \in Seq(Byte), NEW q \in Nat \ {0}, NEW e \in q..(q + 3),
         EndsLength(s, q, e), \A j \in q..(e - 1) : s[j].more
  PROVE  LastOfLength(s, q) = e
<1> DEFINE stops == {f \in q..(q + LengthBytes - 1) : EndsLength(s, q, f)}
<1>1. e \in stops  BY DEF LengthBytes
<1>2. \A f \in stops : e <= f
  <2> SUFFICES ASSUME NEW f \in stops, ~(e <= f)  PROVE FALSE
    OBVIOUS
  <2>1. f \in q..(e - 1) /\ f # q + LengthBytes - 1  BY DEF LengthBytes
  <2> QED  BY <2>1 DEF EndsLength
<1>3. \A x \in stops : x \in Nat  BY DEF LengthBytes
<1>4. LastOfLength(s, q) =
        IF stops = {} THEN 0 ELSE CHOOSE x \in stops : \A f \in stops : x <= f
  BY DEF LastOfLength
<1> HIDE DEF stops
<1>5. \A x \in stops : (\A f \in stops : x <= f) => x = e
  <2> SUFFICES ASSUME NEW x \in stops, \A f \in stops : x <= f  PROVE x = e
    OBVIOUS
  <2>1. x <= e /\ e <= x /\ x \in Nat /\ e \in Nat  BY <1>1, <1>2, <1>3
  <2> QED  BY <2>1
<1> QED  BY <1>1, <1>2, <1>4, <1>5, Zenon

LEMMA LengthCut ==
  ASSUME NEW s \in Seq(Byte), NEW q \in Nat \ {0}, Len(s) < q + 3,
         \A j \in q..Len(s) : s[j].more
  PROVE  LastOfLength(s, q) = 0
<1> DEFINE stops == {f \in q..(q + LengthBytes - 1) : EndsLength(s, q, f)}
<1>1. stops = {}
  <2> SUFFICES ASSUME NEW f \in stops  PROVE FALSE
    OBVIOUS
  <2>1. f \in q..Len(s) /\ f # q + LengthBytes - 1
    BY DEF LengthBytes, EndsLength
  <2> QED  BY <2>1 DEF EndsLength
<1> QED  BY <1>1 DEF LastOfLength

LEMMA LengthLies ==
  ASSUME NEW s \in Seq(Byte), NEW q \in Nat \ {0}
  PROVE  \/ LastOfLength(s, q) = 0
         \/ LastOfLength(s, q) \in q..(q + 3) /\ LastOfLength(s, q) <= Len(s)
<1> DEFINE stops == {f \in q..(q + LengthBytes - 1) : EndsLength(s, q, f)}
<1>1. stops \subseteq Nat  BY DEF LengthBytes
<1>2. stops # {} => \E m \in stops : \A x \in stops : m <= x
  BY <1>1, LeastMember, Zenon
<1>3. stops # {} => LastOfLength(s, q) \in stops
  BY <1>2, Zenon DEF LastOfLength
<1>4. stops = {} => LastOfLength(s, q) = 0  BY Zenon DEF LastOfLength
<1>5. \A x \in stops : x \in q..(q + 3) /\ x <= Len(s)
  BY DEF LengthBytes, EndsLength
<1> QED  BY <1>3, <1>4, <1>5, Zenon

LEMMA NextLies ==
  ASSUME NEW s \in Seq(Byte), NEW p \in 1..Len(s)
  PROVE  /\ LengthAt(s, p) \in Nat \ {0} /\ LengthAt(s, p) > p
         /\ NextRecord(s, p) \in Nat
         /\ NextRecord(s, p) = 0 \/ NextRecord(s, p) > p
<1> DEFINE q == LengthAt(s, p)
           e == LastOfLength(s, q)
<1>1. q \in Nat \ {0} /\ q > p  BY DEF LengthAt
<1>2. NextRecord(s, p) =
        IF e = 0 THEN 0 ELSE e + LengthValue(s, q, e - q + 1) + 1
  BY DEF NextRecord
<1> HIDE DEF q
<1>3. e = 0 \/ (e \in q..(q + 3) /\ e <= Len(s))  BY <1>1, LengthLies
<1> HIDE DEF e
<1>4. CASE e = 0  BY <1>1, <1>2, <1>4 DEF q
<1>5. CASE e # 0
  <2>1. e \in Nat /\ e - q + 1 \in 0..4 /\ q + (e - q + 1) <= Len(s) + 1
    BY <1>1, <1>3, <1>5
  <2>2. LengthValue(s, q, e - q + 1) \in Nat
    BY ONLY <1>1, <2>1, LengthMeans, s \in Seq(Byte)
  <2> QED  BY <1>1, <1>2, <1>3, <1>5, <2>1, <2>2 DEF q
<1> QED  BY <1>4, <1>5

(* The recursion of HeadersFrom has a solution, so it is what it says. *)
LEMMA HeadersMean ==
  ASSUME NEW s \in Seq(Byte), NEW p \in Nat \ {0}
  PROVE  /\ HeadersFrom(s, p) \in Nat
         /\ p > Len(s) => HeadersFrom(s, p) = 0
         /\ p <= Len(s) => HeadersFrom(s, p) =
               IF NextRecord(s, p) = 0 THEN 0
               ELSE 1 + HeadersFrom(s, NextRecord(s, p))
<1> DEFINE n == Len(s)
           next == [x \in 1..n |-> NextRecord(s, x)]
           h == CHOOSE f : Hops(f, next, n)
<1>1. n \in Nat  OBVIOUS
<1>2. Onward(next, n)
  <2>1. \A x \in 1..n : next[x] = NextRecord(s, x)  OBVIOUS
  <2>2. \A x \in 1..n : /\ NextRecord(s, x) \in Nat
                        /\ NextRecord(s, x) = 0 \/ NextRecord(s, x) > x
    BY NextLies, Zenon
  <2> HIDE DEF next, n
  <2> QED  BY ONLY <2>1, <2>2 DEF Onward
<1>3. \A x : HeadersFrom(s, x) = IF x > n THEN 0 ELSE h[x]
  BY Zenon DEF HeadersFrom, Hops
<1>4. \A x \in 1..n : next[x] = NextRecord(s, x)  OBVIOUS
<1> HIDE DEF next, n
<1>5. Hops(h, next, n)
  <2>1. \E f : Hops(f, next, n)  BY <1>1, <1>2, HopsExist
  <2> QED  BY <2>1, Zenon
<1> HIDE DEF h
<1>6. \A x \in 1..n :
        /\ h[x] \in Nat
        /\ h[x] = IF next[x] = 0 THEN 0
                  ELSE 1 + (IF next[x] > n THEN 0 ELSE h[next[x]])
  <2> SUFFICES ASSUME NEW x \in 1..n
               PROVE  /\ h[x] \in Nat
                      /\ h[x] = IF next[x] = 0 THEN 0
                          ELSE 1 + (IF next[x] > n THEN 0 ELSE h[next[x]])
    BY Zenon
  <2> QED  BY ONLY <1>1, <1>2, <1>5, x \in 1..n, HopsCount
<1>7. CASE p > n  BY <1>3, <1>1, <1>7 DEF n
<1>8. CASE ~(p > n)
  <2>1. p \in 1..n  BY <1>1, <1>8
  <2>2. h[p] \in Nat  BY <1>6, <2>1
  <2>3. h[p] = IF NextRecord(s, p) = 0 THEN 0
               ELSE 1 + (IF NextRecord(s, p) > n THEN 0
                         ELSE h[NextRecord(s, p)])
    BY <1>4, <1>6, <2>1, Zenon
  <2>4. HeadersFrom(s, p) = h[p]  BY <1>3, <1>8, Zenon
  <2>5. HeadersFrom(s, NextRecord(s, p)) =
          IF NextRecord(s, p) > n THEN 0 ELSE h[NextRecord(s, p)]
    BY <1>3, Zenon
  <2>6. ~(p > Len(s))  BY <1>8, Zenon DEF n
  <2> QED  BY <2>2, <2>3, <2>4, <2>5, <2>6, Zenon
<1> QED  BY <1>7, <1>8

(* t's first n bytes hold the headers of r records before byte p, whatever *)
(* comes after them.                                                       *)
Agrees(s, t, n) == Len(s) >= n /\ \A j \in 1..n : s[j] = t[j]
Accounted(t, n, r, p) == \A s \in Seq(Byte) :
    Agrees(s, t, n) => HeadersFrom(s, 1) = r + HeadersFrom(s, p)

LEMMA AccountedOn ==
  ASSUME NEW t \in Seq(Byte), NEW u \in Seq(Byte), NEW m \in Nat,
         NEW n \in Nat, m <= n, Len(u) >= n, Agrees(u, t, m),
         NEW r, NEW p, Accounted(t, m, r, p)
  PROVE  Accounted(u, n, r, p)
<1> SUFFICES ASSUME NEW s \in Seq(Byte), Agrees(s, u, n)
             PROVE  HeadersFrom(s, 1) = r + HeadersFrom(s, p)
  BY Zenon DEF Accounted
<1>1. \A j \in 1..m : j \in 1..n /\ s[j] = u[j] /\ u[j] = t[j]
  BY DEF Agrees
<1>2. Agrees(s, t, m)  BY <1>1 DEF Agrees
<1> QED  BY <1>2, Zenon DEF Accounted

(* The byte that ends a header accounts for one more record. *)
LEMMA HeaderRead ==
  ASSUME NEW t \in Seq(Byte), NEW p \in 1..Len(t), NEW n \in p..Len(t),
         NEW q \in Nat \ {0}, q = LengthAt(t, p), n \in q..(q + 3),
         EndsLength(t, q, n), \A j \in q..(n - 1) : t[j].more,
         NEW r \in Nat, Accounted(t, n - 1, r, p)
  PROVE  Accounted(t, n, r + 1, n + LengthValue(t, q, n - q + 1) + 1)
<1> DEFINE v == LengthValue(t, q, n - q + 1)
<1>1. v \in Nat
  <2>1. n - q + 1 \in 0..4 /\ q + (n - q + 1) <= Len(t) + 1  BY SMTT(60)
  <2> QED  BY <2>1, LengthMeans
<1> HIDE DEF v
<1> SUFFICES ASSUME NEW s \in Seq(Byte), Agrees(s, t, n)
             PROVE  HeadersFrom(s, 1) = r + 1 + HeadersFrom(s, n + v + 1)
  BY Zenon DEF Accounted, v
<1>2. p \in Nat \ {0} /\ n \in Nat /\ p <= Len(s) /\ p \in 1..Len(s)
  BY DEF Agrees
<1>3. HeadersFrom(s, 1) = r + HeadersFrom(s, p)
  <2>1. Agrees(s, t, n - 1)  BY <1>2 DEF Agrees
  <2> QED  BY <2>1, Zenon DEF Accounted
<1>4. LengthAt(s, p) = q
  <2>1. s[p] = t[p]  BY DEF Agrees
  <2> QED  BY <2>1 DEF LengthAt
<1>5. \A j \in q..n : s[j] = t[j]  BY DEF Agrees
<1>6. LastOfLength(s, q) = n
  <2>1. EndsLength(s, q, n)
    <3>1. n <= Len(s) /\ s[n] = t[n]  BY <1>5 DEF Agrees
    <3> QED  BY <3>1 DEF EndsLength
  <2>2. \A j \in q..(n - 1) : s[j].more
    <3>1. \A j \in q..(n - 1) : j \in q..n  OBVIOUS
    <3> QED  BY <1>5, <3>1
  <2> QED  BY <2>1, <2>2, LengthEnds
<1>7. LengthValue(s, q, n - q + 1) = v
  <2>1. n - q + 1 \in 0..4 /\ q + (n - q + 1) - 1 = n  BY SMTT(60)
  <2>2. \A j \in q..(q + (n - q + 1) - 1) : s[j] = t[j]  BY <1>5, <2>1
  <2> QED  BY ONLY q \in Nat \ {0}, <2>1, <2>2, LengthLocal DEF v
<1>8. NextRecord(s, p) = n + v + 1 /\ n # 0
  BY <1>2, <1>4, <1>6, <1>7 DEF NextRecord
<1>9. HeadersFrom(s, p) = 1 + HeadersFrom(s, n + v + 1)
  <2>1. n + v + 1 # 0  BY <1>1, <1>2
  <2>2. HeadersFrom(s, p) = IF NextRecord(s, p) = 0 THEN 0
                            ELSE 1 + HeadersFrom(s, NextRecord(s, p))
    BY <1>2, HeadersMean
  <2> QED  BY <1>8, <2>1, <2>2, Zenon
<1>10. HeadersFrom(s, n + v + 1) \in Nat
  <2>1. n + v + 1 \in Nat \ {0}  BY <1>1, <1>2
  <2> QED  BY <2>1, HeadersMean
<1> QED  BY <1>3, <1>9, <1>10

-----------------------------------------------------------------------------
(***************************************************************************)
(* The counter stands at the record of byte p, and has counted those       *)
(* before it.                                                              *)
(***************************************************************************)
Eaten == Len(fed) - Len(rest)

BytesInv ==
    /\ rest \in Seq(Byte) /\ fed \in Seq(Byte)
    /\ Len(rest) <= Len(fed)
    /\ \A j \in 1..Len(rest) : rest[j] = fed[Eaten + j]

CounterTypeOK ==
    /\ records \in Nat /\ left \in Nat /\ count \in 0..3
    /\ at \in {"type", "second", "length", "payload"}
    /\ at # "length" => count = 0
    /\ at \in {"type", "second"} => left = 0
    /\ at = "payload" => left > 0

InLength(p) ==
    LET q == LengthAt(fed, p) IN
    /\ p <= Eaten /\ q + count = Eaten + 1
    /\ \A j \in q..Eaten : fed[j].more
    /\ left = LengthValue(fed, q, count)

Standing(p) ==
    /\ at = "type" => p = Eaten + 1
    /\ at = "second" => p = Eaten /\ fed[p].more
    /\ at = "length" => InLength(p)
    /\ at = "payload" => p = Eaten + left + 1

CounterInv ==
    /\ BytesInv /\ CounterTypeOK
    /\ \E p \in Nat \ {0} : Standing(p) /\ Accounted(fed, Eaten, records, p)

(* One byte less to look at, the next of the stream. *)
LEMMA ByteTaken ==
  ASSUME BytesInv, TakeByte
  PROVE  /\ BytesInv' /\ fed' = fed /\ Eaten' = Eaten + 1
         /\ Eaten \in Nat /\ Eaten + 1 \in 1..Len(fed)
         /\ Head(rest) = fed[Eaten + 1] /\ Head(rest) \in Byte
<1>1. PICK r : r = rest'  OBVIOUS
<1>2. /\ rest \in Seq(Byte) /\ fed \in Seq(Byte) /\ rest # <<>>
      /\ r = Tail(rest) /\ fed' = fed /\ Len(rest) <= Len(fed)
      /\ \A j \in 1..Len(rest) : rest[j] = fed[Eaten + j]
  BY <1>1 DEF BytesInv, TakeByte
<1>3. /\ r \in Seq(Byte) /\ Len(r) = Len(rest) - 1 /\ Len(rest) > 0
      /\ \A j \in 1..Len(r) : r[j] = rest[j + 1]
  BY <1>2, HeadTailProperties
<1>4. Head(rest) = rest[1] /\ rest[1] \in Byte
  <2>1. 1 \in 1..Len(rest)  BY <1>2, <1>3
  <2> QED  BY <1>2, <1>3, <2>1
<1>5. Eaten \in Nat /\ Eaten + 1 \in 1..Len(fed)
  BY <1>2, <1>3 DEF Eaten
<1>6. Eaten' = Eaten + 1
  <2>1. Eaten' = Len(fed) - Len(r)  BY <1>1, <1>2 DEF Eaten
  <2> QED  BY <1>2, <1>3, <2>1 DEF Eaten
<1>7. rest[1] = fed[Eaten + 1]
  <2>1. 1 \in 1..Len(rest)  BY <1>2, <1>3
  <2> QED  BY <1>2, <2>1
<1>8. \A j \in 1..Len(r) : r[j] = fed[Eaten + 1 + j]
  <2> SUFFICES ASSUME NEW j \in 1..Len(r)  PROVE r[j] = fed[Eaten + 1 + j]
    OBVIOUS
  <2>1. j + 1 \in 1..Len(rest) /\ r[j] = rest[j + 1]  BY <1>2, <1>3
  <2>2. rest[j + 1] = fed[Eaten + (j + 1)]  BY <1>2, <2>1
  <2>3. Eaten + (j + 1) = Eaten + 1 + j  BY <1>5
  <2> QED  BY <2>1, <2>2, <2>3
<1>9. BytesInv'
  <2>1. Len(r) <= Len(fed)  BY <1>2, <1>3
  <2> QED  BY <1>1, <1>2, <1>3, <1>6, <1>8, <2>1, Zenon DEF BytesInv
<1> QED  BY <1>2, <1>4, <1>5, <1>6, <1>7, <1>9

LEMMA RCInitially == RCInit => CounterInv
<1> SUFFICES ASSUME RCInit  PROVE CounterInv
  OBVIOUS
<1>1. BytesInv /\ CounterTypeOK /\ Eaten = 0 /\ records = 0
  BY DEF RCInit, BytesInv, CounterTypeOK, Eaten
<1>2. Standing(1)  BY <1>1 DEF RCInit, Standing
<1>3. Accounted(fed, Eaten, records, 1)
  <2> SUFFICES ASSUME NEW s \in Seq(Byte)
               PROVE  HeadersFrom(s, 1) = 0 + HeadersFrom(s, 1)
    BY <1>1, Zenon DEF Accounted
  <2>1. HeadersFrom(s, 1) \in Nat
    <3>1. 1 \in Nat \ {0}  OBVIOUS
    <3> QED  BY <3>1, HeadersMean, Zenon
  <2> QED  BY <2>1
<1> QED  BY <1>1, <1>2, <1>3 DEF CounterInv

(* What was accounted for stays so when one more byte is taken. *)
LEMMA AccountedByte ==
  ASSUME BytesInv, TakeByte, BytesInv', NEW p,
         Accounted(fed, Eaten, records, p), records' = records
  PROVE  Accounted(fed, Eaten, records, p)'
<1>1. /\ fed' = fed /\ Eaten' = Eaten + 1 /\ Eaten \in Nat
      /\ Eaten + 1 \in 1..Len(fed) /\ fed \in Seq(Byte)
  BY ByteTaken DEF BytesInv
<1>2. Agrees(fed, fed, Eaten) /\ Eaten <= Eaten + 1 /\ Eaten + 1 <= Len(fed)
      /\ Eaten + 1 \in Nat
  BY <1>1 DEF Agrees
<1>3. PICK n : n = Eaten  OBVIOUS
<1>4. Accounted(fed, n + 1, records, p)
  BY ONLY <1>1, <1>2, <1>3, AccountedOn, Accounted(fed, Eaten, records, p)
<1>5. Eaten' = n + 1  BY <1>1, <1>3
<1> QED  BY <1>1, <1>4, <1>5, Zenon

LEMMA FeedKeeps == ASSUME CounterInv, Feed  PROVE CounterInv'
<1>0. PICK n \in 1..PieceMax : \E piece \in [1..n -> Byte] :
        /\ rest = <<>> /\ rest' = piece /\ fed' = fed \o piece
        /\ UNCHANGED counterVars
  BY Zenon DEF Feed
<1>1. PICK piece \in [1..n -> Byte] :
        /\ rest = <<>> /\ rest' = piece /\ fed' = fed \o piece
        /\ UNCHANGED counterVars
  BY <1>0
<1>2. BytesInv /\ CounterTypeOK  BY DEF CounterInv
<1>3. PICK p \in Nat \ {0} :
        Standing(p) /\ Accounted(fed, Eaten, records, p)
  BY DEF CounterInv
<1> DEFINE u == fed \o piece
<1>4. piece \in Seq(Byte) /\ Len(piece) = n /\ n \in Nat
  <2>1. n \in Nat  BY ByteAssumption
  <2>2. piece \in Seq(Byte)  BY <2>1, SeqDef, Zenon
  <2>3. Len(piece) = n  BY <2>1, <2>2
  <2> QED  BY <2>1, <2>2, <2>3
<1>5. fed \in Seq(Byte) /\ Len(fed) \in Nat /\ Eaten = Len(fed)
  BY <1>1, <1>2 DEF BytesInv, Eaten
<1>6. /\ u \in Seq(Byte) /\ Len(u) = Len(fed) + n
      /\ \A j \in 1..Len(fed) : u[j] = fed[j]
      /\ \A j \in 1..n : u[Len(fed) + j] = piece[j]
  BY <1>4, <1>5
<1> HIDE DEF u
<1>7. Eaten' = Eaten
  <2>1. Eaten' = Len(u) - n  BY <1>1, <1>4 DEF Eaten, u
  <2> QED  BY <2>1, <1>4, <1>5, <1>6
<1>8. BytesInv'
  <2>1. Len(piece) <= Len(u)  BY <1>4, <1>5, <1>6
  <2>2. \A j \in 1..Len(piece) : piece[j] = u[Eaten + j]
    BY <1>4, <1>5, <1>6
  <2>3. rest' = piece /\ fed' = u  BY <1>1 DEF u
  <2> QED  BY <1>4, <1>6, <1>7, <2>1, <2>2, <2>3, Zenon DEF BytesInv
<1>9. CounterTypeOK'  BY <1>1, <1>2 DEF CounterTypeOK, counterVars
<1>10. Accounted(fed, Eaten, records, p)'
  <2>1. Agrees(u, fed, Len(fed))  BY <1>4, <1>5, <1>6 DEF Agrees
  <2>2. Accounted(u, Len(fed), records, p)
    <3>1. Len(fed) <= Len(fed) /\ Len(u) >= Len(fed)  BY <1>4, <1>5, <1>6
    <3>2. Accounted(fed, Len(fed), records, p)  BY <1>3, <1>5
    <3> QED  BY ONLY <1>5, <1>6, <2>1, <3>1, <3>2, AccountedOn
  <2>3. fed' = u /\ records' = records /\ Eaten' = Len(fed)
    BY <1>1, <1>5, <1>7 DEF u, counterVars
  <2> QED  BY <2>2, <2>3, Zenon
<1>11. Standing(p)'
  <2>1. at' = at /\ left' = left /\ count' = count /\ fed' = u
    BY <1>1 DEF u, counterVars
  <2>2. at = "second" => p \in 1..Len(fed)
    BY <1>3, <1>5 DEF Standing
  <2>3. at = "second" => u[p].more  BY <1>3, <1>6, <2>2 DEF Standing
  <2>4. ASSUME at = "length"  PROVE InLength(p)'
    <3> DEFINE q == LengthAt(fed, p)
    <3>1. /\ p <= Eaten /\ q + count = Eaten + 1
          /\ \A j \in q..Eaten : fed[j].more
          /\ left = LengthValue(fed, q, count)
      BY <1>3, <2>4, Zenon DEF Standing, InLength
    <3>2. p \in 1..Len(fed)  BY <1>5, <3>1
    <3>3. LengthAt(u, p) = q  BY <1>6, <3>2 DEF LengthAt
    <3>4. q \in Nat \ {0}  BY <3>2 DEF LengthAt
    <3> HIDE DEF q
    <3>5. \A j \in q..Eaten : u[j].more
      <4>1. \A j \in q..Eaten : j \in 1..Len(fed)  BY <1>5, <3>4
      <4> QED  BY <1>6, <3>1, <4>1
    <3>6. LengthValue(u, q, count) = LengthValue(fed, q, count)
      <4>1. count \in 0..4 /\ q + count - 1 = Eaten
        BY <1>2, <1>5, <3>1, <3>4 DEF CounterTypeOK
      <4>2. \A j \in q..(q + count - 1) : u[j] = fed[j]
        BY <1>5, <1>6, <3>4, <4>1
      <4> QED  BY ONLY <3>4, <4>1, <4>2, LengthLocal, ZenonT(60)
    <3> QED  BY <1>7, <2>1, <3>1, <3>3, <3>5, <3>6, Zenon DEF InLength
  <2> QED  BY <1>3, <1>7, <2>1, <2>3, <2>4, Zenon DEF Standing
<1> QED  BY <1>8, <1>9, <1>10, <1>11 DEF CounterInv

LEMMA SkipKeeps == ASSUME CounterInv, SkipPayload  PROVE CounterInv'
<1> DEFINE skip == IF left < Len(rest) THEN left ELSE Len(rest)
<1>1. /\ rest # <<>> /\ at = "payload" /\ left' = left - skip
      /\ rest' = SubSeq(rest, skip + 1, Len(rest))
      /\ at' = (IF left = skip THEN "type" ELSE "payload")
      /\ records' = records /\ count' = count /\ fed' = fed
  BY DEF SkipPayload
<1>2. BytesInv /\ CounterTypeOK  BY DEF CounterInv
<1>3. PICK p \in Nat \ {0} :
        Standing(p) /\ Accounted(fed, Eaten, records, p)
  BY DEF CounterInv
<1>4. /\ rest \in Seq(Byte) /\ fed \in Seq(Byte) /\ Len(rest) \in Nat
      /\ Len(rest) <= Len(fed) /\ left \in Nat /\ left > 0
      /\ \A j \in 1..Len(rest) : rest[j] = fed[Eaten + j]
      /\ Eaten \in Nat /\ Eaten + Len(rest) = Len(fed)
      /\ p = Eaten + left + 1
  BY <1>1, <1>2, <1>3 DEF BytesInv, CounterTypeOK, Standing, Eaten
<1>5. skip \in 0..Len(rest) /\ skip <= left  BY <1>4
<1> HIDE DEF skip
<1> DEFINE r == SubSeq(rest, skip + 1, Len(rest))
<1>6. /\ r \in Seq(Byte) /\ Len(r) = Len(rest) - skip
      /\ \A j \in 1..Len(r) : r[j] = rest[skip + j]
  <2>1. r \in Seq(Byte)
    <3>1. \A i \in (skip + 1)..Len(rest) : rest[i] \in Byte  BY <1>4, <1>5
    <3>2. skip + 1 \in Int /\ Len(rest) \in Int  BY <1>4, <1>5
    <3> QED  BY <3>1, <3>2, SubSeqProperties
  <2>2. Len(r) = Len(rest) - skip
    <3>1. skip + 1 \in Nat /\ skip + 1 >= 1 /\ skip + 1 <= Len(rest) + 1
      BY <1>4, <1>5
    <3> QED  BY <1>4, <1>5, <3>1
  <2>3. \A j \in 1..Len(r) : r[j] = rest[skip + j]
    <3> SUFFICES ASSUME NEW j \in 1..Len(r)  PROVE r[j] = rest[skip + j]
      OBVIOUS
    <3>1. j \in 1..(Len(rest) - skip)  BY <2>2
    <3> QED  BY <1>4, <1>5, <3>1
  <2> QED  BY <2>1, <2>2, <2>3
<1> HIDE DEF r
<1>7. rest' = r  BY <1>1 DEF r
<1>8. Eaten' = Eaten + skip
  <2>1. Eaten' = Len(fed) - Len(r)  BY <1>1, <1>7 DEF Eaten
  <2>2. skip \in Nat  BY <1>4, <1>5
  <2>3. /\ Len(r) = Len(rest) - skip /\ Eaten + Len(rest) = Len(fed)
        /\ Eaten \in Nat /\ Len(rest) \in Nat
    BY <1>4, <1>6, Zenon
  <2>4. Len(fed) - Len(r) = Eaten + skip  BY ONLY <2>2, <2>3
  <2> QED  BY <2>1, <2>4
<1>9. BytesInv'
  <2>1. Len(r) <= Len(fed)  BY <1>4, <1>5, <1>6
  <2>2. \A j \in 1..Len(r) : r[j] = fed[Eaten + skip + j]
    <3> SUFFICES ASSUME NEW j \in 1..Len(r)
                 PROVE  r[j] = fed[Eaten + skip + j]
      OBVIOUS
    <3>1. skip + j \in 1..Len(rest) /\ r[j] = rest[skip + j]
      BY <1>4, <1>5, <1>6
    <3>2. Eaten + skip + j = Eaten + (skip + j)  BY <1>4, <1>5
    <3> QED  BY <1>4, <3>1, <3>2
  <2> QED  BY <1>1, <1>4, <1>6, <1>7, <1>8, <2>1, <2>2, Zenon DEF BytesInv
<1>10. left' \in Nat /\ (left = skip => left' = 0) /\ (left # skip => left' > 0)
  BY <1>1, <1>4, <1>5
<1>11. CounterTypeOK'
  BY <1>1, <1>2, <1>10 DEF CounterTypeOK
<1>12. Standing(p)'
  <2>1. PICK e, l : e = Eaten' /\ l = left'  OBVIOUS
  <2>2. e = Eaten + skip /\ l = left - skip  BY <1>1, <1>8, <2>1
  <2>3. p = e + l + 1 /\ (left = skip => p = e + 1)  BY <1>4, <1>5, <2>2
  <2> QED  BY <1>1, <2>1, <2>3 DEF Standing
<1>13. Accounted(fed, Eaten, records, p)'
  <2>1. Agrees(fed, fed, Eaten) /\ Eaten <= Eaten + skip
        /\ Eaten + skip <= Len(fed) /\ Eaten + skip \in Nat
    BY <1>4, <1>5 DEF Agrees
  <2>2. Accounted(fed, Eaten + skip, records, p)
    <3>1. PICK n, r0 : n = Eaten /\ r0 = records  OBVIOUS
    <3> QED  BY ONLY <1>3, <1>4, <2>1, <3>1, AccountedOn
  <2> QED  BY <1>1, <1>8, <2>2, Zenon
<1> QED  BY <1>9, <1>11, <1>12, <1>13 DEF CounterInv

LEMMA TypeKeeps == ASSUME CounterInv, ReadType  PROVE CounterInv'
<1> DEFINE byte == Head(rest)
<1>1. /\ at = "type" /\ TakeByte
      /\ at' = (IF byte.more THEN "second" ELSE "length")
      /\ records' = records /\ count' = count /\ left' = left
  BY DEF ReadType
<1>2. BytesInv /\ CounterTypeOK  BY DEF CounterInv
<1>3. PICK p \in Nat \ {0} :
        Standing(p) /\ Accounted(fed, Eaten, records, p)
  BY DEF CounterInv
<1>4. /\ BytesInv' /\ fed' = fed /\ Eaten' = Eaten + 1
      /\ Eaten \in Nat /\ byte = fed[Eaten + 1]
  BY <1>1, <1>2, ByteTaken
<1>5. CounterTypeOK'  BY <1>1, <1>2 DEF CounterTypeOK
<1>6. Accounted(fed, Eaten, records, p)'
  BY <1>1, <1>2, <1>3, <1>4, AccountedByte
<1>7. Standing(p)'
  <2>1. p = Eaten + 1 /\ count = 0 /\ left = 0
    BY <1>1, <1>2, <1>3 DEF Standing, CounterTypeOK
  <2>2. CASE fed[p].more
    BY <1>1, <1>4, <2>1, <2>2 DEF Standing
  <2>3. CASE ~fed[p].more
    <3>1. at' = "length" /\ LengthAt(fed, p) = p + 1 /\ Eaten + 1 = p
      BY <1>1, <1>4, <2>1, <2>3 DEF LengthAt
    <3>2. /\ p <= p /\ p + 1 + 0 = p + 1 /\ ~\E j : j \in (p + 1)..p
          /\ p + 1 \in Nat \ {0}
      OBVIOUS
    <3>3. LengthValue(fed, p + 1, 0) = 0
      <4>1. fed \in Seq(Byte) /\ 0 \in 0..4 /\ p + 1 + 0 <= Len(fed) + 1
        BY <1>1, <1>2, <3>1, ByteTaken DEF BytesInv
      <4> QED  BY ONLY <3>2, <4>1, LengthMeans
    <3>4. InLength(p)'
      <4>1. Eaten' = p /\ count' = 0 /\ left' = 0 /\ fed' = fed
        BY <1>1, <1>4, <2>1, <3>1
      <4> QED  BY <3>1, <3>2, <3>3, <4>1, Zenon DEF InLength
    <3> QED  BY <3>1, <3>4 DEF Standing
  <2> QED  BY <2>2, <2>3
<1> QED  BY <1>4, <1>5, <1>6, <1>7 DEF CounterInv

LEMMA SecondKeeps == ASSUME CounterInv, ReadSecondType  PROVE CounterInv'
<1>1. /\ at = "second" /\ TakeByte /\ at' = "length"
      /\ records' = records /\ count' = count /\ left' = left
  BY DEF ReadSecondType
<1>2. BytesInv /\ CounterTypeOK  BY DEF CounterInv
<1>3. PICK p \in Nat \ {0} :
        Standing(p) /\ Accounted(fed, Eaten, records, p)
  BY DEF CounterInv
<1>4. /\ BytesInv' /\ fed' = fed /\ Eaten' = Eaten + 1
      /\ Eaten \in Nat /\ Eaten + 1 \in 1..Len(fed)
  BY <1>1, <1>2, ByteTaken
<1>5. CounterTypeOK'  BY <1>1, <1>2 DEF CounterTypeOK
<1>6. Accounted(fed, Eaten, records, p)'
  BY <1>1, <1>2, <1>3, <1>4, AccountedByte
<1>7. Standing(p)'
  <2>1. p = Eaten /\ fed[p].more /\ count = 0 /\ left = 0
    BY <1>1, <1>2, <1>3 DEF Standing, CounterTypeOK
  <2>2. LengthAt(fed, p) = p + 2  BY <2>1 DEF LengthAt
  <2>3. /\ p <= p + 1 /\ p + 2 + 0 = p + 1 + 1
        /\ ~\E j : j \in (p + 2)..(p + 1)
    OBVIOUS
  <2>4. LengthValue(fed, p + 2, 0) = 0
    <3>1. /\ fed \in Seq(Byte) /\ 0 \in 0..4 /\ p + 2 + 0 <= Len(fed) + 1
          /\ p + 2 \in Nat \ {0}
      BY <1>2, <1>4, <2>1 DEF BytesInv
    <3> QED  BY ONLY <3>1, LengthMeans
  <2>5. InLength(p)'
    <3>1. Eaten' = p + 1 /\ count' = 0 /\ left' = 0 /\ fed' = fed
      BY <1>1, <1>4, <2>1
    <3> QED  BY <2>2, <2>3, <2>4, <3>1, Zenon DEF InLength
  <2> QED  BY <1>1, <2>5 DEF Standing
<1> QED  BY <1>4, <1>5, <1>6, <1>7 DEF CounterInv

LEMMA LengthKeeps == ASSUME CounterInv, ReadLength  PROVE CounterInv'
<1> DEFINE byte == Head(rest)
           length == left + byte.low * PlaceValue[count + 1]
<1>1. /\ at = "length" /\ TakeByte /\ left' = length
      /\ IF AsksForMore(byte)
         THEN count' = count + 1 /\ at' = at /\ records' = records
         ELSE /\ records' = records + 1
              /\ at' = AfterHeader(length)
              /\ count' = 0
  BY DEF ReadLength
<1>2. BytesInv /\ CounterTypeOK  BY DEF CounterInv
<1>3. PICK p \in Nat \ {0} :
        Standing(p) /\ Accounted(fed, Eaten, records, p)
  BY DEF CounterInv
<1>4. /\ BytesInv' /\ fed' = fed /\ Eaten' = Eaten + 1
      /\ Eaten \in Nat /\ Eaten + 1 \in 1..Len(fed) /\ byte = fed[Eaten + 1]
      /\ fed \in Seq(Byte) /\ count \in 0..3 /\ records \in Nat
  BY <1>1, <1>2, ByteTaken DEF BytesInv, CounterTypeOK
<1> DEFINE q == LengthAt(fed, p)
           n == Eaten + 1
<1>5. /\ p <= Eaten /\ q + count = n
      /\ \A j \in q..Eaten : fed[j].more
      /\ left = LengthValue(fed, q, count)
  BY <1>1, <1>3, Zenon DEF Standing, InLength
<1>6. p \in 1..Len(fed) /\ q \in Nat \ {0} /\ p < q
  BY <1>4, <1>5 DEF LengthAt
<1> HIDE DEF q, length
<1>7. /\ n \in p..Len(fed) /\ n \in q..(q + 3) /\ n \in Nat
      /\ n - q + 1 = count + 1 /\ n - 1 = Eaten /\ q <= n
  BY <1>4, <1>5, <1>6
<1>8. length = LengthValue(fed, q, count + 1) /\ length \in Nat
  <2> DEFINE m == count + 1
  <2>1. m \in 0..4 /\ m > 0 /\ q + m <= Len(fed) + 1
        /\ q + m - 1 = n /\ m - 1 = count
    BY <1>4, <1>5, <1>6, <1>7
  <2> HIDE DEF m
  <2>2. /\ LengthValue(fed, q, m) \in Nat
        /\ LengthValue(fed, q, m) =
             LengthValue(fed, q, m - 1) + fed[q + m - 1].low * PlaceValue[m]
    BY ONLY <1>4, <1>6, <2>1, LengthMeans
  <2>3. length = left + fed[n].low * PlaceValue[m]  BY <1>4 DEF length, m
  <2> QED  BY <1>5, <2>1, <2>2, <2>3, Zenon DEF m
<1>9. CASE AsksForMore(byte)
  <2>1. /\ count' = count + 1 /\ at' = at /\ records' = records
        /\ fed[n].more /\ count + 1 \in 0..3
    BY <1>1, <1>4, <1>9 DEF AsksForMore, LengthBytes
  <2>2. CounterTypeOK'
    BY <1>1, <1>2, <1>8, <2>1 DEF CounterTypeOK
  <2>3. Accounted(fed, Eaten, records, p)'
    BY <1>1, <1>2, <1>3, <1>4, <2>1, AccountedByte
  <2>4. InLength(p)'
    <3>1. /\ p <= n /\ q + (count + 1) = n + 1
      BY <1>4, <1>5, <1>6, <1>7
    <3>2. \A j \in q..n : fed[j].more
      <4>1. \A j \in q..n : j \in q..Eaten \/ j = n  BY <1>4, <1>6
      <4> QED  BY <1>5, <2>1, <4>1
    <3> QED
      BY <1>1, <1>4, <1>8, <2>1, <3>1, <3>2, Zenon DEF InLength, q
  <2>5. Standing(p)'  BY <1>1, <2>1, <2>4 DEF Standing
  <2> QED  BY <1>4, <2>2, <2>3, <2>5 DEF CounterInv
<1>10. CASE ~AsksForMore(byte)
  <2>0. PICK next : next = n + length + 1  OBVIOUS
  <2>1. /\ records' = records + 1 /\ at' = AfterHeader(length)
        /\ count' = 0 /\ left' = length
    BY <1>1, <1>10
  <2>2. CounterTypeOK'
    BY <1>2, <1>8, <2>1 DEF CounterTypeOK, AfterHeader
  <2>3. next \in Nat \ {0}  BY <1>7, <1>8, <2>0
  <2>4. Accounted(fed, Eaten, records, next)'
    <3>1. EndsLength(fed, q, n)
      <4>1. ~fed[n].more \/ count = 3
        BY <1>4, <1>10 DEF AsksForMore, LengthBytes
      <4> QED  BY <1>4, <1>5, <1>6, <4>1 DEF EndsLength, LengthBytes
    <3>2. \A j \in q..(n - 1) : fed[j].more  BY <1>5, <1>7
    <3>3. Accounted(fed, n - 1, records, p)  BY <1>3, <1>7
    <3> HIDE DEF n
    <3>4. Accounted(fed, n, records + 1,
                    n + LengthValue(fed, q, n - q + 1) + 1)
      <4>1. q = LengthAt(fed, p)  BY DEF q
      <4> QED
        BY ONLY <1>4, <1>6, <1>7, <3>1, <3>2, <3>3, <4>1, HeaderRead
    <3>5. n + LengthValue(fed, q, n - q + 1) + 1 = next
      BY <1>7, <1>8, <2>0
    <3>6. Accounted(fed, n, records + 1, next)  BY <3>4, <3>5
    <3>7. Eaten' = n  BY <1>4 DEF n
    <3> QED  BY <1>4, <2>1, <3>6, <3>7, Zenon
  <2>5. Standing(next)'
    <3>1. Eaten' = n /\ left' = length  BY <1>4, <2>1
    <3>2. length = 0 => next = n + 1  BY <1>7, <2>0
    <3>3. /\ at' = "type" \/ at' = "payload"
          /\ at' = "type" => length = 0
      BY <2>1 DEF AfterHeader
    <3>4. at' # "second" /\ at' # "length"  BY <3>3
    <3> QED
      BY <2>0, <3>1, <3>2, <3>3, <3>4, Zenon DEF Standing
  <2> QED  BY <1>4, <2>2, <2>3, <2>4, <2>5, Zenon DEF CounterInv
<1> QED  BY <1>9, <1>10

LEMMA CounterSafe == CounterInv => CountsRecords
<1> SUFFICES ASSUME CounterInv  PROVE CountsRecords
  OBVIOUS
<1>1. BytesInv /\ CounterTypeOK  BY DEF CounterInv
<1>2. PICK p \in Nat \ {0} :
        Standing(p) /\ Accounted(fed, Eaten, records, p)
  BY DEF CounterInv
<1>3. at = "payload" => left > 0  BY <1>1 DEF CounterTypeOK
<1>4. ASSUME rest = <<>>  PROVE records = HeadersFrom(fed, 1)
  <2>1. /\ fed \in Seq(Byte) /\ Len(fed) \in Nat /\ Eaten = Len(fed)
        /\ records \in Nat /\ left \in Nat /\ count \in 0..3
    BY <1>1, <1>4 DEF BytesInv, CounterTypeOK, Eaten
  <2>2. HeadersFrom(fed, 1) = records + HeadersFrom(fed, p)
    <3>1. Agrees(fed, fed, Eaten)  BY <2>1 DEF Agrees
    <3> QED  BY <1>2, <2>1, <3>1, Zenon DEF Accounted
  <2>3. HeadersFrom(fed, p) = 0
    <3>1. CASE p > Len(fed)  BY <2>1, <3>1, HeadersMean
    <3>2. CASE ~(p > Len(fed))
      <4>1. p \in 1..Len(fed)  BY <2>1, <3>2
      <4>2. LengthAt(fed, p) \in Nat \ {0}  BY <4>1 DEF LengthAt
      <4>3. /\ Len(fed) < LengthAt(fed, p) + 3
            /\ \A j \in LengthAt(fed, p)..Len(fed) : fed[j].more
        <5>1. CASE at = "second"
          <6>1. p = Len(fed) /\ fed[p].more
            BY <1>2, <2>1, <5>1 DEF Standing
          <6> QED  BY <2>1, <6>1 DEF LengthAt
        <5>2. CASE at = "length"
          <6>1. /\ LengthAt(fed, p) + count = Len(fed) + 1
                /\ \A j \in LengthAt(fed, p)..Len(fed) : fed[j].more
            BY <1>2, <2>1, <5>2, Zenon DEF Standing, InLength
          <6> QED  BY <2>1, <4>2, <6>1
        <5>3. at \in {"second", "length"}
          BY <1>1, <1>2, <2>1, <4>1 DEF Standing, CounterTypeOK
        <5> QED  BY <5>1, <5>2, <5>3
      <4>4. LastOfLength(fed, LengthAt(fed, p)) = 0
        BY ONLY <2>1, <4>2, <4>3, LengthCut
      <4>5. NextRecord(fed, p) = 0  BY <4>4 DEF NextRecord
      <4> QED  BY ONLY <2>1, <4>1, <4>5, p \in Nat \ {0}, HeadersMean
    <3> QED  BY <3>1, <3>2
  <2> QED  BY <2>1, <2>2, <2>3
<1> QED  BY <1>3, <1>4 DEF CountsRecords

(* The inductive invariant: wherever the pieces are cut, the counter       *)
(* stands in the record it would be in had it read the stream at once.     *)
THEOREM CounterInvariance == RCSpec => []CounterInv
<1>1. CounterInv /\ [RCNext]_rcVars => CounterInv'
  <2> SUFFICES ASSUME CounterInv, [RCNext]_rcVars  PROVE CounterInv'
    OBVIOUS
  <2>1. CASE RCNext
    BY <2>1, FeedKeeps, SkipKeeps, TypeKeeps, SecondKeeps, LengthKeeps, Zenon
       DEF RCNext
  <2>2. CASE UNCHANGED rcVars
    BY <2>2 DEF rcVars, counterVars, CounterInv, BytesInv, CounterTypeOK,
       Standing, InLength, Eaten
  <2> QED  BY <2>1, <2>2
<1> QED  BY RCInitially, <1>1, PTL DEF RCSpec

(* "Counts the records of an xlsb (BIFF12) stream fed to it in pieces"     *)
(* (RecordCounter): whatever the bytes, and wherever reads cut them, the   *)
(* count is that of a reader of the whole stream.                          *)
THEOREM CountCorrect == RCSpec => []CountsRecords
BY CounterInvariance, CounterSafe, PTL

-----------------------------------------------------------------------------
(* Sequences put one behind the other: where each begins, and that each    *)
(* place belongs to one of them.                                           *)
Offsets(off, ss, n) ==
    /\ off \in [0..n -> Nat] /\ off[0] = 0
    /\ \A k \in 1..n : off[k] = off[k - 1] + Len(ss[k])
Laid(s, off, ss, n, T) ==
    /\ s \in Seq(T) /\ Len(s) = off[n]
    /\ \A k \in 1..n : \A j \in 1..Len(ss[k]) : s[off[k - 1] + j] = ss[k][j]
    /\ \A p \in 1..Len(s) :
        \E k \in 1..n : \E j \in 1..Len(ss[k]) : p = off[k - 1] + j

StandsAfter(off, ss, k) ==
    /\ off[k - 1] \in Nat /\ off[k] \in Nat /\ Len(ss[k]) \in Nat
    /\ off[k] = off[k - 1] + Len(ss[k])

LEMMA OffsetsAre ==
  ASSUME NEW T, NEW n \in Nat, NEW ss \in [1..n -> Seq(T)], NEW off,
         Offsets(off, ss, n), NEW k \in 1..n
  PROVE  StandsAfter(off, ss, k)
<1>1. k - 1 \in 0..n /\ k \in 0..n  OBVIOUS
<1>2. ss[k] \in Seq(T)  OBVIOUS
<1>3. Len(ss[k]) \in Nat  BY <1>2
<1> QED  BY <1>1, <1>3 DEF Offsets, StandsAfter

LEMMA OffsetsGrow ==
  ASSUME NEW T, NEW n \in Nat, NEW ss \in [1..n -> Seq(T)], NEW off,
         Offsets(off, ss, n), NEW k \in 0..n, NEW l \in 0..n, k <= l
  PROVE  off[k] <= off[l]
<1> DEFINE S == {i \in 0..n : k <= i => off[k] <= off[i]}
<1>1. off \in [0..n -> Nat]  BY DEF Offsets
<1>2. 0 \in S  BY <1>1
<1>3. \A i \in 1..n : i - 1 \in S => i \in S
  <2> SUFFICES ASSUME NEW i \in 1..n, i - 1 \in S  PROVE i \in S
    OBVIOUS
  <2>1. off[i - 1] \in Nat /\ off[i] \in Nat /\ Len(ss[i]) \in Nat
        /\ off[i] = off[i - 1] + Len(ss[i])
    <3>1. StandsAfter(off, ss, i)  BY OffsetsAre, Zenon
    <3> QED  BY <3>1, Zenon DEF StandsAfter
  <2>2. off[k] \in Nat /\ i \in 0..n  BY <1>1
  <2>3. CASE k = i  BY <2>2, <2>3
  <2>4. CASE k # i
    <3>1. k <= i => k <= i - 1  BY <2>4
    <3>2. k <= i - 1 => off[k] <= off[i - 1]  OBVIOUS
    <3> HIDE DEF S
    <3>3. k <= i => off[k] <= off[i]  BY <2>1, <2>2, <3>1, <3>2
    <3> QED  BY <2>2, <3>3 DEF S
  <2> QED  BY <2>3, <2>4
<1> HIDE DEF S
<1>4. l \in S  BY <1>2, <1>3, Climbs
<1> QED  BY <1>4 DEF S

LEMMA LaidOneMore ==
  ASSUME NEW T, NEW n \in Nat, NEW ss \in [1..n -> Seq(T)], NEW off,
         Offsets(off, ss, n), NEW m \in 1..n, NEW s, Laid(s, off, ss, m - 1, T)
  PROVE  Laid(s \o ss[m], off, ss, m, T)
<1>0. /\ m - 1 \in 0..n /\ off[m - 1] \in Nat /\ off[m] \in Nat
      /\ Len(ss[m]) \in Nat /\ ss[m] \in Seq(T)
      /\ off[m] = off[m - 1] + Len(ss[m])
  <2>1. /\ off[m - 1] \in Nat /\ off[m] \in Nat /\ Len(ss[m]) \in Nat
        /\ off[m] = off[m - 1] + Len(ss[m])
    <3>1. off \in [0..n -> Nat] /\ off[m] = off[m - 1] + Len(ss[m])
      BY Zenon DEF Offsets
    <3>2. m \in 0..n /\ m - 1 \in 0..n /\ ss[m] \in Seq(T)  OBVIOUS
    <3>3. Len(ss[m]) \in Nat  BY ONLY <3>2
    <3> QED  BY ONLY <3>1, <3>2, <3>3
  <2>2. ss[m] \in Seq(T) /\ m - 1 \in 0..n  OBVIOUS
  <2> QED  BY ONLY <2>1, <2>2
<1> DEFINE h == s \o ss[m]
           L == Len(s)
<1>1. /\ s \in Seq(T) /\ L = off[m - 1] /\ ss[m] \in Seq(T)
      /\ L \in Nat /\ Len(ss[m]) \in Nat /\ off[m] = L + Len(ss[m])
  <2>1. s \in Seq(T) /\ L = off[m - 1]  BY DEF Laid
  <2>3. L \in Nat  BY <2>1
  <2> QED  BY ONLY <1>0, <2>1, <2>3
<1>2. /\ h \in Seq(T) /\ Len(h) = L + Len(ss[m])
      /\ \A i \in 1..L : h[i] = s[i]
      /\ \A i \in 1..Len(ss[m]) : h[L + i] = ss[m][i]
  <2>1. PICK t \in Seq(T) : t = ss[m]  BY <1>1
  <2>2. s \in Seq(T)  BY <1>1
  <2>3. /\ s \o t \in Seq(T) /\ Len(s \o t) = Len(s) + Len(t)
        /\ \A i \in 1..Len(s) : (s \o t)[i] = s[i]
        /\ \A i \in 1..Len(t) : (s \o t)[Len(s) + i] = t[i]
    BY ONLY <2>2, t \in Seq(T)
  <2> QED  BY ONLY <2>1, <2>3
<1> HIDE DEF h
<1>3. \A k \in 1..m : k \in 1..(m - 1) \/ k = m
  OBVIOUS
<1>4. ASSUME NEW k \in 1..m, NEW j \in 1..Len(ss[k])
      PROVE  h[off[k - 1] + j] = ss[k][j]
  <2>1. CASE k \in 1..(m - 1)
    <3>1. s[off[k - 1] + j] = ss[k][j]  BY <1>4, <2>1, Zenon DEF Laid
    <3>2. k \in 1..n /\ k \in 0..n /\ m - 1 \in 0..n /\ k <= m - 1  BY <2>1
    <3>3. /\ off[k - 1] \in Nat /\ Len(ss[k]) \in Nat
          /\ off[k] = off[k - 1] + Len(ss[k])
      <4>1. StandsAfter(off, ss, k)  BY <3>2, OffsetsAre, Zenon
      <4> QED  BY <4>1, Zenon DEF StandsAfter
    <3>4. off[k] <= L
      <4>1. off[k] <= off[m - 1]
        BY <3>2, OffsetsGrow, Zenon
      <4> QED  BY ONLY <1>1, <4>1
    <3>5. off[k - 1] + j \in 1..L
      <4>1. PICK x \in Nat : x = off[k - 1]  BY <3>3
      <4>2. PICK y \in Nat : y = Len(ss[k])  BY <3>3
      <4>3. off[k] = x + y  BY ONLY <3>3, <4>1, <4>2
      <4>4. j \in 1..y  BY <4>2
      <4>5. L \in Nat /\ x + y <= L  BY ONLY <1>1, <3>4, <4>3
      <4>6. x + j \in 1..L
        BY ONLY <4>4, <4>5, x \in Nat, y \in Nat
      <4> QED  BY ONLY <4>1, <4>6
    <3> QED  BY <1>2, <3>1, <3>5
  <2>2. CASE k = m  BY <1>1, <1>2, <1>4, <2>2
  <2> QED  BY <1>3, <2>1, <2>2
<1>5. ASSUME NEW p \in 1..Len(h)
      PROVE  \E k \in 1..m : \E j \in 1..Len(ss[k]) : p = off[k - 1] + j
  <2>1. CASE p <= L
    <3>1. p \in 1..L  BY <1>1, <1>2, <2>1
    <3>2. PICK k \in 1..(m - 1) : \E j \in 1..Len(ss[k]) : p = off[k - 1] + j
      BY <3>1, Zenon DEF Laid
    <3>3. k \in 1..m  OBVIOUS
    <3> QED  BY <3>2, <3>3
  <2>2. CASE ~(p <= L)
    <3>1. p - L \in 1..Len(ss[m]) /\ p = L + (p - L)
      BY ONLY <1>1, <1>2, <2>2, p \in 1..Len(h), SMTT(60)
    <3>2. m \in 1..m  OBVIOUS
    <3> QED  BY <1>1, <3>1, <3>2
  <2> QED  BY <2>1, <2>2
<1>6. Laid(h, off, ss, m, T)  BY <1>1, <1>2, <1>4, <1>5, Zenon DEF Laid
<1> QED  BY <1>6 DEF h

(* FlattenSeq lays the sequences behind one another. *)
LEMMA FlattenLays ==
  ASSUME NEW T, NEW n \in Nat, NEW ss \in [1..n -> Seq(T)]
  PROVE  \E off : Offsets(off, ss, n) /\ Laid(FlattenSeq(ss), off, ss, n, T)
<1>4. PICK f \in [0..n -> Seq(T)] : Runs(f, ss, n) /\ FlattenSeq(ss) = f[n]
  BY FlattenRuns
<1>5. /\ f[0] = <<>>
      /\ \A k \in 1..n : f[k] = f[k - 1] \o ss[k]
  BY <1>4, Zenon DEF Runs
<1> DEFINE off == [k \in 0..n |-> Len(f[k])]
<1>6. Offsets(off, ss, n)
  <2>1. \A k \in 0..n : f[k] \in Seq(T) /\ Len(f[k]) \in Nat
    <3>1. \A k \in 0..n : f[k] \in Seq(T)  OBVIOUS
    <3> QED  BY <3>1
  <2>2. off \in [0..n -> Nat] /\ off[0] = 0  BY <1>5, <2>1
  <2>3. ASSUME NEW k \in 1..n  PROVE off[k] = off[k - 1] + Len(ss[k])
    <3>1. k \in 0..n /\ k - 1 \in 0..n  OBVIOUS
    <3>2. f[k] = f[k - 1] \o ss[k] /\ f[k - 1] \in Seq(T) /\ ss[k] \in Seq(T)
      BY <1>5, <3>1
    <3>3. Len(f[k]) = Len(f[k - 1]) + Len(ss[k])  BY ONLY <3>2
    <3> QED  BY <3>1, <3>3
  <2> HIDE DEF off
  <2> QED  BY <2>2, <2>3 DEF Offsets
<1>7. \A k \in 0..n : off[k] = Len(f[k])  OBVIOUS
<1> HIDE DEF off
<1> DEFINE S == {k \in 0..n : Laid(f[k], off, ss, k, T)}
<1>8. 0 \in S
  <2>1. 0 \in 0..n /\ off[0] = Len(f[0])  BY <1>7
  <2>2. ~(\E k : k \in 1..0) /\ Len(<<>>) = 0 /\ f[0] \in Seq(T)  BY <2>1
  <2> QED  BY <1>5, <2>1, <2>2 DEF Laid
<1>9. \A k \in 1..n : k - 1 \in S => k \in S
  <2> SUFFICES ASSUME NEW k \in 1..n, k - 1 \in S  PROVE k \in S
    OBVIOUS
  <2>1. Laid(f[k - 1] \o ss[k], off, ss, k, T)  BY <1>6, LaidOneMore
  <2>2. k \in 0..n  OBVIOUS
  <2> QED  BY <1>5, <2>1, <2>2
<1> HIDE DEF S
<1>10. Laid(f[n], off, ss, n, T)
  <2>1. n \in 0..n  OBVIOUS
  <2>2. n \in S  BY <1>8, <1>9, <2>1, Climbs
  <2> QED  BY <2>2 DEF S
<1> QED  BY <1>4, <1>6, <1>10
-----------------------------------------------------------------------------
(* Where a sequence stands in a text.                                      *)
Placed(text, b, w) ==
    /\ b \in Nat /\ b + Len(w) <= Len(text)
    /\ \A j \in 1..Len(w) : text[b + j] = w[j]

LEMMA CatIs ==
  ASSUME NEW T, NEW s \in Seq(T), NEW t \in Seq(T)
  PROVE  /\ s \o t \in Seq(T) /\ Len(s \o t) = Len(s) + Len(t)
         /\ Placed(s \o t, 0, s) /\ Placed(s \o t, Len(s), t)
<1>1. /\ s \o t \in Seq(T) /\ Len(s \o t) = Len(s) + Len(t)
      /\ Len(s) \in Nat /\ Len(t) \in Nat
      /\ \A i \in 1..Len(s) : (s \o t)[i] = s[i]
      /\ \A i \in 1..Len(t) : (s \o t)[Len(s) + i] = t[i]
  OBVIOUS
<1> DEFINE h == s \o t
<1> HIDE DEF h
<1>2. \A i \in 1..Len(s) : 0 + i = i  BY <1>1
<1>3. Placed(h, 0, s)  BY <1>1, <1>2 DEF Placed, h
<1>4. Placed(h, Len(s), t)  BY <1>1 DEF Placed, h
<1> QED  BY <1>1, <1>3, <1>4 DEF h

LEMMA PlacedWithin ==
  ASSUME NEW T, NEW text \in Seq(T), NEW w \in Seq(T), NEW v \in Seq(T),
         NEW b, NEW c, Placed(text, b, w), Placed(w, c, v)
  PROVE  Placed(text, b + c, v)
<1>1. /\ Len(text) \in Nat /\ Len(w) \in Nat /\ Len(v) \in Nat
      /\ b \in Nat /\ c \in Nat
      /\ b + Len(w) <= Len(text) /\ c + Len(v) <= Len(w)
  BY DEF Placed
<1>2. b + c \in Nat /\ (b + c) + Len(v) <= Len(text)  BY ONLY <1>1
<1>3. ASSUME NEW j \in 1..Len(v)  PROVE text[(b + c) + j] = v[j]
  <2>1. c + j \in 1..Len(w) /\ b + (c + j) = (b + c) + j
    BY ONLY <1>1, j \in 1..Len(v)
  <2>2. w[c + j] = v[j]  BY Zenon DEF Placed
  <2>3. text[b + (c + j)] = w[c + j]  BY <2>1, Zenon DEF Placed
  <2> QED  BY ONLY <2>1, <2>2, <2>3
<1> QED  BY <1>2, <1>3, Zenon DEF Placed

(* A sequence that starts with another has all that the other has.         *)
LEMMA PlacedBefore ==
  ASSUME NEW T, NEW s \in Seq(T), NEW t \in Seq(T), NEW v \in Seq(T),
         NEW b, Placed(s, b, v)
  PROVE  Placed(s \o t, b, v)
<1>1. s \o t \in Seq(T) /\ Placed(s \o t, 0, s)  BY CatIs
<1>2. Placed(s \o t, 0 + b, v)  BY <1>1, PlacedWithin
<1>3. b \in Nat  BY DEF Placed
<1>4. 0 + b = b  BY ONLY <1>3
<1> QED  BY ONLY <1>2, <1>4

-----------------------------------------------------------------------------
(* What an attribute looks like: where its sign is, and its quotes.        *)
Gap(a) == IF a.spaced THEN <<Space>> ELSE <<>>
Name(a) == Len(a.name)
Spaces(a) == Len(Gap(a))
Opened(a) == 3 + Name(a) + 2 * Spaces(a)
Shape(w, a) ==
    /\ w \in Seq(Piece)
    /\ Len(w) = Opened(a) + Len(a.value) + 1
    /\ Placed(w, 0, <<Space>>)
    /\ Placed(w, 1, a.name)
    /\ Placed(w, 1 + Name(a), Gap(a))
    /\ Placed(w, 1 + Name(a) + Spaces(a), <<"=">>)
    /\ Placed(w, 2 + Name(a) + Spaces(a), Gap(a))
    /\ Placed(w, Opened(a) - 1, <<a.quote>>)
    /\ Placed(w, Opened(a), a.value)
    /\ Placed(w, Opened(a) + Len(a.value), <<a.quote>>)

LEMMA AttributeIs ==
  ASSUME NEW a \in Attribute
  PROVE  /\ a.name \in Names /\ a.name \in Seq(Piece) /\ Name(a) \in {1, 2}
         /\ Gap(a) \in Seq(Piece) /\ Spaces(a) \in {0, 1}
         /\ a.quote \in Quotes /\ <<a.quote>> \in Seq(Piece)
         /\ a.value \in Seq(Piece) /\ Len(a.value) \in Nat
         /\ a.quote \notin Range(a.value)
         /\ <<Space>> \in Seq(Piece) /\ <<"=">> \in Seq(Piece)
         /\ Opened(a) \in Nat
<1>1. a.name \in Names /\ a.spaced \in BOOLEAN /\ a.quote \in Quotes
      /\ a.value \in Values /\ a.quote \notin Range(a.value)
  BY DEF Attribute
<1>2. a.name \in Seq(Piece) /\ Name(a) \in {1, 2}
  <2>1. Attr \in Piece /\ "x" \in Piece /\ "." \in Piece  BY DEF Piece
  <2>2. /\ <<Attr>> \in Seq(Piece) /\ <<"x">> \in Seq(Piece)
        /\ <<"x", Attr>> \in Seq(Piece) /\ <<".", Attr>> \in Seq(Piece)
        /\ <<Attr, "x">> \in Seq(Piece)
    BY ONLY <2>1
  <2>3. /\ Len(<<Attr>>) = 1 /\ Len(<<"x">>) = 1
        /\ Len(<<"x", Attr>>) = 2 /\ Len(<<".", Attr>>) = 2
        /\ Len(<<Attr, "x">>) = 2
    OBVIOUS
  <2>4. \/ a.name = <<Attr>> \/ a.name = <<"x">>
        \/ a.name = <<"x", Attr>> \/ a.name = <<".", Attr>>
        \/ a.name = <<Attr, "x">>
    BY <1>1, Zenon DEF Names
  <2>5. Len(a.name) = 1 \/ Len(a.name) = 2  BY ONLY <2>3, <2>4, Zenon
  <2> QED  BY ONLY <2>2, <2>4, <2>5, Zenon DEF Name
<1>3. Gap(a) \in Seq(Piece) /\ Spaces(a) \in {0, 1}
  <2>1. Space \in Piece  BY DEF Piece
  <2>2. /\ <<Space>> \in Seq(Piece) /\ <<>> \in Seq(Piece)
        /\ Len(<<Space>>) = 1 /\ Len(<<>>) = 0
    BY ONLY <2>1
  <2>3. Gap(a) = <<Space>> \/ Gap(a) = <<>>  BY Zenon DEF Gap
  <2> QED  BY ONLY <2>2, <2>3, Zenon DEF Spaces
<1>4. <<a.quote>> \in Seq(Piece)  BY <1>1 DEF Quotes, Piece
<1>6. a.value \in Seq(Piece)  BY <1>1, HeadAssumption
<1>7. Len(a.value) \in Nat  BY ONLY <1>6
<1>8. <<Space>> \in Seq(Piece) /\ <<"=">> \in Seq(Piece)  BY DEF Piece
<1>9. Opened(a) \in Nat  BY ONLY <1>2, <1>3 DEF Opened
<1> QED  BY <1>1, <1>2, <1>3, <1>4, <1>6, <1>7, <1>8, <1>9

LEMMA WrittenIs ==
  ASSUME NEW a \in Attribute
  PROVE  Shape(Written(a), a)
<1> DEFINE g == Gap(a)
           q == <<a.quote>>
           c1 == <<Space>> \o a.name
           c2 == c1 \o g
           c3 == c2 \o <<"=">>
           c4 == c3 \o g
           c5 == c4 \o q
           c6 == c5 \o a.value
           c7 == c6 \o q
<1>0. Written(a) = c7  BY Zenon DEF Written, Gap
<1>1. PICK m \in Seq(Piece), v \in Seq(Piece), e \in Seq(Piece), r \in Seq(Piece) :
        m = a.name /\ v = a.value /\ e = g /\ r = q
  BY AttributeIs
<1>2. PICK z \in Seq(Piece), s \in Seq(Piece) : z = <<Space>> /\ s = <<"=">>
  BY AttributeIs
<1>3. /\ Len(z) = 1 /\ Len(s) = 1 /\ Len(r) = 1
      /\ Len(m) = Name(a) /\ Len(e) = Spaces(a)
  BY <1>1, <1>2 DEF Name, Spaces
<1> HIDE DEF g, q
<1>4. /\ c1 = z \o m /\ c2 = c1 \o e /\ c3 = c2 \o s /\ c4 = c3 \o e
      /\ c5 = c4 \o r /\ c6 = c5 \o v /\ c7 = c6 \o r
  BY <1>1, <1>2
<1> HIDE DEF c1, c2, c3, c4, c5, c6, c7
<1>11. c1 \in Seq(Piece) /\ Len(c1) = Len(z) + Len(m)
       /\ Placed(c1, 0, z) /\ Placed(c1, Len(z), m)
  BY ONLY <1>4, z \in Seq(Piece), m \in Seq(Piece), CatIs
<1>12. c2 \in Seq(Piece) /\ Len(c2) = Len(c1) + Len(e)
       /\ Placed(c2, Len(c1), e)
  BY ONLY <1>4, <1>11, e \in Seq(Piece), CatIs
<1>13. c3 \in Seq(Piece) /\ Len(c3) = Len(c2) + Len(s)
       /\ Placed(c3, Len(c2), s)
  BY ONLY <1>4, <1>12, s \in Seq(Piece), CatIs
<1>14. c4 \in Seq(Piece) /\ Len(c4) = Len(c3) + Len(e)
       /\ Placed(c4, Len(c3), e)
  BY ONLY <1>4, <1>13, e \in Seq(Piece), CatIs, ZenonT(60)
<1>15. c5 \in Seq(Piece) /\ Len(c5) = Len(c4) + Len(r)
       /\ Placed(c5, Len(c4), r)
  BY ONLY <1>4, <1>14, r \in Seq(Piece), CatIs, ZenonT(60)
<1>16. c6 \in Seq(Piece) /\ Len(c6) = Len(c5) + Len(v)
       /\ Placed(c6, Len(c5), v)
  BY ONLY <1>4, <1>15, v \in Seq(Piece), CatIs, ZenonT(60)
<1>17. c7 \in Seq(Piece) /\ Len(c7) = Len(c6) + Len(r)
       /\ Placed(c7, Len(c6), r)
  BY ONLY <1>4, <1>16, r \in Seq(Piece), CatIs, ZenonT(60)
<1>20. ASSUME NEW b, NEW w \in Seq(Piece)
       PROVE  /\ Placed(c6, b, w) => Placed(c7, b, w)
              /\ Placed(c5, b, w) => Placed(c6, b, w)
              /\ Placed(c4, b, w) => Placed(c5, b, w)
              /\ Placed(c3, b, w) => Placed(c4, b, w)
              /\ Placed(c2, b, w) => Placed(c3, b, w)
              /\ Placed(c1, b, w) => Placed(c2, b, w)
  <2>1. \A x \in Seq(Piece), y \in Seq(Piece) :
          Placed(x, b, w) => Placed(x \o y, b, w)
    BY PlacedBefore
  <2> QED
    BY ONLY <1>4, <1>11, <1>12, <1>13, <1>14, <1>15, <1>16, <2>1, Zenon,
       v \in Seq(Piece), e \in Seq(Piece), r \in Seq(Piece), s \in Seq(Piece)
<1>21. /\ Placed(c7, 0, z) /\ Placed(c7, Len(z), m) /\ Placed(c7, Len(c1), e)
       /\ Placed(c7, Len(c2), s) /\ Placed(c7, Len(c3), e)
       /\ Placed(c7, Len(c4), r) /\ Placed(c7, Len(c5), v)
       /\ Placed(c7, Len(c6), r)
  BY <1>11, <1>12, <1>13, <1>14, <1>15, <1>16, <1>17, <1>20, Zenon
<1>22. PICK n \in Nat, k \in Nat, l \in Nat : n = Name(a) /\ k = Spaces(a) /\ l = Len(v)
  BY AttributeIs, <1>1
<1>23. /\ Len(z) = 1 /\ Len(c1) = 1 + n /\ Len(c2) = 1 + n + k
       /\ Len(c3) = 2 + n + k /\ Len(c4) = (3 + n + 2 * k) - 1
       /\ Len(c5) = 3 + n + 2 * k /\ Len(c6) = (3 + n + 2 * k) + l
       /\ Len(c7) = (3 + n + 2 * k) + l + 1
  <2>1. Len(c1) = 1 + n  BY ONLY <1>3, <1>11, <1>22
  <2>2. Len(c2) = 1 + n + k  BY ONLY <1>3, <1>12, <1>22, <2>1
  <2>3. Len(c3) = 2 + n + k  BY ONLY <1>3, <1>13, <2>2, n \in Nat, k \in Nat
  <2>4. Len(c4) = (3 + n + 2 * k) - 1 
    BY ONLY <1>3, <1>14, <1>22, <2>3, n \in Nat, k \in Nat, SMTT(60)
  <2>5. Len(c5) = 3 + n + 2 * k  BY ONLY <1>3, <1>15, <2>4, n \in Nat, k \in Nat
  <2>6. Len(c6) = (3 + n + 2 * k) + l  BY ONLY <1>16, <1>22, <2>5
  <2>7. Len(c7) = (3 + n + 2 * k) + l + 1  BY ONLY <1>3, <1>17, <2>6
  <2> QED  BY ONLY <1>3, <2>1, <2>2, <2>3, <2>4, <2>5, <2>6, <2>7
<1>24. Opened(a) = 3 + n + 2 * k  BY ONLY <1>22 DEF Opened
<1>25. Shape(c7, a)
  <2>1. g = Gap(a) /\ q = <<a.quote>>  BY Zenon DEF g, q
  <2>2. Len(a.value) = l  BY <1>1, <1>22
  <2> QED  BY ONLY <1>1, <1>2, <1>17, <1>21, <1>22, <1>23, <1>24, <2>1, <2>2 DEF Shape
<1> QED  BY ONLY <1>0, <1>25

-----------------------------------------------------------------------------
(* The value the scan reads is the number the value is, held at the most   *)
(* there is at every digit.                                                *)
Counted(v) == v # <<>> /\ Range(v) \subseteq Digits
Clear(v) == Range(v) \subseteq Digits \/ Range(v) \cap Digits = {}
NumberOf(f, v) ==
    f = [k \in 0..Len(v) |-> IF k = 0 THEN 0
                             ELSE 10 * f[k - 1] + Worth[v[k]]]

LEMMA WorthIs == \A d \in Digits : Worth[d] \in Nat
<1> SUFFICES ASSUME NEW d \in Digits  PROVE Worth[d] \in Nat  OBVIOUS
<1>1. d = "0" \/ d = "1" \/ d = "9"  BY DEF Digits
<1> QED  BY <1>1 DEF Worth

LEMMA HeldAtMost ==
  ASSUME NEW n \in Nat, NEW d \in Nat
  PROVE  Saturated(10 * Saturated(n) + d) = Saturated(10 * n + d)
<1>1. CountMax \in Nat  BY HeadAssumption
<1>2. CASE n > CountMax
  <2>1. Saturated(n) = CountMax  BY <1>2 DEF Saturated
  <2>2. 10 * n + d > CountMax  BY ONLY <1>1, <1>2, n \in Nat, d \in Nat
  <2>3. 10 * CountMax + d > CountMax \/ 10 * CountMax + d = CountMax
    BY ONLY <1>1, d \in Nat
  <2> QED  BY ONLY <2>1, <2>2, <2>3 DEF Saturated
<1>3. CASE ~(n > CountMax)  BY ONLY <1>3 DEF Saturated
<1> QED  BY <1>2, <1>3

LEMMA NumberExists ==
  ASSUME NEW v \in Seq(Digits)
  PROVE  \E f \in [0..Len(v) -> Nat] : NumberOf(f, v) /\ Number(v) = f[Len(v)]
<1> DEFINE n == Len(v)
           G == [k \in 1..n |-> [x \in Nat |-> 10 * x + Worth[v[k]]]]
<1>1. n \in Nat /\ \A k \in 1..n : v[k] \in Digits  OBVIOUS
<1> HIDE DEF n
<1>2. \A k \in 1..n : Worth[v[k]] \in Nat  BY <1>1, WorthIs, Zenon
<1>3. \A x \in Nat, y \in Nat : 10 * x + y \in Nat  OBVIOUS
<1>4. G \in [1..n -> [Nat -> Nat]]  BY ONLY <1>2, <1>3, Zenon
<1>5. \A k \in 1..n, x \in Nat : G[k][x] = 10 * x + Worth[v[k]]
  BY Zenon
<1> HIDE DEF G
<1>6. PICK f \in [0..n -> Nat] : Carried(f, 0, G, n)
  BY <1>1, <1>4, CarriedExists
<1>7. \A k \in 0..n : f[k] = IF k = 0 THEN 0 ELSE G[k][f[k - 1]]
  BY <1>6, Zenon DEF Carried
<1>8. \A k \in 0..n : k # 0 => k \in 1..n /\ k - 1 \in 0..n  BY <1>1
<1>9. \A k \in 0..n : f[k] = IF k = 0 THEN 0 ELSE 10 * f[k - 1] + Worth[v[k]]
  BY <1>5, <1>7, <1>8, Zenon
<1>10. NumberOf(f, v)
  <2>1. f = [k \in 0..n |-> f[k]]  OBVIOUS
  <2>2. f = [k \in 0..n |-> IF k = 0 THEN 0 ELSE 10 * f[k - 1] + Worth[v[k]]]
    BY ONLY <1>9, <2>1, Zenon
  <2> QED  BY ONLY <2>2, Zenon DEF NumberOf, n
<1> DEFINE h == CHOOSE g : NumberOf(g, v)
<1>11. Number(v) = h[Len(v)]  BY Zenon DEF Number, NumberOf
<1>12. NumberOf(h, v)  BY <1>10, Zenon
<1> HIDE DEF h
<1>13. \A k \in 0..n : h[k] = IF k = 0 THEN 0 ELSE 10 * h[k - 1] + Worth[v[k]]
  BY <1>12, Zenon DEF NumberOf, n
<1> DEFINE S == {k \in 0..n : h[k] = f[k]}
<1>14. 0 \in S
  <2>1. 0 \in 0..n  BY <1>1
  <2> QED  BY <1>9, <1>13, <2>1, Zenon
<1>15. \A k \in 1..n : k - 1 \in S => k \in S
  <2>1. \A k \in 1..n : k \in 0..n /\ k # 0  BY <1>1
  <2> QED  BY <1>9, <1>13, <2>1, Zenon
<1> HIDE DEF S
<1>16. n \in S
  <2>1. n \in 0..n  BY <1>1
  <2> QED  BY <1>1, <1>14, <1>15, <2>1, Climbs
<1>17. h[n] = f[n]  BY <1>16 DEF S
<1> QED  BY <1>6, <1>10, <1>11, <1>17 DEF n

(* The digits of a value that stands in a text, read by the scan.          *)
UpTo(text, i, l, g) ==
    g = [k \in 0..l |->
            IF k = 0 THEN 0
            ELSE IF text[i + k - 1] \in Digits
            THEN Saturated(10 * g[k - 1] + Worth[text[i + k - 1]])
            ELSE g[k - 1]]

LEMMA DigitsRead ==
  ASSUME NEW v \in Seq(Digits), NEW text, NEW c \in Nat,
         \A j \in 1..Len(v) : text[c + j] = v[j],
         NEW g, g = CHOOSE h : UpTo(text, c + 1, Len(v), h)
  PROVE  g[Len(v)] = Saturated(Number(v))
<1> DEFINE n == Len(v)
<1>1. n \in Nat /\ \A k \in 1..n : v[k] \in Digits  OBVIOUS
<1>2. PICK f \in [0..n -> Nat] : NumberOf(f, v) /\ Number(v) = f[n]
  BY NumberExists
<1>3. \A k \in 0..n : f[k] = IF k = 0 THEN 0 ELSE 10 * f[k - 1] + Worth[v[k]]
  BY <1>2, Zenon DEF NumberOf
<1>4. \A k \in 1..n : text[c + k] = v[k]  OBVIOUS
<1> HIDE DEF n
<1> DEFINE e == [k \in 0..n |-> Saturated(f[k])]
<1>5. \A k \in 1..n : /\ k \in 0..n /\ k # 0 /\ k - 1 \in 0..n
                      /\ (c + 1) + k - 1 = c + k
  BY <1>1
<1>6. ASSUME NEW k \in 1..n
      PROVE  /\ text[(c + 1) + k - 1] \in Digits
             /\ Saturated(f[k])
                  = Saturated(10 * Saturated(f[k - 1])
                                + Worth[text[(c + 1) + k - 1]])
  <2>1. text[(c + 1) + k - 1] = v[k] /\ v[k] \in Digits
    BY ONLY <1>1, <1>4, <1>5, k \in 1..n
  <2>2. f[k] = 10 * f[k - 1] + Worth[v[k]]  BY <1>3, <1>5, Zenon
  <2>3. f[k - 1] \in Nat /\ Worth[v[k]] \in Nat
    BY <1>2, <1>5, <2>1, WorthIs
  <2>4. Saturated(10 * Saturated(f[k - 1]) + Worth[v[k]])
          = Saturated(10 * f[k - 1] + Worth[v[k]])
    BY ONLY <2>3, HeldAtMost
  <2> QED  BY ONLY <2>1, <2>2, <2>4
<1>7. \A k \in 0..n : k = 0 \/ k \in 1..n  BY <1>1
<1>8. UpTo(text, c + 1, n, e)
  <2>1. \A k \in 0..n : e[k] = Saturated(f[k])  BY Zenon
  <2>2. e = [k \in 0..n |-> e[k]]  OBVIOUS
  <2> HIDE DEF e
  <2>3. ASSUME NEW k \in 0..n
        PROVE  e[k] = IF k = 0 THEN 0
            ELSE IF text[(c + 1) + k - 1] \in Digits
            THEN Saturated(10 * e[k - 1] + Worth[text[(c + 1) + k - 1]])
            ELSE e[k - 1]
    <3>1. CASE k = 0
      <4>1. f[k] = 0  BY <1>3, <3>1, Zenon
      <4>2. CountMax \in Nat  BY HeadAssumption
      <4>3. Saturated(0) = 0  BY <4>2 DEF Saturated
      <4> QED  BY <2>1, <3>1, <4>1, <4>3, Zenon
    <3>2. CASE k \in 1..n
      <4>1. e[k - 1] = Saturated(f[k - 1]) /\ e[k] = Saturated(f[k]) /\ k # 0
        BY <1>5, <2>1, <3>2, Zenon
      <4>2. /\ text[(c + 1) + k - 1] \in Digits
            /\ Saturated(f[k])
                  = Saturated(10 * Saturated(f[k - 1])
                                + Worth[text[(c + 1) + k - 1]])
        BY <1>6, <3>2, Zenon
      <4> QED  BY ONLY <4>1, <4>2, Zenon
    <3> QED  BY <1>7, <3>1, <3>2, Zenon
  <2>4. e = [k \in 0..n |->
            IF k = 0 THEN 0
            ELSE IF text[(c + 1) + k - 1] \in Digits
            THEN Saturated(10 * e[k - 1] + Worth[text[(c + 1) + k - 1]])
            ELSE e[k - 1]]
    BY ONLY <2>2, <2>3, Zenon
  <2> QED  BY ONLY <2>4, Zenon DEF UpTo
<1>9. UpTo(text, c + 1, n, g)  BY <1>8, Zenon DEF n
<1>10. \A k \in 0..n : e[k] = Saturated(f[k])  BY Zenon
<1> HIDE DEF e
<1> DEFINE S == {k \in 0..n : g[k] = e[k]}
<1>11. ASSUME NEW k \in 0..n
       PROVE  /\ g[k] = IF k = 0 THEN 0
                ELSE IF text[(c + 1) + k - 1] \in Digits
                THEN Saturated(10 * g[k - 1] + Worth[text[(c + 1) + k - 1]])
                ELSE g[k - 1]
              /\ e[k] = IF k = 0 THEN 0
                ELSE IF text[(c + 1) + k - 1] \in Digits
                THEN Saturated(10 * e[k - 1] + Worth[text[(c + 1) + k - 1]])
                ELSE e[k - 1]
  BY <1>8, <1>9, ZenonT(60) DEF UpTo
<1>12. 0 \in S
  <2>1. 0 \in 0..n  BY <1>1
  <2> QED  BY <1>11, <2>1, Zenon
<1>13. \A k \in 1..n : k - 1 \in S => k \in S
  <2> SUFFICES ASSUME NEW k \in 1..n, g[k - 1] = e[k - 1]  PROVE g[k] = e[k]
    BY <1>5, Zenon
  <2>1. k \in 0..n /\ k # 0  BY <1>5
  <2> QED  BY <1>11, <2>1, Zenon
<1> HIDE DEF S
<1>14. n \in S
  <2>1. n \in 0..n  BY <1>1
  <2> QED  BY <1>1, <1>12, <1>13, <2>1, Climbs
<1>15. g[n] = e[n] /\ n \in 0..n  BY <1>14 DEF S
<1> QED  BY <1>2, <1>10, <1>15, Zenon DEF n

LEMMA ValueMeans ==
  ASSUME NEW text \in Seq(Piece), NEW v \in Seq(Piece),
         NEW quote \in Quotes, NEW c, quote \notin Range(v), Clear(v),
         Placed(text, c, v), Placed(text, c + Len(v), <<quote>>)
  PROVE  ValueAt(text, c + 1, quote) = IF Counted(v) THEN Saturated(Number(v))
                                       ELSE None
<1> DEFINE i == c + 1
           l == Len(v)
           stops == {j \in i..Len(text) : text[j] = quote}
           last == IF stops = {} THEN Len(text)
                   ELSE (CHOOSE j \in stops : \A k \in stops : j <= k) - 1
<1>1. l \in Nat /\ DOMAIN v = 1..l /\ \A j \in 1..l : v[j] \in Range(v)
  BY DEF Range
<1>2. quote \notin Range(v)  OBVIOUS
<1>3. /\ c \in Nat /\ Len(text) \in Nat
      /\ \A j \in 1..l : text[c + j] = v[j]
  BY DEF Placed
<1>4. (c + l) + 1 <= Len(text) /\ text[(c + l) + 1] = quote
  <2>1. Len(<<quote>>) = 1 /\ <<quote>>[1] = quote /\ 1 \in 1..1  OBVIOUS
  <2> QED  BY ONLY <2>1, Placed(text, c + Len(v), <<quote>>) DEF Placed
<1> HIDE DEF l
<1>5. (c + l) + 1 \in stops  BY <1>1, <1>3, <1>4
<1>6. \A k \in stops : (c + l) + 1 <= k
  <2> SUFFICES ASSUME NEW k \in stops, ~((c + l) + 1 <= k)  PROVE FALSE
    OBVIOUS
  <2>1. k \in i..Len(text) /\ text[k] = quote  OBVIOUS
  <2> HIDE DEF stops
  <2>2. k - c \in 1..l /\ c + (k - c) = k
    BY ONLY <1>1, <1>3, <2>1, ~((c + l) + 1 <= k)
  <2>3. text[k] = v[k - c]  BY ONLY <1>3, <2>2
  <2> QED  BY ONLY <1>1, <1>2, <2>1, <2>2, <2>3
<1>7. stops \subseteq Int  BY <1>3
<1> HIDE DEF stops
<1>8. last = c + l
  <2> DEFINE z == CHOOSE j \in stops : \A k \in stops : j <= k
  <2>1. z \in stops /\ \A k \in stops : z <= k  BY <1>5, <1>6, Zenon
  <2> HIDE DEF z
  <2>2. z = (c + l) + 1
    <3>1. z <= (c + l) + 1 /\ (c + l) + 1 <= z /\ z \in Int /\ (c + l) + 1 \in Int
      BY <1>5, <1>6, <1>7, <2>1
    <3> QED  BY ONLY <3>1
  <2>3. last = z - 1  BY <1>5 DEF z
  <2> QED  BY ONLY <1>1, <1>3, <2>2, <2>3
<1> DEFINE g == CHOOSE h : UpTo(text, i, (last - i) + 1, h)
<1>9. ValueAt(text, i, quote)
        = IF \A j \in i..last : text[j] \notin Digits THEN None
          ELSE g[(last - i) + 1]
  BY Zenon DEF ValueAt, UpTo, First, stops
<1> HIDE DEF last
<1>10. (last - i) + 1 = l  BY ONLY <1>1, <1>3, <1>8
<1>11. \A j \in i..last : j - c \in 1..l /\ c + (j - c) = j
  BY ONLY <1>1, <1>3, <1>8
<1>12. \A j \in 1..l : c + j \in i..last  BY ONLY <1>1, <1>3, <1>8
<1>13. CASE Counted(v)
  <2>1. v \in Seq(Digits)
    <3>1. \A j \in 1..l : v[j] \in Digits
      BY <1>1, <1>13, Zenon DEF Counted
    <3>2. v = [j \in 1..l |-> v[j]]  BY <1>1
    <3>3. v \in [1..l -> Digits]  BY ONLY <3>1, <3>2, Zenon
    <3> QED  BY ONLY <1>1, <3>3
  <2>2. 1 \in 1..l /\ v[1] \in Digits
    <3>1. l # 0  BY <2>1, <1>13 DEF Counted, l
    <3> QED  BY <1>1, <2>1, <3>1 DEF l
  <2>3. c + 1 \in i..last /\ text[c + 1] \in Digits  BY <1>3, <1>12, <2>2
  <2>4. ValueAt(text, i, quote) = g[l]  BY <1>9, <1>10, <2>3
  <2>5. g = CHOOSE h : UpTo(text, c + 1, Len(v), h)  BY <1>10 DEF l
  <2> HIDE DEF g
  <2>6. g[l] = Saturated(Number(v))
    BY <1>3, <2>1, <2>5, DigitsRead DEF l
  <2> QED  BY <1>13, <2>4, <2>6
<1>14. CASE ~Counted(v)
  <2>1. \A j \in 1..l : v[j] \notin Digits
    <3>1. CASE Range(v) \subseteq Digits
      <4>1. v = <<>>  BY <1>14, <3>1 DEF Counted
      <4>2. l = 0  BY <4>1 DEF l
      <4> QED  BY ONLY <4>2
    <3>2. CASE Range(v) \cap Digits = {}
      BY <1>1, <3>2
    <3> QED  BY <3>1, <3>2 DEF Clear
  <2>2. \A j \in i..last : text[j] \notin Digits
    BY <1>3, <1>11, <2>1, Zenon
  <2> QED  BY <1>9, <1>14, <2>2, Zenon
<1> QED  BY <1>13, <1>14

-----------------------------------------------------------------------------
(* The words in an attribute, and the count the scan takes from each.      *)
LEMMA PlacedAt ==
  ASSUME NEW text \in Seq(Piece), NEW w \in Seq(Piece), NEW b,
         Placed(text, b, w), NEW j \in 1..Len(w)
  PROVE  /\ b + j \in 1..Len(text) /\ text[b + j] = w[j]
         /\ At(text, b + j) = w[j]
<1>1. /\ Len(text) \in Nat /\ Len(w) \in Nat /\ b \in Nat
      /\ b + Len(w) <= Len(text)
  BY DEF Placed
<1>2. b + j \in 1..Len(text)  BY ONLY <1>1, j \in 1..Len(w)
<1>3. text[b + j] = w[j]  BY Zenon DEF Placed
<1>4. DOMAIN text = 1..Len(text)  OBVIOUS
<1> QED  BY ONLY <1>2, <1>3, <1>4, Zenon DEF At

(* A sequence of one piece. *)
LEMMA OneAt ==
  ASSUME NEW text \in Seq(Piece), NEW x \in Piece, NEW b,
         Placed(text, b, <<x>>)
  PROVE  /\ b \in Nat /\ b + 1 \in 1..Len(text) /\ text[b + 1] = x
         /\ At(text, b + 1) = x
<1>1. <<x>> \in Seq(Piece) /\ 1 \in 1..Len(<<x>>) /\ <<x>>[1] = x  OBVIOUS
<1>2. b \in Nat  BY DEF Placed
<1>3. PICK w : w = <<x>>  OBVIOUS
<1>4. Placed(text, b, w) /\ w \in Seq(Piece) /\ 1 \in 1..Len(w) /\ w[1] = x
  BY <1>1, <1>3
<1>5. /\ b + 1 \in 1..Len(text) /\ text[b + 1] = w[1]
      /\ At(text, b + 1) = w[1]
  BY <1>4, PlacedAt, Zenon
<1> QED  BY <1>2, <1>4, <1>5, Zenon

LEMMA ShapeHas ==
  ASSUME NEW a \in Attribute, PlainAttribute(a),
         NEW w, Shape(w, a), NEW j \in 1..Len(w)
  PROVE  /\ w[j] # ">"
         /\ w[j] = Attr => j - 1 \in 1..Name(a) /\ a.name[j - 1] = Attr
<1>1. PICK n \in {1, 2}, k \in {0, 1}, l \in Nat :
        n = Name(a) /\ k = Spaces(a) /\ l = Len(a.value)
  BY AttributeIs
<1>2. Opened(a) = 3 + n + 2 * k  BY ONLY <1>1 DEF Opened
<1>3. w \in Seq(Piece) /\ Len(w) = (3 + n + 2 * k) + l + 1
  BY ONLY <1>1, <1>2, Shape(w, a) DEF Shape
<1>4. \/ j = 1 \/ j - 1 \in 1..n \/ j - (1 + n) \in 1..k
      \/ j = (1 + n + k) + 1 \/ j - (2 + n + k) \in 1..k
      \/ j = ((3 + n + 2 * k) - 1) + 1 \/ j - (3 + n + 2 * k) \in 1..l
      \/ j = ((3 + n + 2 * k) + l) + 1
  <2>1. PICK z \in Nat : z = Len(w) /\ z = (3 + n + 2 * k) + l + 1
    BY ONLY <1>3, n \in {1, 2}, k \in {0, 1}, l \in Nat
  <2>2. j \in 1..z  BY <2>1
  <2>3. CASE k = 0
    BY ONLY <2>1, <2>2, <2>3, n \in {1, 2}, l \in Nat
  <2>4. CASE k = 1
    BY ONLY <2>1, <2>2, <2>4, n \in {1, 2}, l \in Nat
  <2>5. k = 0 \/ k = 1  OBVIOUS
  <2> QED  BY ONLY <2>3, <2>4, <2>5
<1>5. ASSUME NEW b, NEW v \in Seq(Piece), Placed(w, b, v), j - b \in 1..Len(v)
      PROVE  w[j] = v[j - b]
  <2>1. b \in Nat  BY <1>5 DEF Placed
  <2>2. w[b + (j - b)] = v[j - b]  BY <1>3, <1>5, PlacedAt
  <2>3. b + (j - b) = j  BY ONLY <2>1, j \in 1..Len(w)
  <2> QED  BY <2>2, <2>3
<1>6. ASSUME NEW b, NEW x \in Piece, Placed(w, b, <<x>>), j = b + 1
      PROVE  w[j] = x
  BY <1>3, <1>6, OneAt
<1>7. /\ Space \in Piece \ {">", Attr} /\ "=" \in Piece \ {">", Attr}
      /\ a.quote \in Piece \ {">", Attr}
  BY AttributeIs DEF Space, Attr, Piece, Quotes
<1>8. CASE j = 1
  <2>1. j = 0 + 1  BY ONLY <1>8
  <2>2. w[j] = Space  BY <1>6, <1>7, <2>1 DEF Shape
  <2> QED  BY <1>7, <2>2
<1>9. CASE j - 1 \in 1..n
  <2>1. w[j] = a.name[j - 1]  BY <1>1, <1>5, <1>9, AttributeIs DEF Shape, Name
  <2>2. \/ a.name = <<Attr>> \/ a.name = <<"x">>
        \/ a.name = <<"x", Attr>> \/ a.name = <<Attr, "x">>
    BY AttributeIs, Zenon DEF Names, PlainAttribute
  <2>3. j - 1 = 1 \/ j - 1 = 2  BY <1>9, n \in {1, 2}
  <2>4. j - 1 <= Len(a.name)  BY <1>1, <1>9 DEF Name
  <2>5. a.name[j - 1] # ">"
    <3>1. PICK i : i = j - 1  OBVIOUS
    <3>2. PICK m : m = a.name  OBVIOUS
    <3>3. i = 1 \/ (i = 2 /\ 2 <= Len(m))  BY ONLY <2>3, <2>4, <3>1, <3>2
    <3>4. Attr # ">" /\ "x" # ">"  BY DEF Attr
    <3>5. CASE m = <<Attr>> \/ m = <<"x">>
      <4>1. Len(m) = 1 /\ m[1] # ">"  BY ONLY <3>4, <3>5
      <4> QED  BY ONLY <3>1, <3>2, <3>3, <4>1
    <3>6. CASE m = <<"x", Attr>> \/ m = <<Attr, "x">>
      <4>1. m[1] # ">" /\ m[2] # ">"  BY ONLY <3>4, <3>6
      <4> QED  BY ONLY <3>1, <3>2, <3>3, <4>1
    <3> QED  BY ONLY <2>2, <3>2, <3>5, <3>6
  <2> QED  BY ONLY <1>1, <1>9, <2>1, <2>5
<1>10. CASE j - (1 + n) \in 1..k \/ j - (2 + n + k) \in 1..k
  <2>1. k = 1  BY ONLY <1>10, k \in {0, 1}
  <2>2. Gap(a) = <<Space>>  BY ONLY <1>1, <2>1 DEF Spaces, Gap
  <2>3. j = (1 + n) + 1 \/ j = (2 + n + k) + 1
    BY ONLY <1>10, <2>1, n \in {1, 2}, j \in 1..Len(w), <1>3, l \in Nat
  <2>4. Placed(w, 1 + n, <<Space>>) /\ Placed(w, 2 + n + k, <<Space>>)
    BY <1>1, <2>2 DEF Shape
  <2>5. w[j] = Space  BY <1>6, <1>7, <2>3, <2>4
  <2> QED  BY <1>7, <2>5
<1>11. CASE j = (1 + n + k) + 1
  <2>1. Placed(w, 1 + n + k, <<"=">>)  BY <1>1 DEF Shape
  <2>2. w[j] = "="  BY <1>6, <1>7, <1>11, <2>1
  <2> QED  BY <1>7, <2>2
<1>12. CASE \/ j = ((3 + n + 2 * k) - 1) + 1 \/ j = ((3 + n + 2 * k) + l) + 1
  <2>1. /\ Placed(w, (3 + n + 2 * k) - 1, <<a.quote>>)
        /\ Placed(w, (3 + n + 2 * k) + l, <<a.quote>>)
    BY <1>1, <1>2 DEF Shape
  <2>2. w[j] = a.quote  BY <1>6, <1>7, <1>12, <2>1
  <2> QED  BY <1>7, <2>2
<1>13. CASE j - (3 + n + 2 * k) \in 1..l
  <2>1. Placed(w, 3 + n + 2 * k, a.value)  BY <1>2 DEF Shape
  <2>2. w[j] = a.value[j - (3 + n + 2 * k)]
    BY <1>1, <1>5, <1>13, <2>1, AttributeIs
  <2>3. a.value[j - (3 + n + 2 * k)] \in Range(a.value)
    <3>1. PICK i : i = j - (3 + n + 2 * k)  OBVIOUS
    <3>2. PICK m \in Seq(Piece) : m = a.value  BY AttributeIs
    <3>3. i \in 1..Len(m)  BY ONLY <1>1, <1>13, <3>1, <3>2
    <3>4. m[i] \in Range(m)  BY ONLY <3>3, m \in Seq(Piece) DEF Range
    <3> QED  BY ONLY <3>1, <3>2, <3>4
  <2>4. Range(a.value) \cap {">", Attr} = {}  BY DEF PlainAttribute
  <2> QED  BY ONLY <2>2, <2>3, <2>4
<1> QED  BY <1>4, <1>8, <1>9, <1>10, <1>11, <1>12, <1>13

LEMMA CountAtWord ==
  ASSUME NEW text \in Seq(Piece), NEW a \in Attribute, PlainAttribute(a),
         NEW w, Shape(w, a), NEW b, Placed(text, b, w), a.name = <<Attr>>
  PROVE  /\ b + 2 \in 1..Len(text) /\ text[b + 2] = Attr
         /\ CountAt(text, b + 2) = IF Counted(a.value)
                                   THEN Saturated(Number(a.value)) ELSE None
<1>1. PICK k \in {0, 1}, l \in Nat : k = Spaces(a) /\ l = Len(a.value)
  BY AttributeIs
<1>2. Name(a) = 1  BY DEF Name
<1>3. Opened(a) = 4 + 2 * k  BY ONLY <1>1, <1>2, k \in {0, 1} DEF Opened
<1>4. w \in Seq(Piece) /\ b \in Nat  BY DEF Shape, Placed
<1>5. ASSUME NEW c, NEW v \in Seq(Piece), Placed(w, c, v)
      PROVE  Placed(text, b + c, v)
  BY <1>4, <1>5, PlacedWithin
<1>6. ASSUME NEW c, NEW x \in Piece, Placed(w, c, <<x>>)
      PROVE  /\ (b + c) + 1 \in 1..Len(text) /\ text[(b + c) + 1] = x
             /\ At(text, (b + c) + 1) = x
  <2>1. <<x>> \in Seq(Piece)  OBVIOUS
  <2>2. Placed(text, b + c, <<x>>)  BY <1>5, <1>6, <2>1
  <2>3. PICK d : d = b + c  OBVIOUS
  <2>4. Placed(text, d, <<x>>)  BY <2>2, <2>3
  <2>5. d + 1 \in 1..Len(text) /\ text[d + 1] = x /\ At(text, d + 1) = x
    BY ONLY <2>4, text \in Seq(Piece), x \in Piece, OneAt, ZenonT(60)
  <2> QED  BY <2>3, <2>5, Zenon
<1>7. /\ Space \in Piece /\ Attr \in Piece /\ "=" \in Piece
      /\ a.quote \in Piece /\ a.quote \in Quotes
      /\ Space \notin Alphanumeric /\ Space # "=" /\ a.quote # Space
  BY AttributeIs DEF Space, Attr, Start, Piece, Quotes, Alphanumeric, Digits
<1>8. At(text, b + 1) = Space
  <2>1. At(text, (b + 0) + 1) = Space  BY <1>6, <1>7 DEF Shape
  <2> QED  BY ONLY <1>4, <2>1
<1>9. b + 2 \in 1..Len(text) /\ text[b + 2] = Attr
  <2>1. (b + 1) + 1 \in 1..Len(text) /\ text[(b + 1) + 1] = Attr
    BY <1>6, <1>7 DEF Shape
  <2>2. (b + 1) + 1 = b + 2  BY ONLY <1>4
  <2> QED  BY ONLY <2>1, <2>2
<1>10. At(text, b + 3 + k) = "="
  <2>1. Placed(w, 2 + k, <<"=">>)
    <3>1. 1 + Name(a) + Spaces(a) = 2 + k  BY ONLY <1>1, <1>2, k \in {0, 1}
    <3> QED  BY <3>1 DEF Shape
  <2>2. At(text, (b + (2 + k)) + 1) = "="  BY <1>6, <1>7, <2>1
  <2>3. (b + (2 + k)) + 1 = b + 3 + k  BY ONLY <1>4, k \in {0, 1}
  <2> QED  BY ONLY <2>2, <2>3
<1>11. /\ b + 4 + 2 * k \in 1..Len(text)
       /\ text[b + 4 + 2 * k] = a.quote /\ At(text, b + 4 + 2 * k) = a.quote
  <2>1. Placed(w, (4 + 2 * k) - 1, <<a.quote>>)  BY <1>3 DEF Shape
  <2>2. /\ (b + ((4 + 2 * k) - 1)) + 1 \in 1..Len(text)
        /\ text[(b + ((4 + 2 * k) - 1)) + 1] = a.quote
        /\ At(text, (b + ((4 + 2 * k) - 1)) + 1) = a.quote
    BY <1>6, <1>7, <2>1
  <2>3. (b + ((4 + 2 * k) - 1)) + 1 = b + 4 + 2 * k
    BY ONLY <1>4, k \in {0, 1}
  <2> QED  BY ONLY <2>2, <2>3
<1>12. ASSUME k = 1  PROVE At(text, b + 3) = Space /\ At(text, b + 5) = Space
  <2>1. Gap(a) = <<Space>>  BY ONLY <1>1, <1>12 DEF Spaces, Gap
  <2>2. 1 + Name(a) = 2 /\ 2 + Name(a) + Spaces(a) = 4
    BY ONLY <1>1, <1>2, <1>12
  <2>3. Placed(w, 2, <<Space>>) /\ Placed(w, 4, <<Space>>)
    BY <2>1, <2>2 DEF Shape
  <2>4. At(text, (b + 2) + 1) = Space /\ At(text, (b + 4) + 1) = Space
    BY <1>6, <1>7, <2>3
  <2>5. (b + 2) + 1 = b + 3 /\ (b + 4) + 1 = b + 5  BY ONLY <1>4
  <2> QED  BY ONLY <2>4, <2>5
<1> DEFINE sign == PastSpace(text, (b + 2) + 1)
           open == PastSpace(text, sign + 1)
<1>13. sign = b + 3 + k /\ open = b + 4 + 2 * k
  <2>1. CASE k = 1
    <3>1. /\ (b + 2) + 1 = b + 3 /\ (b + 3) + 1 = b + 3 + k
          /\ (b + 3 + k) + 1 = b + 5 /\ (b + 5) + 1 = b + 4 + 2 * k
      BY ONLY <1>4, <2>1
    <3>2. sign = b + 3 + k  BY <1>12, <2>1, <3>1, Zenon DEF PastSpace
    <3> HIDE DEF sign
    <3>3. open = b + 4 + 2 * k  BY <1>12, <2>1, <3>1, <3>2, Zenon DEF PastSpace
    <3> QED  BY <3>2, <3>3
  <2>2. CASE k = 0
    <3>1. (b + 2) + 1 = b + 3 + k /\ (b + 3 + k) + 1 = b + 4 + 2 * k
      BY ONLY <1>4, <2>2
    <3>2. sign = b + 3 + k  BY <1>7, <1>10, <3>1, Zenon DEF PastSpace
    <3> HIDE DEF sign
    <3>3. open = b + 4 + 2 * k  BY <1>7, <1>11, <3>1, <3>2, Zenon DEF PastSpace
    <3> QED  BY <3>2, <3>3
  <2> QED  BY <2>1, <2>2
<1>14. WholeName(text, b + 2)
  <2>1. (b + 2) - 1 = b + 1  BY ONLY <1>4
  <2> QED  BY ONLY <1>7, <1>8, <2>1 DEF WholeName
<1>15. CountAt(text, b + 2) = IF \/ ~WholeName(text, b + 2)
                                 \/ At(text, sign) # "="
                                 \/ At(text, open) \notin Quotes
                              THEN None ELSE ValueAt(text, open + 1, text[open])
  BY Zenon DEF CountAt
<1> HIDE DEF sign, open
<1>16. CountAt(text, b + 2) = ValueAt(text, (b + 4 + 2 * k) + 1, a.quote)
  BY ONLY <1>7, <1>10, <1>11, <1>13, <1>14, <1>15, Zenon
<1>17. /\ Placed(text, b + (4 + 2 * k), a.value)
       /\ Placed(text, b + ((4 + 2 * k) + l), <<a.quote>>)
  <2>1. /\ Placed(w, 4 + 2 * k, a.value)
        /\ Placed(w, (4 + 2 * k) + l, <<a.quote>>)
    BY <1>1, <1>3 DEF Shape
  <2>2. a.value \in Seq(Piece) /\ <<a.quote>> \in Seq(Piece)  BY AttributeIs
  <2> QED  BY <1>5, <2>1, <2>2
<1>18. /\ b + (4 + 2 * k) = b + 4 + 2 * k
       /\ b + ((4 + 2 * k) + l) = (b + 4 + 2 * k) + l
  BY ONLY <1>4, k \in {0, 1}, l \in Nat
<1>19. PICK c : c = b + 4 + 2 * k  OBVIOUS
<1>20. Placed(text, c, a.value) /\ Placed(text, c + Len(a.value), <<a.quote>>)
  BY ONLY <1>1, <1>17, <1>18, <1>19
<1>21. ValueAt(text, c + 1, a.quote) = IF Counted(a.value)
                                 THEN Saturated(Number(a.value)) ELSE None
  <2>1. PICK v : v = a.value  OBVIOUS
  <2>2. PICK r \in Quotes : r = a.quote  BY <1>7
  <2>3. v \in Seq(Piece) /\ r \notin Range(v) /\ Clear(v)
    BY <2>1, <2>2, AttributeIs DEF PlainAttribute, Clear
  <2>4. Placed(text, c, v) /\ Placed(text, c + Len(v), <<r>>)
    BY ONLY <1>20, <2>1, <2>2
  <2>5. ValueAt(text, c + 1, r) = IF Counted(v) THEN Saturated(Number(v))
                                  ELSE None
    BY ONLY text \in Seq(Piece), <2>2, <2>3, <2>4, ValueMeans
  <2> QED  BY ONLY <2>1, <2>2, <2>5
<1> QED  BY ONLY <1>9, <1>16, <1>19, <1>21

LEMMA NoCountElsewhere ==
  ASSUME NEW text \in Seq(Piece), NEW a \in Attribute, PlainAttribute(a),
         NEW w, Shape(w, a), NEW b, Placed(text, b, w),
         NEW j \in 1..Len(w), text[b + j] = Attr,
         CountAt(text, b + j) # None
  PROVE  j = 2 /\ a.name = <<Attr>>
<1>1. w \in Seq(Piece) /\ b \in Nat /\ Placed(w, 1, a.name)
  BY DEF Shape, Placed
<1>2. w[j] = Attr  BY <1>1, PlacedAt
<1>3. j - 1 \in 1..Len(a.name) /\ a.name[j - 1] = Attr
  BY <1>2, ShapeHas DEF Name
<1>4. a.name \in Names /\ a.name \in Seq(Piece) /\ a.name # <<".", Attr>>
  BY AttributeIs DEF PlainAttribute
<1>5. Placed(text, b + 1, a.name)  BY <1>1, <1>4, PlacedWithin
<1>6. ASSUME NEW i \in 1..Len(a.name)
      PROVE  At(text, (b + 1) + i) = a.name[i]
  BY <1>4, <1>5, PlacedAt
<1>7. \/ a.name = <<Attr>> \/ a.name = <<"x">>
      \/ a.name = <<"x", Attr>> \/ a.name = <<Attr, "x">>
  BY ONLY <1>4, Zenon DEF Names
<1>8. CASE a.name = <<Attr>>
  <2>1. Len(a.name) = 1  BY ONLY <1>8
  <2> QED  BY <1>3, <1>8, <2>1
<1>9. CASE a.name = <<"x">>
  <2>1. Len(a.name) = 1 /\ a.name[1] = "x"  BY ONLY <1>9
  <2>2. j - 1 = 1  BY ONLY <1>3, <2>1
  <2> QED  BY ONLY <1>3, <2>1, <2>2 DEF Attr
<1>10. CASE a.name = <<"x", Attr>>
  <2>1. Len(a.name) = 2 /\ a.name[1] = "x"  BY ONLY <1>10
  <2>2. j - 1 = 2
    <3>1. j - 1 = 1 \/ j - 1 = 2  BY ONLY <1>3, <2>1
    <3> QED  BY ONLY <1>3, <2>1, <3>1 DEF Attr
  <2>3. (b + j) - 1 = (b + 1) + 1  BY ONLY <1>1, <2>2, j \in 1..Len(w)
  <2>4. At(text, (b + j) - 1) = "x"
    <3>1. 1 \in 1..Len(a.name)  BY ONLY <2>1
    <3>2. At(text, (b + 1) + 1) = a.name[1]  BY <1>6, <3>1, Zenon
    <3> QED  BY ONLY <2>1, <2>3, <3>2
  <2>5. "x" \in Alphanumeric  BY DEF Alphanumeric
  <2> QED  BY <2>4, <2>5, Zenon DEF CountAt, WholeName
<1>11. CASE a.name = <<Attr, "x">>
  <2>1. Len(a.name) = 2 /\ a.name[2] = "x"  BY ONLY <1>11
  <2>2. j - 1 = 1
    <3>1. j - 1 = 1 \/ j - 1 = 2  BY ONLY <1>3, <2>1
    <3> QED  BY ONLY <1>3, <2>1, <3>1 DEF Attr
  <2>3. (b + j) + 1 = (b + 1) + 2  BY ONLY <1>1, <2>2, j \in 1..Len(w)
  <2>4. At(text, (b + j) + 1) = "x"
    <3>1. 2 \in 1..Len(a.name)  BY ONLY <2>1
    <3>2. At(text, (b + 1) + 2) = a.name[2]  BY <1>6, <3>1, Zenon
    <3> QED  BY ONLY <2>1, <2>3, <3>2
  <2>5. "x" # Space /\ "x" # "="  BY DEF Space
  <2>6. PastSpace(text, (b + j) + 1) = (b + j) + 1
    BY ONLY <2>4, <2>5, Zenon DEF PastSpace
  <2> QED  BY <2>4, <2>5, <2>6, Zenon DEF CountAt
<1> QED  BY <1>7, <1>8, <1>9, <1>10, <1>11

-----------------------------------------------------------------------------
(* The head and its attributes.                                            *)
HeadTypeOK ==
    /\ prolog \in {<<>>} \cup Prologs
    /\ root \in {<<>>} \cup Roots
    /\ tag \in Seq(Attribute)
    /\ root = <<>> => tag = <<>>

(* Roots and attributes are what the writer may write, and no attribute is *)
(* written before the root.                                                *)
THEOREM HeadInvariance == HeadSpec => []HeadTypeOK
<1>1. HeadInit => HeadTypeOK  BY DEF HeadInit, HeadTypeOK
<1>2. HeadTypeOK /\ [HeadNext]_headVars => HeadTypeOK'
  <2> SUFFICES ASSUME HeadTypeOK, [HeadNext]_headVars  PROVE HeadTypeOK'
    OBVIOUS
  <2>1. CASE WriteRoot
    <3>1. root' \in Roots /\ prolog' \in Prologs /\ tag' = tag
      BY <2>1 DEF WriteRoot
    <3>2. <<>> \notin Roots  BY DEF Roots
    <3> QED  BY <3>1, <3>2 DEF HeadTypeOK
  <2>2. CASE WriteAttribute
    <3>1. PICK a \in Attribute : tag' = Append(tag, a)
      BY <2>2 DEF WriteAttribute
    <3>2. root' = root /\ prolog' = prolog /\ root # <<>>
      BY <2>2 DEF WriteAttribute
    <3>3. tag \in Seq(Attribute)  BY DEF HeadTypeOK
    <3>4. Append(tag, a) \in Seq(Attribute)
      BY ONLY <3>3, a \in Attribute
    <3> QED  BY <3>1, <3>2, <3>4 DEF HeadTypeOK
  <2>3. CASE UNCHANGED headVars  BY <2>3 DEF headVars, HeadTypeOK
  <2> QED  BY <2>1, <2>2, <2>3 DEF HeadNext
<1> QED  BY <1>1, <1>2, PTL DEF HeadSpec

(* The text of the tag: the root, each attribute, the end of the tag.     *)
Texts == [i \in DOMAIN tag |-> Written(tag[i])]
Heads(text, r, off, ss, n) ==
    /\ text \in Seq(Piece) /\ Len(text) = r + off[n] + 1
    /\ Placed(text, r + off[n], <<">">>)
    /\ \A k \in 1..n : Placed(text, r + off[k - 1], ss[k])
    /\ \A p \in 1..Len(text) :
        \/ p \in 1..r \/ p = Len(text)
        \/ \E k \in 1..n : \E j \in 1..Len(ss[k]) : p = (r + off[k - 1]) + j

LEMMA LaidPlaced ==
  ASSUME NEW T, NEW n \in Nat, NEW ss \in [1..n -> Seq(T)], NEW off,
         Offsets(off, ss, n), NEW s, Laid(s, off, ss, n, T), NEW k \in 1..n
  PROVE  Placed(s, off[k - 1], ss[k])
<1>1. \A i \in 1..n : off[i] = off[i - 1] + Len(ss[i])
  BY Zenon DEF Offsets
<1>2. off \in [0..n -> Nat]  BY Zenon DEF Offsets
<1>3. k \in 0..n /\ k - 1 \in 0..n /\ n \in 0..n /\ k <= n  OBVIOUS
<1>4. off[k] <= off[n]
  BY ONLY n \in Nat, ss \in [1..n -> Seq(T)], Offsets(off, ss, n), <1>3,
     OffsetsGrow
<1>5. off[k - 1] + Len(ss[k]) <= Len(s)
  <2>1. Len(s) = off[n]  BY Zenon DEF Laid
  <2>2. off[k] = off[k - 1] + Len(ss[k])  BY <1>1
  <2> QED  BY ONLY <1>4, <2>1, <2>2
<1>6. \A j \in 1..Len(ss[k]) : s[off[k - 1] + j] = ss[k][j]
  BY Zenon DEF Laid
<1>7. off[k - 1] \in Nat  BY <1>2, <1>3
<1> QED  BY ONLY <1>5, <1>6, <1>7, Zenon DEF Placed

LEMMA TextIs ==
  ASSUME HeadTypeOK
  PROVE  /\ Len(tag) \in Nat /\ Texts \in [1..Len(tag) -> Seq(Piece)]
         /\ \A k \in 1..Len(tag) : tag[k] \in Attribute /\ Shape(Texts[k], tag[k])
         /\ root \in Seq(Piece) /\ Placed(TagText, 0, root)
         /\ \E off : /\ Offsets(off, Texts, Len(tag))
                     /\ Heads(TagText, Len(root), off, Texts, Len(tag))
<1> DEFINE n == Len(tag)
           F == FlattenSeq(Texts)
           e == <<">">>
<1>1. tag \in Seq(Attribute) /\ root \in {<<>>} \cup Roots  BY DEF HeadTypeOK
<1>2. /\ n \in Nat /\ DOMAIN tag = 1..n
      /\ \A k \in 1..n : tag[k] \in Attribute
  BY ONLY <1>1
<1> HIDE DEF n
<1>3. \A k \in 1..n : Shape(Written(tag[k]), tag[k])
  BY ONLY <1>2, WrittenIs
<1>4. \A k \in 1..n : Written(tag[k]) \in Seq(Piece)
  BY ONLY <1>3, Zenon DEF Shape
<1>5. Texts \in [1..n -> Seq(Piece)] /\ \A k \in 1..n : Shape(Texts[k], tag[k])
  BY ONLY <1>2, <1>3, <1>4 DEF Texts
<1>6. root \in Seq(Piece)
  <2>1. Start \in Piece /\ "x" \in Piece /\ "." \in Piece  BY DEF Piece
  <2>2. \/ root = <<>> \/ root = <<Start>>
        \/ root = <<Start, "x">> \/ root = <<Start, ".">>
    BY <1>1 DEF Roots
  <2>3. /\ <<>> \in Seq(Piece) /\ <<Start>> \in Seq(Piece)
        /\ <<Start, "x">> \in Seq(Piece) /\ <<Start, ".">> \in Seq(Piece)
    BY ONLY <2>1
  <2> QED  BY ONLY <2>2, <2>3, Zenon
<1>7. PICK off : Offsets(off, Texts, n) /\ Laid(F, off, Texts, n, Piece)
  BY ONLY <1>2, <1>5, FlattenLays
<1>8. F \in Seq(Piece) /\ Len(F) = off[n]  BY <1>7, Zenon DEF Laid
<1>9. e \in Seq(Piece) /\ Len(e) = 1 /\ e[1] = ">"  BY DEF Piece
<1> DEFINE h == root \o F
           r == Len(root)
<1>10. TagText = h \o e  BY DEF TagText, Texts
<1> HIDE DEF F, e
<1>11. /\ h \in Seq(Piece) /\ Len(h) = r + Len(F)
       /\ Placed(h, 0, root) /\ Placed(h, r, F)
  BY <1>6, <1>8, CatIs
<1> HIDE DEF h
<1>12. /\ TagText \in Seq(Piece) /\ Len(TagText) = Len(h) + Len(e)
       /\ Placed(TagText, Len(h), e)
  BY <1>9, <1>10, <1>11, CatIs
<1>13. Placed(TagText, 0, root) /\ Placed(TagText, r, F)
  BY <1>6, <1>8, <1>9, <1>10, <1>11, PlacedBefore
<1> HIDE DEF r
<1>14. \A k \in 1..n : Placed(TagText, r + off[k - 1], Texts[k])
  <2> SUFFICES ASSUME NEW k \in 1..n
               PROVE  Placed(TagText, r + off[k - 1], Texts[k])
    OBVIOUS
  <2>1. Placed(F, off[k - 1], Texts[k])  BY <1>2, <1>5, <1>7, LaidPlaced
  <2>2. Texts[k] \in Seq(Piece)  BY <1>5
  <2> QED  BY <1>8, <1>12, <1>13, <2>1, <2>2, PlacedWithin
<1>15. r \in Nat /\ off[n] \in Nat /\ Len(TagText) = r + off[n] + 1
  <2>1. r \in Nat /\ Len(F) \in Nat  BY <1>6, <1>8 DEF r
  <2> QED  BY ONLY <1>8, <1>9, <1>11, <1>12, <2>1
<1>16. ASSUME NEW p \in 1..Len(TagText)
       PROVE  \/ p \in 1..r \/ p = Len(TagText)
              \/ \E k \in 1..n : \E j \in 1..Len(Texts[k]) :
                    p = (r + off[k - 1]) + j
  <2>1. CASE p - r \in 1..off[n]
    <3>1. PICK k \in 1..n : \E j \in 1..Len(Texts[k]) : p - r = off[k - 1] + j
      BY <1>7, <1>8, <2>1, Zenon DEF Laid
    <3>2. PICK j \in 1..Len(Texts[k]) : p - r = off[k - 1] + j  BY <3>1
    <3>3. off[k - 1] \in Nat
      <4>1. k - 1 \in 0..n  BY <1>2
      <4> QED  BY <1>7, <4>1 DEF Offsets
    <3>4. p = (r + off[k - 1]) + j
      <4>1. PICK u \in Nat : u = off[k - 1]  BY <3>3
      <4>2. p \in Int /\ j \in Int  BY <1>15
      <4>3. p - r = u + j  BY ONLY <3>2, <4>1
      <4>4. p = (r + u) + j  BY ONLY <1>15, <4>2, <4>3, u \in Nat
      <4> QED  BY ONLY <4>1, <4>4
    <3> QED  BY <3>4
  <2>2. CASE ~(p - r \in 1..off[n])
    <3>1. p \in 1..r \/ p = Len(TagText)
      BY ONLY <1>15, <2>2, p \in 1..Len(TagText)
    <3> QED  BY <3>1
  <2> QED  BY <2>1, <2>2
<1>17. Heads(TagText, r, off, Texts, n)
  <2>1. Placed(TagText, r + off[n], <<">">>)
    BY <1>8, <1>11, <1>12, Zenon DEF e
  <2> QED  BY ONLY <1>12, <1>14, <1>15, <1>16, <2>1, Zenon DEF Heads
<1> QED  BY <1>2, <1>5, <1>6, <1>7, <1>13, <1>17, Zenon DEF n, r

LEMMA CountedDigits ==
  ASSUME NEW v \in Seq(Piece), Counted(v)
  PROVE  Saturated(Number(v)) \in Nat
<1>1. v \in Seq(Digits)
  <2>1. PICK l \in Nat : DOMAIN v = 1..l /\ l = Len(v)  OBVIOUS
  <2>2. \A j \in 1..l : v[j] \in Digits  BY <2>1, Zenon DEF Counted, Range
  <2>3. v = [j \in 1..l |-> v[j]]  BY <2>1
  <2>4. v \in [1..l -> Digits]  BY ONLY <2>2, <2>3, Zenon
  <2> QED  BY ONLY <2>4, l \in Nat
<1>2. PICK f \in [0..Len(v) -> Nat] : NumberOf(f, v) /\ Number(v) = f[Len(v)]
  BY <1>1, NumberExists
<1>3. Len(v) \in 0..Len(v)  BY <1>1
<1>4. Number(v) \in Nat  BY <1>2, <1>3
<1>5. CountMax \in Nat  BY HeadAssumption
<1> QED  BY ONLY <1>4, <1>5 DEF Saturated

(* What of a plain tag says where it ends.                                 *)
PlainTag == \A i \in DOMAIN tag : PlainAttribute(tag[i])

LEMMA TagEnds ==
  ASSUME HeadTypeOK, PlainTag
  PROVE  /\ TagText \in Seq(Piece) /\ Len(TagText) \in Nat \ {0}
         /\ TagText[Len(TagText)] = ">"
         /\ \A p \in 1..Len(TagText) : TagText[p] = ">" => p = Len(TagText)
<1> DEFINE n == Len(tag)
           r == Len(root)
<1>1. PICK off : Offsets(off, Texts, n) /\ Heads(TagText, r, off, Texts, n)
  BY TextIs
<1>2. /\ n \in Nat /\ root \in Seq(Piece) /\ Placed(TagText, 0, root)
      /\ \A k \in 1..n : /\ tag[k] \in Attribute /\ PlainAttribute(tag[k])
                         /\ Shape(Texts[k], tag[k])
  BY TextIs DEF PlainTag, HeadTypeOK
<1>3. /\ TagText \in Seq(Piece) /\ Len(TagText) = r + off[n] + 1
      /\ Placed(TagText, r + off[n], <<">">>)
      /\ \A k \in 1..n : Placed(TagText, r + off[k - 1], Texts[k])
  BY <1>1, Zenon DEF Heads
<1>4. ">" \in Piece  BY DEF Piece
<1>5. TagText[(r + off[n]) + 1] = ">" /\ (r + off[n]) + 1 \in 1..Len(TagText)
  BY <1>3, <1>4, OneAt
<1> HIDE DEF n, r
<1>6. ASSUME NEW p \in 1..Len(TagText), TagText[p] = ">", p # Len(TagText)
      PROVE  FALSE
  <2>1. CASE p \in 1..r
    <3>1. \A i \in 1..Len(root) : root[i] # ">"
      <4>1. \/ root = <<>> \/ root = <<Start>>
            \/ root = <<Start, "x">> \/ root = <<Start, ".">>
        BY DEF HeadTypeOK, Roots
      <4>2. Start # ">" /\ "x" # ">" /\ "." # ">"  BY DEF Start
      <4>3. CASE root = <<>>  BY ONLY <4>3
      <4>4. CASE root = <<Start>>
        <5>1. Len(root) = 1 /\ root[1] = Start  BY ONLY <4>4
        <5> QED  BY ONLY <4>2, <5>1
      <4>5. CASE root = <<Start, "x">> \/ root = <<Start, ".">>
        <5>1. Len(root) = 2 /\ root[1] = Start /\ root[2] \in {"x", "."}
          BY ONLY <4>5
        <5>2. \A i \in 1..2 : i = 1 \/ i = 2  OBVIOUS
        <5> QED  BY ONLY <4>2, <5>1, <5>2
      <4> QED  BY ONLY <4>1, <4>3, <4>4, <4>5
    <3>2. p \in 1..Len(root)  BY <2>1 DEF r
    <3>3. TagText[0 + p] = root[p]  BY <1>2, <1>3, <3>2, PlacedAt
    <3>4. 0 + p = p  BY ONLY <3>2
    <3> QED  BY <1>6, <3>1, <3>2, <3>3, <3>4
  <2>2. CASE \E k \in 1..n : \E j \in 1..Len(Texts[k]) :
                p = (r + off[k - 1]) + j
    <3>1. PICK k \in 1..n : \E j \in 1..Len(Texts[k]) :
                p = (r + off[k - 1]) + j
      BY <2>2
    <3>2. PICK j \in 1..Len(Texts[k]) : p = (r + off[k - 1]) + j  BY <3>1
    <3>3. /\ tag[k] \in Attribute /\ PlainAttribute(tag[k])
          /\ Shape(Texts[k], tag[k])
          /\ Placed(TagText, r + off[k - 1], Texts[k])
      BY <1>2, <1>3, Zenon
    <3>4. Texts[k] \in Seq(Piece)  BY <3>3 DEF Shape
    <3>5. TagText[(r + off[k - 1]) + j] = Texts[k][j]
      BY <1>3, <3>3, <3>4, PlacedAt
    <3>6. Texts[k][j] # ">"  BY <3>3, ShapeHas
    <3> QED  BY ONLY <1>6, <3>2, <3>5, <3>6
  <2> QED  BY <1>1, <1>6, <2>1, <2>2, Zenon DEF Heads
<1>7. Len(TagText) \in Nat  BY <1>3
<1>8. Len(TagText) = (r + off[n]) + 1 /\ Len(TagText) # 0
  BY ONLY <1>3, <1>5, <1>7
<1> QED  BY <1>3, <1>5, <1>6, <1>7, <1>8

(* Least numbers. *)
IsLeast(m, S) == m \in S /\ \A x \in S : m <= x

LEMMA LeastChosen ==
  ASSUME NEW S, S \subseteq Int, NEW m, IsLeast(m, S)
  PROVE  First(S) = m
<1> DEFINE c == CHOOSE i \in S : \A j \in S : i <= j
<1>1. c \in S /\ \A j \in S : c <= j  BY Zenon DEF IsLeast
<1> HIDE DEF c
<1>2. c \in Int /\ m \in Int /\ c <= m /\ m <= c  BY <1>1 DEF IsLeast
<1> QED  BY ONLY <1>2 DEF First, c

LEMMA EndIs ==
  ASSUME HeadTypeOK, PlainTag, NEW text \in Seq(Piece), Len(text) \in Nat
  PROVE  /\ text = TagText => EndOfTag(text) = Len(text)
         /\ (\A p \in 1..Len(text) : text[p] # ">") => EndOfTag(text) = 0
<1> DEFINE ends == {i \in DOMAIN text : text[i] = ">"}
<1>1. DOMAIN text = 1..Len(text)  OBVIOUS
<1>2. CASE text = TagText
  <2>1. IsLeast(Len(text), ends) /\ ends \subseteq Int
    <3>1. Len(text) \in 1..Len(text) /\ text[Len(text)] = ">"
      BY <1>2, TagEnds, SMTT(60)
    <3>2. \A p \in ends : p = Len(text)  BY <1>1, <1>2, TagEnds
    <3>3. Len(text) <= Len(text)  OBVIOUS
    <3> QED  BY <1>1, <3>1, <3>2, <3>3 DEF IsLeast
  <2> HIDE DEF ends
  <2>2. First(ends) = Len(text)
    BY <2>1, LeastChosen
  <2>3. ends # {}  BY <2>1 DEF IsLeast
  <2>4. EndOfTag(text) = Len(text)  BY <2>2, <2>3, Zenon DEF EndOfTag, ends
  <2>5. text[Len(text)] = ">" /\ Len(text) \in 1..Len(text)  BY <1>2, TagEnds
  <2> QED  BY <2>4, <2>5
<1>3. CASE text # TagText /\ \A p \in 1..Len(text) : text[p] # ">"
  <2>1. ends = {}  BY <1>1, <1>3
  <2> QED  BY <1>3, <2>1, Zenon DEF EndOfTag
<1> QED  BY <1>2, <1>3

(* The first of the words the scan takes a count from is the one of the    *)
(* first attribute that has a count.                                       *)
Declaring == {i \in DOMAIN tag : /\ tag[i].name = <<Attr>>
                                 /\ tag[i].value # <<>>
                                 /\ Range(tag[i].value) \subseteq Digits}
Found == {p \in DOMAIN TagText : TagText[p] = Attr /\ CountAt(TagText, p) # None}
Position(off, k) == (1 + off[k - 1]) + 2

LEMMA FoundIs ==
  ASSUME HeadTypeOK, PlainTag, root = <<Start>>
  PROVE  \E off :
         /\ off \in [0..Len(tag) -> Nat]
         /\ \A k, l \in Declaring : k <= l => Position(off, k) <= Position(off, l)
         /\ \A k \in Declaring :
                /\ Position(off, k) \in Found
                /\ CountAt(TagText, Position(off, k))
                     = Saturated(Number(tag[k].value))
         /\ \A p \in Found : \E k \in Declaring : p = Position(off, k)
<1> DEFINE n == Len(tag)
<1>0. Len(root) = 1 /\ root[1] = Start  OBVIOUS
<1>1. PICK off : Offsets(off, Texts, n) /\ Heads(TagText, 1, off, Texts, n)
  BY <1>0, TextIs
<1>2. /\ n \in Nat /\ Texts \in [1..n -> Seq(Piece)]
      /\ root \in Seq(Piece) /\ Placed(TagText, 0, root)
      /\ \A k \in 1..n : /\ tag[k] \in Attribute /\ PlainAttribute(tag[k])
                         /\ Shape(Texts[k], tag[k])
  BY TextIs DEF PlainTag, HeadTypeOK
<1>3. DOMAIN tag = 1..n  BY DEF HeadTypeOK
<1> HIDE DEF n
<1>4. off \in [0..n -> Nat]  BY <1>1, Zenon DEF Offsets
<1>5. /\ TagText \in Seq(Piece) /\ DOMAIN TagText = 1..Len(TagText)
      /\ \A k \in 1..n : Placed(TagText, 1 + off[k - 1], Texts[k])
  <2>1. TagText \in Seq(Piece)  BY <1>1, Zenon DEF Heads
  <2> QED  BY <1>1, <2>1 DEF Heads
<1>6. ASSUME NEW k \in Declaring
      PROVE  /\ k \in 1..n /\ k - 1 \in 0..n /\ tag[k].name = <<Attr>>
             /\ Counted(tag[k].value)
  <2>1. k \in 1..n  BY <1>3 DEF Declaring
  <2>2. k - 1 \in 0..n  BY ONLY <1>2, <2>1
  <2> QED  BY <2>1, <2>2, Zenon DEF Declaring, Counted
<1>7. ASSUME NEW k \in Declaring, NEW l \in Declaring, k <= l
      PROVE  Position(off, k) <= Position(off, l)
  <2>1. k \in 1..n /\ l \in 1..n /\ k - 1 \in 0..n /\ l - 1 \in 0..n
    BY <1>6
  <2>2. k - 1 <= l - 1  BY ONLY <1>7, <2>1
  <2>3. off[k - 1] <= off[l - 1]
    BY ONLY <1>1, <1>2, <2>1, <2>2, OffsetsGrow
  <2>4. off[k - 1] \in Nat /\ off[l - 1] \in Nat  BY <1>4, <2>1
  <2> QED  BY ONLY <2>3, <2>4 DEF Position
<1>8. ASSUME NEW k \in 1..n, tag[k].name = <<Attr>>
      PROVE  /\ Position(off, k) \in 1..Len(TagText)
             /\ TagText[Position(off, k)] = Attr
             /\ CountAt(TagText, Position(off, k))
                  = IF Counted(tag[k].value)
                    THEN Saturated(Number(tag[k].value)) ELSE None
  <2>1. PICK a \in Attribute : a = tag[k]  BY <1>2
  <2>2. PICK w : w = Texts[k]  OBVIOUS
  <2>3. PICK b : b = 1 + off[k - 1]  OBVIOUS
  <2>4. /\ PlainAttribute(a) /\ Shape(w, a) /\ Placed(TagText, b, w)
        /\ a.name = <<Attr>>
    BY <1>2, <1>5, <1>8, <2>1, <2>2, <2>3, Zenon
  <2>5. /\ b + 2 \in 1..Len(TagText) /\ TagText[b + 2] = Attr
        /\ CountAt(TagText, b + 2) = IF Counted(a.value)
                                  THEN Saturated(Number(a.value)) ELSE None
    BY <1>5, <2>4, CountAtWord
  <2> QED  BY <2>1, <2>3, <2>5, Zenon DEF Position
<1>9. ASSUME NEW k \in Declaring
      PROVE  /\ Position(off, k) \in Found
             /\ CountAt(TagText, Position(off, k))
                  = Saturated(Number(tag[k].value))
  <2>1. k \in 1..n /\ tag[k].name = <<Attr>> /\ Counted(tag[k].value)
    BY <1>6
  <2>2. CountAt(TagText, Position(off, k)) = Saturated(Number(tag[k].value))
    BY <1>8, <2>1, Zenon
  <2>3. PICK a \in Attribute : a = tag[k]  BY <1>2, <2>1
  <2>4. Saturated(Number(a.value)) \in Nat
    <3>1. PICK v : v = a.value  OBVIOUS
    <3>2. v \in Seq(Piece)  BY <3>1, AttributeIs
    <3>3. Counted(v)  BY <2>1, <2>3, <3>1
    <3>4. Saturated(Number(v)) \in Nat  BY ONLY <3>2, <3>3, CountedDigits
    <3> QED  BY ONLY <3>1, <3>4
  <2>5. \A x \in Nat : x # None  BY DEF None
  <2>6. CountAt(TagText, Position(off, k)) # None  BY <2>2, <2>3, <2>4, <2>5, Zenon
  <2> QED  BY <1>5, <1>8, <2>1, <2>2, <2>6, Zenon DEF Found
<1>10. ASSUME NEW p \in Found
       PROVE  \E k \in Declaring : p = Position(off, k)
  <2>1. p \in 1..Len(TagText) /\ TagText[p] = Attr /\ CountAt(TagText, p) # None
    BY <1>5, Zenon DEF Found
  <2>2. CASE p \in 1..1
    <3>1. p = 0 + 1 /\ Start \in Piece  BY <2>2 DEF Piece
    <3>2. TagText[p] = Start
      <4>1. 1 \in 1..Len(root)  BY <1>0
      <4>2. TagText[0 + 1] = root[1]  BY ONLY <1>2, <1>5, <4>1, PlacedAt
      <4> QED  BY <1>0, <3>1, <4>2
    <3> QED  BY <2>1, <3>2 DEF Start, Attr
  <2>3. CASE p = Len(TagText)
    <3>1. TagText[p] = ">"  BY <2>3, TagEnds
    <3> QED  BY <2>1, <3>1 DEF Attr
  <2>4. CASE \E k \in 1..n : \E j \in 1..Len(Texts[k]) :
                p = (1 + off[k - 1]) + j
    <3>1. PICK k \in 1..n : \E j \in 1..Len(Texts[k]) :
                p = (1 + off[k - 1]) + j
      BY <2>4
    <3>2. PICK j \in 1..Len(Texts[k]) : p = (1 + off[k - 1]) + j  BY <3>1
    <3>3. PICK a \in Attribute : a = tag[k]  BY <1>2
    <3>4. PICK w : w = Texts[k]  OBVIOUS
    <3>5. PICK b : b = 1 + off[k - 1]  OBVIOUS
    <3>6. /\ PlainAttribute(a) /\ Shape(w, a) /\ Placed(TagText, b, w)
          /\ j \in 1..Len(w)
      BY <1>2, <1>5, <3>3, <3>4, <3>5, Zenon
    <3>7. TagText[b + j] = Attr /\ CountAt(TagText, b + j) # None
      BY <2>1, <3>2, <3>5
    <3>8. j = 2 /\ a.name = <<Attr>>
      BY <1>5, <3>6, <3>7, NoCountElsewhere
    <3>9. p = Position(off, k)  BY <3>2, <3>8, Zenon DEF Position
    <3>10. Counted(tag[k].value)
      <4>1. tag[k].name = <<Attr>>  BY <3>3, <3>8
      <4> QED  BY <1>8, <2>1, <3>9, <4>1, Zenon
    <3>11. k \in Declaring
      BY <1>3, <3>3, <3>8, <3>10, Zenon DEF Declaring, Counted
    <3> QED  BY <3>9, <3>11
  <2> QED  BY <1>1, <2>1, <2>2, <2>3, <2>4, Zenon DEF Heads
<1> QED
  <2> WITNESS off
  <2>1. off \in [0..Len(tag) -> Nat]  BY <1>4 DEF n
  <2> QED  BY <1>7, <1>9, <1>10, <2>1, Zenon

LEMMA TagCount ==
  ASSUME HeadTypeOK, PlainTag, root # <<>>
  PROVE  At(TagText, 1) = Start /\ CountOfRoot(TagText) = Declares
<1> DEFINE e == EndOfTag(TagText)
<1>1. /\ TagText \in Seq(Piece) /\ Len(TagText) \in Nat \ {0}
      /\ Len(TagText) \in 1..Len(TagText) /\ DOMAIN TagText = 1..Len(TagText)
  BY TagEnds
<1>2. e = Len(TagText) /\ e # 0  BY <1>1, EndIs
<1> HIDE DEF e
<1>3. SubSeq(TagText, 1, e) = TagText
  <2>1. PICK s \in Seq(Piece) : s = TagText  BY <1>1
  <2>2. SubSeq(s, 1, Len(s)) = s  OBVIOUS
  <2> QED  BY ONLY <1>2, <2>1, <2>2
<1>4. CountOfRoot(TagText)
        = IF At(TagText, 2) \notin {">", "/", Space} \/ e = 0
          THEN None ELSE attr_u64(SubSeq(TagText, 1, e))
  BY Zenon DEF CountOfRoot, e
<1>5. /\ root \in Seq(Piece) /\ Placed(TagText, 0, root)
      /\ root = <<Start>> \/ root = <<Start, "x">> \/ root = <<Start, ".">>
  BY TextIs DEF HeadTypeOK, Roots
<1>6. At(TagText, 1) = Start
  <2>1. Len(root) \in {1, 2} /\ root[1] = Start  BY ONLY <1>5
  <2>2. 1 \in 1..Len(root)  BY ONLY <2>1
  <2>3. At(TagText, 0 + 1) = root[1]  BY <1>1, <1>5, <2>2, PlacedAt
  <2> QED  BY ONLY <2>1, <2>3
<1>7. CASE root = <<Start, "x">> \/ root = <<Start, ".">>
  <2>1. Len(root) = 2 /\ root[2] \in {"x", "."} /\ 2 \in 1..Len(root)
    BY ONLY <1>7
  <2>0. \A j \in 1..Len(root) : At(TagText, 0 + j) = root[j]
    BY <1>1, <1>5, PlacedAt
  <2>2. At(TagText, 0 + 2) = root[2]  BY ONLY <2>0, <2>1
  <2>3. At(TagText, 2) \in {"x", "."}  BY ONLY <2>1, <2>2
  <2>4. At(TagText, 2) \notin {">", "/", Space}  BY <2>3 DEF Space
  <2>5. root # <<Start>>
    <3>1. Len(<<Start>>) = 1  OBVIOUS
    <3> QED  BY ONLY <2>1, <3>1
  <2> QED  BY <1>4, <1>6, <2>4, <2>5, Zenon DEF Declares
<1>8. CASE root = <<Start>>
  <2>2. At(TagText, 2) \in {">", "/", Space}
    <3> DEFINE n == Len(tag)
    <3>1. Len(root) = 1  BY ONLY <1>8
    <3>2. PICK off : Offsets(off, Texts, n) /\ Heads(TagText, 1, off, Texts, n)
      BY <3>1, TextIs
    <3>3. off[0] = 0 /\ n \in Nat  BY <3>2, TextIs, Zenon DEF Offsets
    <3>4. /\ Len(TagText) = 1 + off[n] + 1
          /\ \A k \in 1..n : Placed(TagText, 1 + off[k - 1], Texts[k])
      BY <3>2, Zenon DEF Heads
    <3> HIDE DEF n
    <3>5. CASE n = 0
      <4>1. Len(TagText) = 2  BY ONLY <3>3, <3>4, <3>5
      <4>2. TagText[2] = ">"  BY <4>1, TagEnds
      <4> QED  BY <1>1, <4>1, <4>2 DEF At
    <3>6. CASE n # 0
      <4>1. 1 \in 1..n /\ 1 - 1 = 0  BY <3>3, <3>6
      <4>2. Placed(TagText, 1, Texts[1])
        <5>1. Placed(TagText, 1 + off[1 - 1], Texts[1])  BY <3>4, <4>1, Zenon
        <5> QED  BY ONLY <3>3, <4>1, <5>1
      <4>3. PICK a \in Attribute : a = tag[1] /\ Shape(Texts[1], a)
        BY <4>1, TextIs DEF n
      <4>4. Texts[1] \in Seq(Piece) /\ Placed(Texts[1], 0, <<Space>>)
        BY <4>3 DEF Shape
      <4>5. Space \in Piece  BY DEF Piece
      <4>6. 0 + 1 \in 1..Len(Texts[1]) /\ Texts[1][0 + 1] = Space
        BY <4>4, <4>5, OneAt
      <4>7. At(TagText, 1 + 1) = Space
        <5>1. 0 + 1 = 1  OBVIOUS
        <5>2. 1 \in 1..Len(Texts[1]) /\ Texts[1][1] = Space
          BY ONLY <4>6, <5>1
        <5>3. At(TagText, 1 + 1) = Texts[1][1]
          BY <1>1, <4>2, <4>4, <5>2, PlacedAt
        <5> QED  BY ONLY <5>2, <5>3
      <4>8. 1 + 1 = 2  OBVIOUS
      <4> QED  BY ONLY <4>7, <4>8
    <3> QED  BY <3>5, <3>6
  <2>3. CountOfRoot(TagText) = attr_u64(TagText)
    BY <1>2, <1>3, <1>4, <2>2, Zenon
  <2>4. PICK off :
         /\ off \in [0..Len(tag) -> Nat]
         /\ \A k, l \in Declaring : k <= l => Position(off, k) <= Position(off, l)
         /\ \A k \in Declaring :
                /\ Position(off, k) \in Found
                /\ CountAt(TagText, Position(off, k))
                     = Saturated(Number(tag[k].value))
         /\ \A p \in Found : \E k \in Declaring : p = Position(off, k)
    BY <1>8, FoundIs
  <2>5. attr_u64(TagText)
          = IF Found = {} THEN None
            ELSE CountAt(TagText, First(Found))
    BY Zenon DEF attr_u64, Found
  <2>6. CASE Declaring = {}
    <3>1. Found = {}  BY <2>4, <2>6, Zenon
    <3> QED  BY <1>6, <2>3, <2>5, <2>6, <3>1, Zenon DEF Declares, Declaring
  <2>7. CASE Declaring # {}
    <3> DEFINE first == First(Declaring)
    <3>1. Declaring \subseteq Nat
      <4>1. DOMAIN tag \subseteq Nat  BY DEF HeadTypeOK
      <4> QED  BY <4>1, Zenon DEF Declaring
    <3>2. PICK m \in Declaring : \A k \in Declaring : m <= k
      BY <2>7, <3>1, LeastMember
    <3>3. first \in Declaring /\ \A k \in Declaring : first <= k
      BY <3>2, Zenon DEF First
    <3>4. Declares = Saturated(Number(tag[first].value))
      BY <1>8, <2>7, Zenon DEF Declares, Declaring, Saturated
    <3> HIDE DEF first
    <3>5. IsLeast(Position(off, first), Found)
      BY <2>4, <3>3, Zenon DEF IsLeast
    <3>6. Found \subseteq Int  BY <1>1 DEF Found
    <3>7. First(Found) = Position(off, first)
      BY <3>5, <3>6, LeastChosen
    <3>8. Found # {}  BY <3>5, Zenon DEF IsLeast
    <3>9. CountAt(TagText, Position(off, first)) = Saturated(Number(tag[first].value))
      BY <2>4, <3>3, Zenon
    <3> QED  BY <1>6, <2>3, <2>5, <3>4, <3>7, <3>8, <3>9, Zenon
  <2> QED  BY <2>6, <2>7
<1> QED  BY <1>5, <1>7, <1>8

(* Behind a text without a start the scan finds the root where it stands.  *)
LEMMA PrologPassed ==
  ASSUME NEW s \in Seq(Piece), Start \notin Range(s),
         NEW t \in Seq(Piece), t # <<>>, At(t, 1) = Start
  PROVE  declared_unique_count(s \o t) = CountOfRoot(t)
<1> DEFINE h == s \o t
           l == Len(s)
           starts == {i \in DOMAIN h : h[i] = Start}
<1>1. /\ l \in Nat /\ Len(t) \in Nat \ {0} /\ h \in Seq(Piece)
      /\ Len(h) = l + Len(t) /\ DOMAIN h = 1..Len(h) /\ DOMAIN t = 1..Len(t)
      /\ \A i \in 1..l : h[i] = s[i] /\ s[i] # Start
      /\ \A i \in 1..Len(t) : h[l + i] = t[i]
  BY DEF Range
<1> HIDE DEF h, l
<1>2. t[1] = Start /\ 1 \in 1..Len(t)
  BY <1>1 DEF At
<1>3. IsLeast(l + 1, starts) /\ starts \subseteq Int
  <2>1. l + 1 \in 1..Len(h) /\ h[l + 1] = Start  BY ONLY <1>1, <1>2
  <2>2. ASSUME NEW i \in starts  PROVE l + 1 <= i
    <3>1. i \in 1..Len(h) /\ h[i] = Start  BY <1>1
    <3>2. i \notin 1..l  BY ONLY <1>1, <3>1
    <3> QED  BY ONLY <1>1, <3>1, <3>2
  <2> QED  BY <1>1, <2>1, <2>2 DEF IsLeast
<1>4. starts # {} /\ First(starts) = l + 1
  BY <1>3, LeastChosen DEF IsLeast
<1>5. SubSeq(h, l + 1, Len(h)) = t
  <2>1. PICK r : r = SubSeq(h, l + 1, Len(h))  OBVIOUS
  <2>2. /\ r \in Seq(Piece) /\ Len(r) = Len(t)
        /\ \A i \in 1..Len(t) : r[i] = h[l + i]
    <3>1. /\ r \in Seq(Piece)
          /\ Len(r) = (Len(h) - (l + 1)) + 1
          /\ \A i \in 1..((Len(h) - (l + 1)) + 1) : r[i] = h[((l + 1) + i) - 1]
      BY ONLY <1>1, <2>1
    <3>2. (Len(h) - (l + 1)) + 1 = Len(t)  BY ONLY <1>1
    <3>3. \A i \in 1..Len(t) : ((l + 1) + i) - 1 = l + i  BY ONLY <1>1
    <3> QED  BY ONLY <3>1, <3>2, <3>3
  <2>3. \A i \in 1..Len(t) : r[i] = t[i]  BY ONLY <1>1, <2>2
  <2>4. r = t  BY ONLY <2>2, <2>3, t \in Seq(Piece)
  <2> QED  BY <2>1, <2>4
<1>6. declared_unique_count(h) = CountOfRoot(t)
  BY <1>4, <1>5, Zenon DEF declared_unique_count
<1> QED  BY <1>6 DEF h

LEMMA PrologIs ==
  ASSUME HeadTypeOK
  PROVE  prolog \in Seq(Piece)
<1>1. prolog = <<>> \/ prolog \in Prologs  BY DEF HeadTypeOK
<1>2. \A t \in Prologs : t \in Seq(Piece)  BY HeadAssumption, Zenon
<1>3. <<>> \in Seq(Piece)  OBVIOUS
<1> QED  BY ONLY <1>1, <1>2, <1>3

LEMMA WholeHead ==
  ASSUME HeadTypeOK, PlainHead
  PROVE  declared_unique_count(Text) = Declares
<1>1. PlainTag /\ Start \notin Range(prolog)  BY DEF PlainHead, PlainTag
<1>2. TagText \in Seq(Piece) /\ Len(TagText) \in Nat \ {0}
  BY <1>1, TagEnds
<1>3. prolog \in Seq(Piece)  BY PrologIs
<1>4. CASE root # <<>>
  <2>1. At(TagText, 1) = Start /\ CountOfRoot(TagText) = Declares
    BY <1>1, <1>4, TagCount
  <2>2. TagText # <<>>  BY <1>2
  <2> QED  BY <1>1, <1>2, <1>3, <2>1, <2>2, PrologPassed DEF Text
<1>5. CASE root = <<>>
  <2>1. tag = <<>>  BY <1>5 DEF HeadTypeOK
  <2>2. Len(root) = 0 /\ Len(tag) = 0  BY ONLY <1>5, <2>1
  <2>3. PICK off : Offsets(off, Texts, 0) /\ Heads(TagText, 0, off, Texts, 0)
    BY <2>2, TextIs
  <2>4. off[0] = 0  BY <2>3, Zenon DEF Offsets
  <2>5. Len(TagText) = 1  BY <2>3, <2>4 DEF Heads
  <2>6. TagText[1] = ">"  BY <1>1, <2>5, TagEnds
  <2>7. /\ DOMAIN Text = 1..(Len(prolog) + 1) /\ Len(prolog) \in Nat
        /\ \A i \in 1..Len(prolog) : Text[i] = prolog[i]
        /\ Text[Len(prolog) + 1] = ">"
    <3>1. PICK s \in Seq(Piece), t \in Seq(Piece) : s = prolog /\ t = TagText
      BY <1>2, <1>3
    <3>2. Len(t) = 1 /\ t[1] = ">" /\ Text = s \o t
      BY <2>5, <2>6, <3>1 DEF Text
    <3>3. /\ Len(s) \in Nat /\ DOMAIN (s \o t) = 1..(Len(s) + Len(t))
          /\ \A i \in 1..Len(s) : (s \o t)[i] = s[i]
          /\ \A i \in 1..Len(t) : (s \o t)[Len(s) + i] = t[i]
      BY ONLY s \in Seq(Piece), t \in Seq(Piece)
    <3>4. (s \o t)[Len(s) + 1] = ">"
      <4>1. 1 \in 1..Len(t)  BY ONLY <3>2
      <4> QED  BY <3>2, <3>3, <4>1, Zenon
    <3> QED  BY ONLY <3>1, <3>2, <3>3, <3>4
  <2>8. \A i \in 1..Len(prolog) : prolog[i] # Start
    BY <1>1, <1>3 DEF Range
  <2>9. {i \in DOMAIN Text : Text[i] = Start} = {}
    BY <2>7, <2>8 DEF Start
  <2>10. root # <<Start>>
    <3>1. Len(<<Start>>) = 1  OBVIOUS
    <3> QED  BY ONLY <2>2, <3>1
  <2> QED  BY <2>9, <2>10, Zenon DEF declared_unique_count, Declares
<1> QED  BY <1>4, <1>5

-----------------------------------------------------------------------------
(* A head that is cut. *)
LEMMA CutKeepsEnd ==
  ASSUME NEW s \in Seq(Piece), NEW t \in Seq(Piece), Len(t) <= Len(s),
         \A p \in 1..Len(t) : t[p] = s[p], EndOfTag(t) # 0
  PROVE  EndOfTag(t) \in 1..Len(t) /\ EndOfTag(s) = EndOfTag(t)
<1> DEFINE ends(text) == {i \in DOMAIN text : text[i] = ">"}
<1>1. /\ DOMAIN s = 1..Len(s) /\ DOMAIN t = 1..Len(t)
      /\ Len(s) \in Nat /\ Len(t) \in Nat
  OBVIOUS
<1>2. ends(t) # {} /\ ends(t) \subseteq Nat /\ ends(s) \subseteq Int
  <2>1. ends(t) # {}  BY Zenon DEF EndOfTag
  <2>2. ends(t) \subseteq Nat /\ ends(s) \subseteq Int  BY ONLY <1>1
  <2> QED  BY <2>1, <2>2
<1>3. PICK m \in ends(t) : \A k \in ends(t) : m <= k
  BY <1>2, LeastMember
<1>4. m \in 1..Len(t) /\ m \in 1..Len(s) /\ t[m] = ">" /\ s[m] = ">"
  BY <1>1, <1>3
<1>5. ASSUME NEW k \in ends(s)  PROVE m <= k
  <2>1. k \in 1..Len(s) /\ s[k] = ">"  BY <1>1
  <2>2. CASE k \in 1..Len(t)  BY <1>1, <1>3, <2>1, <2>2
  <2>3. CASE k \notin 1..Len(t)  BY ONLY <1>1, <1>4, <2>1, <2>3
  <2> QED  BY <2>2, <2>3
<1>6. IsLeast(m, ends(t)) /\ IsLeast(m, ends(s))
  BY <1>1, <1>3, <1>4, <1>5 DEF IsLeast
<1> HIDE DEF ends
<1>7. First(ends(t)) = m /\ First(ends(s)) = m /\ ends(s) # {}
  <2>1. ends(t) \subseteq Int  BY <1>2
  <2> QED  BY <1>2, <1>6, <2>1, LeastChosen DEF IsLeast
<1>8. EndOfTag(t) = m /\ EndOfTag(s) = m
  BY <1>2, <1>7, Zenon DEF EndOfTag, ends
<1> QED  BY <1>4, <1>8

LEMMA CutRoot ==
  ASSUME NEW s \in Seq(Piece), NEW t \in Seq(Piece), Len(t) <= Len(s),
         \A p \in 1..Len(t) : t[p] = s[p], t # <<>>, t[1] = Start
  PROVE  CountOfRoot(t) \in {None, CountOfRoot(s)}
<1> DEFINE e == EndOfTag(t)
<1>1. CASE e = 0  BY <1>1, Zenon DEF CountOfRoot
<1>2. CASE e # 0
  <2>1. e \in 1..Len(t) /\ EndOfTag(s) = e  BY <1>2, CutKeepsEnd
  <2>2. t[e] = ">"
    <3> DEFINE ends == {i \in DOMAIN t : t[i] = ">"}
    <3>1. ends # {} /\ ends \subseteq Nat /\ e = First(ends)
      <4>1. ends # {} /\ e = First(ends)  BY <1>2, Zenon DEF EndOfTag
      <4> QED  BY <4>1
    <3>2. PICK m \in ends : \A k \in ends : m <= k  BY <3>1, LeastMember
    <3>3. First(ends) \in ends  BY <3>2, Zenon DEF First
    <3> QED  BY <3>1, <3>3
  <2>3. e # 1  BY <2>2 DEF Start
  <2> HIDE DEF e
  <2>4. /\ 2 \in 1..Len(t) /\ 2 \in 1..Len(s)
        /\ DOMAIN t = 1..Len(t) /\ DOMAIN s = 1..Len(s) /\ Len(s) \in Nat
    <3>1. Len(t) \in Nat /\ Len(s) \in Nat  OBVIOUS
    <3>2. DOMAIN t = 1..Len(t) /\ DOMAIN s = 1..Len(s)  OBVIOUS
    <3> QED  BY ONLY <2>1, <2>3, <3>1, <3>2, Len(t) <= Len(s)
  <2>5. At(t, 2) = At(s, 2)  BY <2>4 DEF At
  <2>6. SubSeq(t, 1, e) = SubSeq(s, 1, e)
    <3>1. \A p \in 1..e : p \in 1..Len(t)  BY <2>1
    <3>2. PICK a, b : a = SubSeq(t, 1, e) /\ b = SubSeq(s, 1, e)  OBVIOUS
    <3>3. /\ a \in Seq(Piece) /\ Len(a) = e /\ \A p \in 1..e : a[p] = t[p]
      BY ONLY <2>1, <3>2, t \in Seq(Piece)
    <3>4. /\ b \in Seq(Piece) /\ Len(b) = e /\ \A p \in 1..e : b[p] = s[p]
      BY ONLY <2>1, <2>4, <3>2, s \in Seq(Piece), Len(t) <= Len(s)
    <3>5. \A p \in 1..e : a[p] = b[p]  BY <3>1, <3>3, <3>4
    <3>6. a = b  BY ONLY <3>3, <3>4, <3>5
    <3> QED  BY <3>2, <3>6
  <2>7. CountOfRoot(t) = CountOfRoot(s)
    BY <2>1, <2>5, <2>6, Zenon DEF CountOfRoot, e
  <2> QED  BY <2>7
<1> QED  BY <1>1, <1>2

LEMMA CutText ==
  ASSUME NEW text \in Seq(Piece), NEW n \in 1..Len(text)
  PROVE  declared_unique_count(SubSeq(text, 1, n))
            \in {None, declared_unique_count(text)}
<1> DEFINE cut == SubSeq(text, 1, n)
           starts(t) == {i \in DOMAIN t : t[i] = Start}
<1>1. /\ cut \in Seq(Piece) /\ Len(cut) = n /\ Len(text) \in Nat
      /\ DOMAIN cut = 1..n /\ DOMAIN text = 1..Len(text)
      /\ \A p \in 1..n : cut[p] = text[p]
  OBVIOUS
<1> HIDE DEF cut
<1>2. CASE starts(cut) = {}
  BY <1>2, Zenon DEF declared_unique_count, cut
<1>3. CASE starts(cut) # {}
  <2>1. starts(cut) \subseteq Nat /\ starts(text) \subseteq Int
    BY <1>1
  <2>2. PICK m \in starts(cut) : \A k \in starts(cut) : m <= k
    BY <1>3, <2>1, LeastMember
  <2>3. m \in 1..n /\ cut[m] = Start /\ text[m] = Start  BY <1>1
  <2>4. ASSUME NEW k \in starts(text)  PROVE m <= k
    <3>1. k \in 1..Len(text) /\ text[k] = Start  BY <1>1
    <3>2. CASE k \in 1..n  BY <1>1, <2>2, <3>1, <3>2
    <3>3. CASE k \notin 1..n  BY ONLY <1>1, <2>3, <3>1, <3>3
    <3> QED  BY <3>2, <3>3
  <2>5. IsLeast(m, starts(cut)) /\ IsLeast(m, starts(text))
    BY <1>1, <2>2, <2>3, <2>4 DEF IsLeast
  <2> HIDE DEF starts
  <2>6. First(starts(cut)) = m /\ First(starts(text)) = m /\ starts(text) # {}
    <3>1. starts(cut) \subseteq Int  BY <2>1
    <3> QED  BY <2>1, <2>5, <3>1, LeastChosen DEF IsLeast
  <2>7. PICK s, t : /\ s = SubSeq(text, m, Len(text))
                    /\ t = SubSeq(cut, m, n)
    OBVIOUS
  <2>8. /\ s \in Seq(Piece) /\ Len(s) = (Len(text) - m) + 1
        /\ \A p \in 1..((Len(text) - m) + 1) : s[p] = text[(m + p) - 1]
    BY ONLY <1>1, <2>3, <2>7, text \in Seq(Piece), n \in 1..Len(text)
  <2>9. /\ t \in Seq(Piece) /\ Len(t) = (n - m) + 1
        /\ \A p \in 1..((n - m) + 1) : t[p] = cut[(m + p) - 1]
    BY ONLY <1>1, <2>3, <2>7, n \in 1..Len(text)
  <2>10. /\ Len(t) <= Len(s) /\ t # <<>> /\ t[1] = Start
         /\ \A p \in 1..Len(t) : t[p] = s[p]
    <3>1. /\ n \in Nat /\ m \in Nat /\ n <= Len(text) /\ m <= n /\ 1 <= m
      BY <1>1, <2>3
    <3>2. Len(t) <= Len(s) /\ Len(t) >= 1  BY ONLY <1>1, <2>8, <2>9, <3>1
    <3>3. \A p \in 1..Len(t) : (m + p) - 1 \in 1..n /\ p \in 1..Len(s)
      BY ONLY <1>1, <2>8, <2>9, <3>1
    <3>4. \A p \in 1..Len(t) : t[p] = s[p]
      BY <1>1, <2>8, <2>9, <3>3
    <3>5. t[1] = Start
      <4>1. (m + 1) - 1 = m /\ 1 \in 1..Len(t)  BY ONLY <2>9, <3>1, <3>2
      <4> QED  BY <2>3, <2>9, <4>1
    <3>6. t # <<>>  BY <3>2
    <3> QED  BY <3>2, <3>4, <3>5, <3>6
  <2>11. CountOfRoot(t) \in {None, CountOfRoot(s)}
    BY ONLY <2>8, <2>9, <2>10, CutRoot
  <2>12. /\ declared_unique_count(cut) = CountOfRoot(t)
         /\ declared_unique_count(text) = CountOfRoot(s)
    BY <1>1, <1>3, <2>6, <2>7, Zenon DEF declared_unique_count, starts
  <2> QED  BY <2>11, <2>12, Zenon DEF cut
<1> QED  BY <1>2, <1>3

LEMMA CutWhole ==
  ASSUME HeadTypeOK
  PROVE  CutAnywhere
<1>1. prolog \in Seq(Piece)  BY PrologIs
<1>2. TagText \in Seq(Piece)  BY TextIs, Zenon DEF Heads
<1>3. Text \in Seq(Piece)  BY <1>1, <1>2 DEF Text
<1> QED  BY <1>3, CutText, Zenon DEF CutAnywhere

(* The scan of a plain head reads the count a parser would read, whatever  *)
(* the order, the spacing and the quoting of the attributes and the        *)
(* letters around the word, for attributes without bound and values of any *)
(* length. A head is plain unless it has <sst before the root, a > or the  *)
(* word in a value, a name like x:uniqueCount, or a count of digits mixed  *)
(* with others. And any head, plain or not, cut anywhere, gives the count  *)
(* of the whole one or none.                                               *)
THEOREM HeadCorrect == HeadSpec => []CountIsDeclared
<1>1. HeadTypeOK => CountIsDeclared
  BY WholeHead, CutWhole, Zenon DEF CountIsDeclared, PlainCounts
<1> QED  BY <1>1, HeadInvariance, PTL
=============================================================================
