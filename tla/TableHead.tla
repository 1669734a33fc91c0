----------------------------- MODULE TableHead -----------------------------
(***************************************************************************)
(* How inspect reads the uniqueCount of a shared-string table              *)
(* (declared_unique_count and attr_u64, src/archive.rs): a scan of the     *)
(* first SST_HEAD_SCAN bytes of the part for a word, not an XML parser.    *)
(*                                                                         *)
(* A text is a sequence of pieces: the word uniqueCount, the start <sst    *)
(* and single characters: a letter, a digit, what tags are made of, and    *)
(* "." for any other. Before the root stands whatever a writer puts there, *)
(* a declaration or a comment; the root is written attribute by attribute. *)
(***************************************************************************)
EXTENDS Integers, Sequences, SequencesExt

CONSTANTS
    CountMax,       \* u64::MAX
    Prologs,        \* what stands before the root
    Values,         \* what attributes are set to
    Attributes      \* bound: attributes of the root

Digits == {"0", "1", "9"}
Worth == [d \in Digits |-> CASE d = "0" -> 0 [] d = "1" -> 1 [] d = "9" -> 9]

Space == "space"
Start == "<sst"
Attr == "uniqueCount"
None == -1
Piece == Digits \cup {Space, Start, Attr, "x", ".", "=", "'", "q", "/", ">"}

ASSUME HeadAssumption ==
    /\ CountMax \in Nat /\ Attributes \in Nat
    /\ \A text \in Prologs \cup Values : text \in Seq(Piece)

(* What a root and its attributes may be called, x being a letter and "."  *)
(* a colon, a dash or another mark that a name may have.                   *)
Roots == {<<Start>>, <<Start, "x">>, <<Start, ".">>}
Names == {<<Attr>>, <<"x">>, <<"x", Attr>>, <<".", Attr>>, <<Attr, "x">>}
Quotes == {"'", "q"}
Attribute ==
    {a \in [name : Names, spaced : BOOLEAN, quote : Quotes, value : Values] :
        a.quote \notin Range(a.value)}

VARIABLES
    prolog,         \* what is before the root
    root,           \* the name the root starts with
    tag             \* its attributes

headVars == <<prolog, root, tag>>

HeadInit == prolog = <<>> /\ root = <<>> /\ tag = <<>>

WriteRoot ==
    /\ root = <<>>
    /\ prolog' \in Prologs /\ root' \in Roots
    /\ UNCHANGED tag

WriteAttribute ==
    /\ root # <<>> /\ Len(tag) < Attributes
    /\ \E a \in Attribute : tag' = Append(tag, a)
    /\ UNCHANGED <<prolog, root>>

HeadNext == WriteRoot \/ WriteAttribute

HeadSpec == HeadInit /\ [][HeadNext]_headVars

Written(a) ==
    LET space == IF a.spaced THEN <<Space>> ELSE <<>> IN
    <<Space>> \o a.name \o space \o <<"=">> \o space
        \o <<a.quote>> \o a.value \o <<a.quote>>
TagText == root \o FlattenSeq([i \in DOMAIN tag |-> Written(tag[i])]) \o <<">">>
Text == prolog \o TagText

-----------------------------------------------------------------------------
(* The scan of a text. *)
First(positions) == CHOOSE i \in positions : \A j \in positions : i <= j
At(text, i) == IF i \in DOMAIN text THEN text[i] ELSE "end"

(* Skip over white space, of which there is one at most. *)
PastSpace(text, i) == IF At(text, i) = Space THEN i + 1 ELSE i

Saturated(n) == IF n > CountMax THEN CountMax ELSE n

(* The value from piece i to the quote or the end of the tag: its digits,  *)
(* whatever is between them, as a number that does not pass u64::MAX.      *)
ValueAt(text, i, quote) ==
    LET stops == {j \in i..Len(text) : text[j] = quote}
        last == IF stops = {} THEN Len(text) ELSE First(stops) - 1
        upTo[k \in 0..(last - i + 1)] ==
            IF k = 0 THEN 0
            ELSE IF text[i + k - 1] \in Digits
            THEN Saturated(10 * upTo[k - 1] + Worth[text[i + k - 1]])
            ELSE upTo[k - 1] IN
    IF \A j \in i..last : text[j] \notin Digits THEN None ELSE upTo[last - i + 1]

(* What the word at piece i gives, where no letter or digit is before it   *)
(* and a quoted number follows. The last character of <sst and of the word *)
(* is a letter.                                                            *)
AnyName(text, i) == TRUE
Alphanumeric == Digits \cup {"x", Start, Attr}
WholeName(text, i) == At(text, i - 1) \notin Alphanumeric
CountAt(text, i) ==
    LET sign == PastSpace(text, i + 1)
        open == PastSpace(text, sign + 1) IN
    IF ~WholeName(text, i) \/ At(text, sign) # "=" \/ At(text, open) \notin Quotes
    THEN None
    ELSE ValueAt(text, open + 1, text[open])

attr_u64(text) ==
    LET counts == {i \in DOMAIN text : text[i] = Attr /\ CountAt(text, i) # None} IN
    IF counts = {} THEN None
    ELSE CountAt(text, First(counts))

(* The root is the first <sst wherever it is, its tag ends at the first >  *)
(* whatever it is in, and must be all there.                               *)
EndOfText(text) == Len(text)
EndOfTag(text) ==
    LET ends == {i \in DOMAIN text : text[i] = ">"} IN
    IF ends = {} THEN 0 ELSE First(ends)

CountOfRoot(rest) ==
    LET end == EndOfTag(rest) IN
    IF At(rest, 2) \notin {">", "/", Space} \/ end = 0 THEN None
    ELSE attr_u64(SubSeq(rest, 1, end))

declared_unique_count(text) ==
    LET starts == {i \in DOMAIN text : text[i] = Start} IN
    IF starts = {} THEN None
    ELSE CountOfRoot(SubSeq(text, First(starts), Len(text)))

-----------------------------------------------------------------------------
(* The number the root declares, read as XML: the first of its attributes  *)
(* of that name that has a number.                                         *)
Number(value) ==
    LET upTo[k \in 0..Len(value)] ==
        IF k = 0 THEN 0 ELSE 10 * upTo[k - 1] + Worth[value[k]] IN
    upTo[Len(value)]
Declares ==
    LET counts == {i \in DOMAIN tag : /\ tag[i].name = <<Attr>>
                                      /\ tag[i].value # <<>>
                                      /\ Range(tag[i].value) \subseteq Digits} IN
    IF root # <<Start>> \/ counts = {} THEN None
    ELSE LET n == Number(tag[First(counts)].value) IN
         IF n > CountMax THEN CountMax ELSE n

(* The heads on which the scan is a parser's equal: no <sst before the     *)
(* root, no > and no uniqueCount inside a value, no name that continues    *)
(* with uniqueCount after a mark (x:uniqueCount), and a uniqueCount that   *)
(* is digits throughout or has none.                                       *)
PlainAttribute(a) ==
    /\ a.name # <<".", Attr>>
    /\ Range(a.value) \cap {">", Attr} = {}
    /\ a.name = <<Attr>> => \/ Range(a.value) \subseteq Digits
                            \/ Range(a.value) \cap Digits = {}
PlainHead ==
    /\ Start \notin Range(prolog)
    /\ \A i \in DOMAIN tag : PlainAttribute(tag[i])

PlainCounts == PlainHead => declared_unique_count(Text) = Declares

CutAnywhere ==
    \A n \in 1..Len(Text) :
        declared_unique_count(SubSeq(Text, 1, n))
            \in {None, declared_unique_count(Text)}

(* Of a plain head the scan (archive.rs:451-507) reads the count a parser  *)
(* would, whatever the order, spacing and quoting of the attributes and    *)
(* whatever letters are around the word. A head of any kind that           *)
(* SST_HEAD_SCAN cuts (archive.rs:343-346) gives what the whole one gives  *)
(* or nothing, never a part of the digits. What the whole gives where the  *)
(* head is not plain is not judged here: archive.rs:469 promises "A real   *)
(* attribute, not a tail of a longer name", yet x:uniqueCount counts.      *)
CountIsDeclared == PlainCounts /\ CutAnywhere
=============================================================================
