-------------------------- MODULE MCWorkbookStore --------------------------
(* Small instances of WorkbookStore for TLC. *)
EXTENDS WorkbookStore, TLC

CONSTANTS b1, b2, b3, r1, r2, r3

(* Two workbooks of one size: what is worth telling apart is who pays. *)
TwoBooks == {b1, b2}
TwoReads == {r1, r2}
ThreeReads == {r1, r2, r3}
EvenBytes == [b \in TwoBooks |-> 3]
EvenReaderBytes == [b \in TwoBooks |-> 1]

(* Three workbooks of different sizes. *)
ThreeBooks == {b1, b2, b3}
MixedBytes == b1 :> 1 @@ b2 :> 2 @@ b3 :> 3
MixedReaderBytes == b1 :> 0 @@ b2 :> 1 @@ b3 :> 2

ThreeReadSymmetry == Permutations(ThreeReads)
=============================================================================
