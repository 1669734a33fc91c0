---------------------------- MODULE MCSheetPaths ----------------------------
(* Small instances of SheetPaths for TLC. *)
EXTENDS SheetPaths

(* An ordered extent, a reversed one, and one of 4 by 4, where 4 stands    *)
(* for 2^32 and Word for 2^64.                                             *)
ThreeExtents == {<<1, 0, 2, 1>>, <<3, 0, 1, 1>>, <<0, 0, 3, 3>>}

(* Any cells below row 0, which no selection of the run includes, may hold *)
(* something: each the number of its row, so that no row passes for        *)
(* another.                                                                *)
NumberedGrids ==
    {[r \in Rows |-> [c \in Cols |-> IF <<r, c>> \in cells THEN r ELSE 0]] :
        cells \in SUBSET (Rows \X Cols)}

(* Any three cells, and any four that are column A's and no shared strings: *)
(* a row met again while it waits before a lower one takes four.            *)
AnyCells == 3
PlainColumn ==
    interned = 0 /\ \A row \in Rows, col \in Cols : sheet[row][col] # 0 => col = 0

CellsEnd ==
    /\ stage = "cells" /\ UNCHANGED bodyVars
    /\ \/ EndOfSheet \/ ReadFails \/ ClientGone
       \/ \E row \in Rows, id \in 1..Least(interned + 1, MaxCells) : SkipAbove(row, id)

SheetNext ==
    /\ \/ (read < AnyCells \/ PlainColumn) /\ BodyNext
       \/ CellsEnd
    /\ interned' <= AnyCells
    /\ read' > AnyCells => PlainColumn'
SheetSpec == BodyInit /\ [][SheetNext]_allVars
=============================================================================
