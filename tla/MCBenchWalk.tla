---------------------------- MODULE MCBenchWalk ----------------------------
(* Small instances of BenchWalk, and with it of RowStream, for TLC. *)
EXTENDS BenchWalk

NoSelection == NoRow

(* Texts, of two bytes and of none, around a number and an error. *)
MixedKinds == <<"Int", "String", "DurationIso", "Error">>

(* Any three cells, and any four that are column A's and no shared strings: *)
(* the first row met again while it waits before a lower one takes four.    *)
AnyCells == 3
PlainColumn ==
    interned = 0 /\ \A row \in Rows, col \in Cols : sheet[row][col] # 0 => col = 0

Ends == BothEnd \/ ((ReadFails \/ ClientGone) /\ UNCHANGED walkVars)
GateNext ==
    \/ (read < AnyCells \/ PlainColumn) /\ BenchNext /\ (read' > AnyCells => PlainColumn')
    \/ \E row \in Rows, col \in Cols : BothMeetBlank(row, col)
    \/ Ends
GateSpec == BenchInit /\ [][GateNext]_<<vars, walkVars>>
=============================================================================
