---------------------------- MODULE MCRowStream ----------------------------
(* Small instances of RowStream for TLC. *)
EXTENDS RowStream

(* A request without HeaderRow::Row(n). *)
NoSelection == NoRow
=============================================================================
