--------------------------- MODULE MCSeatManager ---------------------------
(* One seat that comes, goes and changes and one that stays as it is, for TLC. *)
EXTENDS SeatManager

\* It takes five changes of one seat for the daemon to miss one.
MCMaxChanges == [s \in Seats |-> IF s = "seat0" THEN 5 ELSE 0]
=============================================================================
