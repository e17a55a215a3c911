--------------------------- MODULE MCFreeConnector ---------------------------
(* FreeConnector with every pilot status and every safety entry. *)
EXTENDS FreeConnector

AllStatus == Status
AllEntries == {"ip", "op", "es"}
=============================================================================
