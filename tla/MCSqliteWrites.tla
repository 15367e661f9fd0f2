--------------------------- MODULE MCSqliteWrites ---------------------------
(***************************************************************************)
(* Instance of SqliteWrites for TLC.                                       *)
(***************************************************************************)
EXTENDS SqliteWrites
=============================================================================
