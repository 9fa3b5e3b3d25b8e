--------------------------- MODULE MC_SyncedFlush ---------------------------
(* A small instance of SyncedFlush for TLC.                                 *)
EXTENDS SyncedFlush, TLC
=============================================================================
