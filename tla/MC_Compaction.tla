--------------------------- MODULE MC_Compaction ---------------------------
(* Two steps a turn, one retry of each kind, and one summary's failure.    *)
EXTENDS Compaction
=============================================================================
