---------------------------- MODULE MC_StoredLog ----------------------------
(* A small instance of StoredLog, and of the lease under it, for TLC: two    *)
(* processes are up, of one host or of two; the others left what they left.  *)
EXTENDS StoredLog

CONSTANTS p1, p2, p3, q1

TwoAreUp == SInit /\ alive \in {{p1, p2}, {p1, q1}}

MCSpec == TwoAreUp /\ [][SNext]_svars /\ Fairness
=============================================================================
