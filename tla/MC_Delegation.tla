--------------------------- MODULE MC_Delegation ---------------------------
(* A small instance of Delegation for TLC.                                  *)
EXTENDS Delegation, TLC

Exchangeable == Permutations(Session)

(* A host that confines, one that cannot and whose deployment accepts it,   *)
(* and one that confines under a deployment that neither asks nor confines. *)
Hosts == {[enforces |-> Full, mode |-> WorkspaceWrite, accepts |-> Full],
          [enforces |-> None, mode |-> WorkspaceWrite, accepts |-> None],
          [enforces |-> Full, mode |-> DangerFullAccess, accepts |-> None]}

(* A row with no ceiling, one that may not write, one that accepts nothing. *)
Rows == {[mode |-> DangerFullAccess, accepts |-> None],
         [mode |-> ReadOnly, accepts |-> None],
         [mode |-> DangerFullAccess, accepts |-> Full]}
=============================================================================
