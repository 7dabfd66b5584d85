---------------------------- MODULE MCSyncClient ----------------------------
(* Instances of SyncClient: tasks are interchangeable, rows are too.       *)
EXTENDS SyncClient, TLC

CONSTANTS t1, t2, r1, r2

OneRow == {r1}
TwoRows == {r1, r2}
TwoTasks == {t1, t2}

Queueing == {"optimistic_queue", "local_only"}
Direct == {"optimistic_queue", "server_first", "server_only"}

(* The device clock is a millisecond behind the server's. *)
Behind == -1

TaskSymmetry == Permutations(TwoTasks)
Symmetry == Permutations(TwoTasks) \cup Permutations(TwoRows)
=============================================================================
