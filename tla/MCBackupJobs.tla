----------------------------- MODULE MCBackupJobs -----------------------------
(* Instances of BackupJobs for TLC. *)
EXTENDS BackupJobs, TLC

CONSTANTS j1, j2, j3, w1, w2, v1, v2

MCJobs2 == {j1, j2}
MCJobs3 == {j1, j2, j3}
MCWorkers == {w1, w2}
MCOneVm == [j \in Jobs |-> v1]
MCTwoVms == [j \in Jobs |-> IF j = j3 THEN v2 ELSE v1]

\* Jobs of one VM are interchangeable, and so are workers.
Symmetry == Permutations(MCJobs2) \cup Permutations(MCWorkers)

MCCalmEnv == {"disk_error", "db_error", "tenant_delete"}

=============================================================================
