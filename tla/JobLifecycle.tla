----------------------------- MODULE JobLifecycle -----------------------------
(***************************************************************************)
(* What the API promises of a backup job (BackupStatus, app/models): it is  *)
(* queued, runs, and ends as success, failed or cancelled; an end is final. *)
(* A job that ended in success has the only manifest that counts as a       *)
(* completed backup.                                                        *)
(***************************************************************************)

CONSTANT Jobs

VARIABLES
    status,     \* status[j]: the status of job j, "absent" before it exists
    completed   \* the jobs that have a manifest

lifecycleVars == <<status, completed>>

Init ==
    /\ status = [j \in Jobs |-> "absent"]
    /\ completed = {}

Move(j, from, to) ==
    /\ status[j] \in from
    /\ status' = [status EXCEPT ![j] = to]

Queue(j) == Move(j, {"absent"}, "queued") /\ UNCHANGED completed

Start(j) == Move(j, {"queued"}, "running") /\ UNCHANGED completed

Cancel(j) == Move(j, {"queued", "running"}, "cancelled") /\ UNCHANGED completed

Fail(j) == Move(j, {"running"}, "failed") /\ UNCHANGED completed

Complete(j) ==
    /\ Move(j, {"running"}, "success")
    /\ completed' = completed \cup {j}

Next ==
    \E j \in Jobs : Queue(j) \/ Start(j) \/ Cancel(j) \/ Fail(j) \/ Complete(j)

Spec == Init /\ [][Next]_lifecycleVars

=============================================================================
