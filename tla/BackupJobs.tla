------------------------------ MODULE BackupJobs ------------------------------
(***************************************************************************)
(* Backup jobs from the request to the manifest: the endpoints of           *)
(* app/api/v1/endpoints/backups.py that create and cancel a job, the        *)
(* message on NATS JetStream, the consumer of app/workers/backup_consumer.py*)
(* and BackupService.run_backup.                                            *)
(*                                                                          *)
(* Granularity.  A step is one committed transaction, one query whose       *)
(* result is used after another process may have run, or one exchange with  *)
(* the broker.  The ORM writes a column only if it differs from the value   *)
(* the session loaded, and never re-reads a row it holds.  What a pass does *)
(* to the chunk store is the subject of ChunkStore.                         *)
(*                                                                          *)
(* Sessions.  The sessions of deps.py:71-74 and backup_consumer.py:79 come *)
(* from tenant_session, and SQLAlchemy admits no statement after a commit   *)
(* inside its "async with session.begin()".  The session is an argument of  *)
(* BackupService and a dependency of the endpoints, and those that the tests*)
(* pass admit it: scoped is any set of processes, and never changes.  What  *)
(* is checked and proved holds for the sessions as deployed, with which no  *)
(* job gets past its first commit, and for sessions that go on.             *)
(*                                                                          *)
(* Env names the circumstances a run admits:                                *)
(*   "cancel"        users cancel jobs;                                     *)
(*   "disk_error"    reading or chunking a disk raises;                     *)
(*   "db_error"      a query or a commit fails;                             *)
(*   "crash"         a worker is killed;                                    *)
(*   "slow"          a backup takes longer than ack_wait (600 s);           *)
(*   "lost_publish"  NATS is down, has no stream for the subject yet, or the*)
(*                   API process stops between commit and publish;          *)
(*   "tenant_delete" the tenant of a VM is deleted, and by cascade its VMs, *)
(*                   their jobs and manifests.                              *)
(***************************************************************************)
EXTENDS Integers, Sequences, FiniteSets

CONSTANTS
    Jobs,        \* the backup jobs that may be requested
    VmOf,        \* VmOf[j]: the VM that j backs up
    Workers,     \* consumer processes
    MaxDeliver,  \* MAX_DELIVER: how often the broker hands out a message
    Env,         \* the circumstances admitted, see above
    NoJob        \* no job; also the parent of a manifest without parent

Circumstances ==
    {"cancel", "disk_error", "db_error", "crash", "slow", "lost_publish", "tenant_delete"}

ASSUME VmOfAssumption == DOMAIN VmOf = Jobs
ASSUME MaxDeliverAssumption == MaxDeliver \in Nat \ {0}
ASSUME EnvAssumption == Env \subseteq Circumstances
ASSUME NoJobAssumption == NoJob \notin Jobs

VARIABLES
    status,     \* status[j]: backup_jobs.status, "absent" without a row
    jobType,    \* jobType[j]: backup_jobs.job_type
    catalog,    \* the jobs that have a manifest, in order of created_at
    parent,     \* parent[j]: the job of j's manifest's parent_manifest_id
    gone,       \* the VMs deleted with their tenant.  The rows of their jobs are
                \* gone too: the variables above keep what they last held
    scoped,     \* the processes whose sessions come from tenant_session
    foreign,    \* the jobs an MSP admin asks for, of a VM of another tenant: the
                \* job and its message bear the admin's tenant_id
    request,    \* request[j]: where the request that creates j is
    cancelling, \* the jobs some cancel request has found cancellable
    msg,        \* msg[j]: j's message at the broker
    delivered,  \* delivered[j]: how often the message was handed out
    wpc,        \* wpc[w]: where worker w is
    wjob,       \* wjob[w]: the job w handles
    wseen,      \* wseen[w]: the status of that job as w's session holds it
    wparent     \* wparent[w]: the parent w has found

dbVars == <<status, jobType, catalog, parent, gone>>
apiVars == <<scoped, foreign, request, cancelling>>
brokerVars == <<msg, delivered>>
workerVars == <<wpc, wjob, wseen, wparent>>
vars == <<status, jobType, catalog, parent, gone, scoped, foreign, request,
          cancelling, msg, delivered, wpc, wjob, wseen, wparent>>

-----------------------------------------------------------------------------
(* Helpers *)

Types == {"full", "incremental"}

Terminal == {"success", "failed", "cancelled"}

Statuses == {"absent", "queued", "running"} \cup Terminal

HasManifest(j) == \E i \in 1..Len(catalog) : catalog[i] = j

\* Mutant: full backups that have only been asked for are counted.
FullRequested(j) ==
    \E f \in Jobs :
        VmOf[f] = VmOf[j] /\ jobType[f] = "full" /\ status[f] # "absent"

\* full_count > 0: a full backup of j's VM has succeeded.
FullExists(j) ==
    \E f \in Jobs :
        VmOf[f] = VmOf[j] /\ jobType[f] = "full" /\ status[f] = "success"

\* Worker w goes to s.
Goto(w, s) == wpc' = [wpc EXCEPT ![w] = s]

\* Worker w is done with its message and will fetch another.
Finish(w) ==
    /\ Goto(w, "idle")
    /\ wjob' = [wjob EXCEPT ![w] = NoJob]
    /\ wseen' = [wseen EXCEPT ![w] = "absent"]
    /\ wparent' = [wparent EXCEPT ![w] = NoJob]

\* Mutant: no max_deliver.
ReturnedAlways(j, again) == again

\* A message that was not acknowledged is handed out again, or never more.
Returned(j, again) == IF delivered[j] < MaxDeliver THEN again ELSE "spent"

\* The statement after a commit of the process raises.
Raises(process) == process \in scoped

\* j's VM, and with it j, is no longer in the database.
Gone(j) == VmOf[j] \in gone

\* The worker's session, with the tenant_id of the message, does not see j or
\* does not see its VM.
Hidden(j) == Gone(j) \/ j \in foreign

-----------------------------------------------------------------------------
Init ==
    /\ status = [j \in Jobs |-> "absent"]
    /\ jobType = [j \in Jobs |-> "full"]
    /\ catalog = << >>
    /\ parent = [j \in Jobs |-> NoJob]
    /\ gone = {}
    /\ scoped \in SUBSET {"api", "worker"}
    /\ foreign = {}
    /\ request = [j \in Jobs |-> "none"]
    /\ cancelling = {}
    /\ msg = [j \in Jobs |-> "unsent"]
    /\ delivered = [j \in Jobs |-> 0]
    /\ wpc = [w \in Workers |-> "idle"]
    /\ wjob = [w \in Workers |-> NoJob]
    /\ wseen = [w \in Workers |-> "absent"]
    /\ wparent = [w \in Workers |-> NoJob]

-----------------------------------------------------------------------------
(* POST /backups *)

\* The VM is there and can be backed up; without a successful full backup of it
\* an incremental job is promoted.  An MSP admin sees the VMs of all tenants.
CreateCheck(j) ==
    /\ request[j] = "none"
    /\ ~Gone(j)
    /\ \E t \in Types :
        jobType' = [jobType EXCEPT ![j] =
            IF t = "incremental" /\ FullExists(j) THEN "incremental" ELSE "full"]
    /\ foreign' \in {foreign, foreign \cup {j}}
    /\ request' = [request EXCEPT ![j] = "checked"]
    /\ UNCHANGED <<status, catalog, parent, gone, scoped, cancelling, brokerVars,
                   workerVars>>

\* Row and audit event are committed; then the row is refreshed, which in a
\* scoped session raises and ends the request.
CreateCommit(j) ==
    /\ request[j] = "checked"
    /\ ~Gone(j)
    /\ status' = [status EXCEPT ![j] = "queued"]
    /\ request' = [request EXCEPT ![j] = IF Raises("api") THEN "done" ELSE "committed"]
    /\ UNCHANGED <<jobType, catalog, parent, gone, scoped, foreign, cancelling,
                   brokerVars, workerVars>>

\* The commit fails, on the foreign key when the VM is gone: there is no job.
CreateFails(j) ==
    /\ request[j] = "checked"
    /\ Gone(j) \/ "db_error" \in Env
    /\ request' = [request EXCEPT ![j] = "done"]
    /\ UNCHANGED <<dbVars, scoped, foreign, cancelling, brokerVars, workerVars>>

\* _publish_job, a core NATS publish: nobody confirms it.
Publish(j) ==
    /\ request[j] = "committed"
    /\ msg' = [msg EXCEPT ![j] = "ready"]
    /\ request' = [request EXCEPT ![j] = "done"]
    /\ UNCHANGED <<dbVars, scoped, foreign, cancelling, delivered, workerVars>>

PublishLost(j) ==
    /\ "lost_publish" \in Env
    /\ request[j] = "committed"
    /\ request' = [request EXCEPT ![j] = "done"]
    /\ UNCHANGED <<dbVars, scoped, foreign, cancelling, brokerVars, workerVars>>

-----------------------------------------------------------------------------
(* DELETE /backups/{job_id} *)

\* The job is read as queued or running; otherwise the answer is 404 or 409.
CancelCheck(j) ==
    /\ "cancel" \in Env
    /\ ~Gone(j)
    /\ status[j] \in {"queued", "running"}
    /\ cancelling' = cancelling \cup {j}
    /\ UNCHANGED <<dbVars, scoped, foreign, request, brokerVars, workerVars>>

\* UPDATE backup_jobs SET status = 'cancelled' WHERE id = j: the last statement
\* of the request, or one that fails or finds no row.
CancelCommit(j) ==
    /\ j \in cancelling
    /\ \/ ~Gone(j) /\ status' = [status EXCEPT ![j] = "cancelled"]
       \/ (Gone(j) \/ "db_error" \in Env) /\ UNCHANGED status
    /\ cancelling' = cancelling \ {j}
    /\ UNCHANGED <<jobType, catalog, parent, gone, scoped, foreign, request,
                   brokerVars, workerVars>>

-----------------------------------------------------------------------------
(* The database without the tenant *)

\* DELETE of the tenant of j's VM, with its cascades.  Its VMs were deleted
\* before, which no pass and no message hears of.
RemoveTenant(j) ==
    /\ "tenant_delete" \in Env
    /\ ~Gone(j)
    /\ gone' = gone \cup {VmOf[j]}
    /\ UNCHANGED <<status, jobType, catalog, parent, apiVars, brokerVars, workerVars>>

-----------------------------------------------------------------------------
(* The broker: explicit acks, max_deliver, max_ack_pending = 1 *)

\* Mutant: a message given up keeps its place among those that await an ack.
UnsettledForever == {j \in Jobs : delivered[j] > 0 /\ msg[j] # "acked"}

\* The messages handed out and neither acknowledged nor given up, those that
\* wait for their next delivery included.
Unsettled == {j \in Jobs : delivered[j] > 0 /\ msg[j] \notin {"acked", "spent"}}

Deliver(w, j) ==
    /\ wpc[w] = "idle"
    /\ msg[j] \in {"ready", "delayed"}
    /\ Unsettled \subseteq {j}
    /\ msg' = [msg EXCEPT ![j] = "pending"]
    /\ delivered' = [delivered EXCEPT ![j] = @ + 1]
    /\ Goto(w, "fetched")
    /\ wjob' = [wjob EXCEPT ![w] = j]
    /\ UNCHANGED <<dbVars, apiVars, wseen, wparent>>

\* No answer within ack_wait: the worker is gone, or just slow.
AckWaitExpires(j) ==
    /\ msg[j] = "pending"
    /\ "slow" \in Env \/ \A w \in Workers : wjob[w] # j
    /\ msg' = [msg EXCEPT ![j] = Returned(j, "ready")]
    /\ UNCHANGED <<dbVars, apiVars, delivered, workerVars>>

-----------------------------------------------------------------------------
(* The consumer, _handle, and BackupService.run_backup *)

\* Mutant: a cancelled job is run as well.
LoadUnchecked(w) ==
    /\ wpc[w] = "fetched"
    /\ IF Hidden(wjob[w])
       THEN Goto(w, "ack") /\ UNCHANGED wseen
       ELSE /\ Goto(w, "loaded")
            /\ wseen' = [wseen EXCEPT ![w] = status[wjob[w]]]
    /\ UNCHANGED <<dbVars, apiVars, brokerVars, wjob, wparent>>

\* Job and VM are read; if one is not there, or the job is cancelled, the message
\* is acknowledged and dropped.  Any other status goes on, "success" and "running"
\* included.
Load(w) ==
    /\ wpc[w] = "fetched"
    /\ IF Hidden(wjob[w]) \/ status[wjob[w]] = "cancelled"
       THEN Goto(w, "ack") /\ UNCHANGED wseen
       ELSE /\ Goto(w, "loaded")
            /\ wseen' = [wseen EXCEPT ![w] = status[wjob[w]]]
    /\ UNCHANGED <<dbVars, apiVars, brokerVars, wjob, wparent>>

\* Mutant: the status is not committed.
MarkRunningUncommitted(w) ==
    /\ wpc[w] = "loaded"
    /\ ~Gone(wjob[w])
    /\ wseen' = [wseen EXCEPT ![w] = "running"]
    /\ Goto(w, "disks")
    /\ UNCHANGED <<dbVars, apiVars, brokerVars, wjob, wparent>>

\* job.status = running, commit.  In a scoped session the next statement raises,
\* also in the handler of the exception.
MarkRunning(w) ==
    /\ wpc[w] = "loaded"
    /\ ~Gone(wjob[w])
    /\ status' = IF wseen[w] = "running" THEN status
                 ELSE [status EXCEPT ![wjob[w]] = "running"]
    /\ wseen' = [wseen EXCEPT ![w] = "running"]
    /\ Goto(w, IF Raises("worker") THEN "raised" ELSE "disks")
    /\ UNCHANGED <<jobType, catalog, parent, gone, apiVars, brokerVars, wjob, wparent>>

\* Every backup-enabled disk is read and written to the chunk store.
BackUpDisks(w) ==
    /\ wpc[w] = "disks"
    /\ Goto(w, "link")
    /\ UNCHANGED <<dbVars, apiVars, brokerVars, wjob, wseen, wparent>>

\* A disk raises; what was written stays written.
DiskError(w) ==
    /\ "disk_error" \in Env
    /\ wpc[w] = "disks"
    /\ Goto(w, "failing")
    /\ UNCHANGED <<dbVars, apiVars, brokerVars, wjob, wseen, wparent>>

\* The positions of the manifests of j's VM whose job is a success.
Parents(j) ==
    {i \in 1..Len(catalog) :
        ~Gone(j) /\ VmOf[catalog[i]] = VmOf[j] /\ status[catalog[i]] = "success"}

\* _get_parent_manifest_id: the latest of them, or none.
FindParent(w) ==
    LET ps == Parents(wjob[w])
    IN  /\ wpc[w] = "link"
        /\ \/ ps = {} /\ wparent' = [wparent EXCEPT ![w] = NoJob]
           \/ \E i \in ps : /\ \A k \in ps : k <= i
                            /\ wparent' = [wparent EXCEPT ![w] = catalog[i]]
        /\ Goto(w, "save")
        /\ UNCHANGED <<dbVars, apiVars, brokerVars, wjob, wseen>>

\* Mutant: no UNIQUE (job_id).
SaveUnchecked(w) ==
    /\ wpc[w] = "save"
    /\ ~Gone(wjob[w])
    /\ catalog' = Append(catalog, wjob[w])
    /\ parent' = [parent EXCEPT ![wjob[w]] = wparent[w]]
    /\ status' = [status EXCEPT ![wjob[w]] = "success"]
    /\ Goto(w, "ack")
    /\ UNCHANGED <<jobType, gone, apiVars, brokerVars, wjob, wseen, wparent>>

\* Mutant: the parent is looked up after the manifest is there.
SaveThenLink(w) ==
    /\ wpc[w] = "save"
    /\ ~Gone(wjob[w])
    /\ ~HasManifest(wjob[w])
    /\ catalog' = Append(catalog, wjob[w])
    /\ parent' = [parent EXCEPT ![wjob[w]] = wjob[w]]
    /\ status' = [status EXCEPT ![wjob[w]] = "success"]
    /\ Goto(w, "ack")
    /\ UNCHANGED <<jobType, gone, apiVars, brokerVars, wjob, wseen, wparent>>

\* Manifest and status are committed together.
SaveSuccess(w) ==
    /\ wpc[w] = "save"
    /\ ~Gone(wjob[w])
    /\ ~HasManifest(wjob[w])
    /\ catalog' = Append(catalog, wjob[w])
    /\ parent' = [parent EXCEPT ![wjob[w]] = wparent[w]]
    /\ status' = [status EXCEPT ![wjob[w]] = "success"]
    /\ Goto(w, "ack")
    /\ UNCHANGED <<jobType, gone, apiVars, brokerVars, wjob, wseen, wparent>>

\* UNIQUE (job_id): the commit, outside the try, raises and is rolled back.
SaveDuplicate(w) ==
    /\ wpc[w] = "save"
    /\ HasManifest(wjob[w])
    /\ Goto(w, "raised")
    /\ UNCHANGED <<dbVars, apiVars, brokerVars, wjob, wseen, wparent>>

\* Mutant: the handler only logs.
SaveFailedSilent(w) ==
    /\ wpc[w] = "failing"
    /\ Goto(w, "ack")
    /\ UNCHANGED <<dbVars, apiVars, brokerVars, wjob, wseen, wparent>>

\* The exception is caught: status failed is committed, and run_backup
\* returns as if nothing had happened.
SaveFailed(w) ==
    /\ wpc[w] = "failing"
    /\ ~Gone(wjob[w])
    /\ status' = [status EXCEPT ![wjob[w]] = "failed"]
    /\ Goto(w, "ack")
    /\ UNCHANGED <<jobType, catalog, parent, gone, apiVars, brokerVars, wjob, wseen,
                   wparent>>

\* A query or a commit fails, those that write a row that is gone always: the
\* transaction is lost, with it what an exception handler would have committed.
DbError(w) ==
    /\ \/ wpc[w] \in {"fetched", "loaded", "link", "save", "failing"} /\ "db_error" \in Env
       \/ wpc[w] \in {"loaded", "save", "failing"} /\ Gone(wjob[w])
    /\ Goto(w, "raised")
    /\ UNCHANGED <<dbVars, apiVars, brokerVars, wjob, wseen, wparent>>

\* msg.ack(), of an earlier delivery too.
Ack(w) ==
    /\ wpc[w] = "ack"
    /\ msg' = [msg EXCEPT ![wjob[w]] = "acked"]
    /\ Finish(w)
    /\ UNCHANGED <<dbVars, apiVars, delivered>>

\* msg.nak(delay=30)
Nak(w) ==
    /\ wpc[w] = "raised"
    /\ msg' = [msg EXCEPT ![wjob[w]] =
            IF @ = "pending" THEN Returned(wjob[w], "delayed") ELSE @]
    /\ Finish(w)
    /\ UNCHANGED <<dbVars, apiVars, delivered>>

Crash(w) ==
    /\ "crash" \in Env
    /\ wpc[w] # "idle"
    /\ Finish(w)
    /\ UNCHANGED <<dbVars, apiVars, brokerVars>>

-----------------------------------------------------------------------------
Create(j) ==
    CreateCheck(j) \/ CreateCommit(j) \/ CreateFails(j) \/ Publish(j) \/ PublishLost(j)

Cancel(j) == CancelCheck(j) \/ CancelCommit(j)

Handle(w) ==
    \/ Load(w) \/ MarkRunning(w) \/ BackUpDisks(w) \/ DiskError(w)
    \/ FindParent(w) \/ SaveSuccess(w) \/ SaveDuplicate(w) \/ SaveFailed(w)
    \/ DbError(w) \/ Ack(w) \/ Nak(w)

Next ==
    \/ \E j \in Jobs : Create(j) \/ Cancel(j) \/ RemoveTenant(j) \/ AckWaitExpires(j)
    \/ \E w \in Workers : Handle(w) \/ Crash(w) \/ \E j \in Jobs : Deliver(w, j)

Spec == Init /\ [][Next]_vars

\* A request that has committed goes on to publish, a worker that has fetched
\* handles, and the broker keeps its timers and hands out what it can.
Fairness ==
    /\ \A j \in Jobs : /\ WF_vars(Publish(j))
                       /\ WF_vars(AckWaitExpires(j))
                       /\ WF_vars(\E w \in Workers : Deliver(w, j))
    /\ \A w \in Workers : WF_vars(Handle(w))

FairSpec == Spec /\ Fairness

-----------------------------------------------------------------------------
(* Properties *)

\* Every variable has its type; no message is handed out more than MaxDeliver
\* times, and a worker that is not idle has a job.
TypeOK ==
    /\ status \in [Jobs -> Statuses]
    /\ jobType \in [Jobs -> Types]
    /\ catalog \in Seq(Jobs)
    /\ parent \in [Jobs -> Jobs \cup {NoJob}]
    /\ gone \subseteq {VmOf[j] : j \in Jobs}
    /\ scoped \subseteq {"api", "worker"}
    /\ foreign \subseteq Jobs
    /\ request \in [Jobs -> {"none", "checked", "committed", "done"}]
    /\ cancelling \subseteq Jobs
    /\ msg \in [Jobs -> {"unsent", "ready", "pending", "delayed", "acked", "spent"}]
    /\ delivered \in [Jobs -> 0..MaxDeliver]
    /\ wpc \in [Workers -> {"idle", "fetched", "loaded", "disks", "link", "save",
                            "failing", "raised", "ack"}]
    /\ wjob \in [Workers -> Jobs \cup {NoJob}]
    /\ \A w \in Workers : wpc[w] # "idle" => wjob[w] # NoJob
    /\ wseen \in [Workers -> Statuses]
    /\ wparent \in [Workers -> Jobs \cup {NoJob}]

\* A job shown as a success has its manifest, and no job has two, however
\* often its message is delivered and whoever runs, cancels or crashes.
SuccessHasManifest ==
    /\ \A j \in Jobs : status[j] = "success" => HasManifest(j)
    /\ \A i, k \in 1..Len(catalog) : catalog[i] = catalog[k] => i = k

\* The parent of a manifest is an earlier manifest of the same VM: the chain
\* the restore engine walks (backup_service.py:18) ends.
ParentsPrecede ==
    \A i \in 1..Len(catalog) :
        LET p == parent[catalog[i]]
        IN  p # NoJob => /\ VmOf[p] = VmOf[catalog[i]]
                         /\ \E k \in 1..(i - 1) : catalog[k] = p

\* "the restore engine walks the manifest chain from the most recent backup
\* back to the last full" (backup_service.py:18): with ParentsPrecede, a chain
\* can only end at a full backup if no incremental manifest lacks a parent.
IncrementalHasParent ==
    \A j \in Jobs : HasManifest(j) /\ jobType[j] = "incremental" => parent[j] # NoJob

\* Worker w runs job j: it has loaded the row and will write its status.
InPass(w, j) ==
    wjob[w] = j /\ wpc[w] \in {"loaded", "disks", "link", "save", "failing"}

\* Job j is cancelled and no pass has it.
Dropped(j) == status[j] = "cancelled" /\ \A w \in Workers : ~InPass(w, j)

\* A pass that had loaded its job overwrites a cancellation at its end; but once
\* a job is cancelled and no pass has it, no late delivery, redelivery or other
\* request brings it back, and no pass over it begins.
CancelStands == [][\A j \in Jobs : Dropped(j) => Dropped(j)']_vars

\* What the chains of ParentsPrecede lack: an incremental manifest without parent,
\* from which nothing can be restored, is there only when a completed full backup
\* of its VM has lost its success again, by a cancellation that had checked it
\* before (backups.py:120) or a pass over a redelivered message
\* (backup_service.py:162).  No other order of requests, passes, failures and
\* deletions leads to one.
OrphanedOnlyIfUndone ==
    \A j \in Jobs :
        HasManifest(j) /\ jobType[j] = "incremental" /\ parent[j] = NoJob =>
            \E f \in Jobs : /\ VmOf[f] = VmOf[j] /\ jobType[f] = "full"
                           /\ HasManifest(f) /\ status[f] # "success"

\* The message of a job that the workers can see is acknowledged only when the job
\* has ended; only one that was handed out more than once may be acknowledged and
\* show its job as running, when one pass has ended and another goes on or failed.
JobsInHand ==
    \A j \in Jobs :
        msg[j] = "acked" /\ ~Hidden(j) =>
            status[j] \in Terminal \/ (status[j] = "running" /\ delivered[j] > 1)

\* A published message is acknowledged or given up: max_ack_pending = 1 lets one
\* message through at a time, and none holds up the others for ever, whichever
\* passes fail, whichever tenants are deleted, and whatever sessions do.
MessagesSettle == \A j \in Jobs : msg[j] = "ready" ~> msg[j] \in {"acked", "spent"}

Lifecycle == INSTANCE JobLifecycle WITH
    completed <- {j \in Jobs : HasManifest(j)}

\* While nothing is cancelled, lost or redelivered, jobs keep the lifecycle
\* that the API promises.
ImplementsLifecycle == Lifecycle!Spec

=============================================================================
