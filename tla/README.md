# NovaHyper in TLA+

NovaHyper is an MSP hypervisor platform: a FastAPI backend that manages tenants,
virtual machines (libvirt/QEMU) and deduplicated backups, with PostgreSQL as its
database and NATS JetStream between the API and the backup workers. This
directory models the backend, checks it with TLC on small instances and proves
the properties that matter most with TLAPS for all values of the constants.

## 1. The system

| Component | State it keeps | Operations | Hard part |
|---|---|---|---|
| Chunk store, `dedup/chunk_store.py` | table `chunks` (hash, path, ref_count); one file per chunk; its `.tmp` file | `write_disk`, `read_manifest`, `decrement_refs`, `gc`, `stats` | every database step is a transaction of its own; passes, releases and sweeps interleave between them; files and rows change in separate steps |
| Backup jobs, `endpoints/backups.py`, `workers/backup_consumer.py`, `services/backup_service.py` | `backup_jobs`, `backup_manifests`; the stream and its consumer; one session per request or message | create, cancel, publish, fetch, ack, nak, `run_backup` | at-least-once delivery, ack timeouts, a status that three parties write, sessions that never re-read a row |
| Dirty bitmaps, `services/backup_service.py`, `vm_service._init_dirty_bitmaps` | one QEMU bitmap per disk, `disks.bitmap_name` | create, query, clear | the guest writes all the time; the bitmap is cleared before the manifest exists |
| Chunker, `_rabin_cdc_chunks` | none | splits a byte string | boundaries, rolling hash |
| VM lifecycle, `services/vm_service.py`, `endpoints/vms.py` | `vms`, `disks`; libvirt domains | create, power actions, update, delete, metrics | status in the database against the domain in libvirt, check-then-act |
| Tenants, `endpoints/tenants.py`, `core/deps.py` | `tenants`, `users` | create, update, invite, suspend, reinstate, delete | suspension against requests in flight |
| Metering, `services/metering.py` | `usage_events`; a task and a stop event | `start`, `stop`, one snapshot per interval | a loop that waits after passes of any length, a batch that fails as a whole, shutdown around awaits |
| Partition manager, `services/partition_manager.py` | partitions of `usage_events` | a first pass at start, then one per day | a snapshot needs the partition of its month; failures are only logged |
| Audit, `services/audit.py`, `endpoints/audit.py` | `audit_log`, append-only by trigger | write in the caller's transaction, list by pages, export, verify | stamped before the commit; a log that grows while it is read |
| Sessions and RLS, `db/session.py`, migrations 0002, 0006, 0007 | one transaction per request | `get_db`, `tenant_session` | a commit ends the transaction block of `tenant_session` |
| Auth, schemas, configuration, middleware, the rest of `main.py`, frontend | none beyond the request | | |

How they interact. A request to `POST /backups` commits a row in `backup_jobs`
and then publishes a message. A worker fetches the message, loads job and VM,
and calls `BackupService.run_backup`, which marks the job running, reads each
disk (with the dirty bitmap for incremental jobs), passes the data to
`ChunkStore.write_disk`, clears the bitmap, and commits manifest and status
together. `DELETE /backups/{id}` writes the status of the same row from another
process. The chunk store shares its rows and files among all jobs of all
tenants; `gc` removes what has no reference. Tenants and VMs are deleted by
cascades and soft deletes that reach the tables of the other components. The API
process runs metering and the partition manager as tasks beside its requests;
`lifespan` starts both and stops them one after the other. Handlers that change
something add an event to `audit_log` in their own transaction.

What makes each component correct:

* Chunk store: a stored manifest can be restored as long as it is stored;
  `ref_count` is the number of references; what has no reference goes away.
* Backup jobs: a success has exactly one manifest; the parents of a manifest
  form a finite chain within the VM that ends at a full backup; statuses move
  as the API promises and an end is final; a message is acknowledged only when its
  job has ended, and every message is settled.
* Dirty bitmaps: a change the guest has made is in a manifest, or its bit is set,
  or a running backup holds it.
* Chunker: chunks cover the data, in order, within the size limits, and depend on
  nothing but the data since the last boundary.
* VMs and tenants: the status tells the state of the domain; nothing runs for a
  suspended or deleted tenant; every domain has a row.
* Metering and partitions: one snapshot per interval, not two, and none is lost
  for want of a partition.
* Audit: an event verifies, and what a reader or an export can miss is known.

## 2. Modules

| Module | What it is |
|---|---|
| `ChunkStore` | passes, releases and sweeps over the shared rows and files |
| `BackupCatalog` | abstract: a catalog of immutable backups that are stored once and retired once |
| `ChunkStoreProofs` | theorems about `ChunkStore` |
| `BackupJobs` | from the request to the manifest |
| `JobLifecycle` | abstract: the statuses of a job as the API promises them |
| `BackupJobsProofs` | theorems about `BackupJobs` |
| `TenantVMs` | requests on VMs and tenants, their rows, and the domains of libvirt |
| `Fleet` | abstract: tenants and VMs whose status is the state of their domain, changed by one request at a time |
| `TenantVMsProofs` | theorems about `TenantVMs` |
| `Rabin` | the arithmetic of the chunker's fingerprint |
| `Chunker`, `ChunkerProofs` | the boundary algorithm, for any fingerprint, and theorems about it |
| `DirtyBitmaps`, `DirtyBitmapsProofs` | guest writes against query, read, clear and commit, and theorems about them |
| `Metering`, `MeteringProofs` | the two periodic services and `lifespan`, and theorems about them |
| `AuditTrail`, `AuditTrailProofs` | writing, listing, exporting and verifying audit events, and theorems about them |
| `MC...` | an instance of the module named behind `MC` for TLC |

`ChunkStore`, `BackupJobs`, `TenantVMs` and `DirtyBitmaps` have a constant `Env`, the set of circumstances a run
admits (crashes, concurrency, a sweep that overlaps a pass, cancellations, ...).
One next-state relation serves all runs, each run says which circumstances it is
about, and a theorem states the circumstances it excludes as an assumption on
`Env`. Operators whose comment begins with "Mutant" are plausible wrong versions
of the operator that follows; no specification uses them.

### ChunkStore

A chunk is a model value, because only equality of hashes matters, and a disk is
the sequence of its chunks. A pass (`write_disk` for one backup) goes through
`pc`: `lookup` (the SELECT of `_write_chunk`), then `bump` (UPDATE of ref_count)
if the row was found, else `open`, `write`, `rename` (`_write_to_disk`) and
`insert` (the upsert), then the next chunk; `saved` is the commit of the
manifest. A release (`decrement_refs`) and the cascade of `delete_tenant` start
at a saved manifest. A sweep (`gc`) selects the rows with count 0, and for each
unlinks the file and deletes the row if its count is still 0.

Files have contents `none`, `torn` (being written or cut off) and `whole`. `fd`
follows an open file through a rename or unlink by somebody else, as POSIX does:
that is how two writers of one `.tmp` path meet. Compression is a function of the
data and `size`, `path` and timestamps follow from the hash, so they are not
kept.

`Env` of ChunkStore: `concurrent` (several passes at once: a job redelivered
after ack_wait, or several workers), `gc_overlap` (a sweep during a pass),
`crash`, `gc_fault` (a database or file error in a sweep, or its end half-way),
`tenant_delete`.

### BackupJobs

`status`, `jobType`, `catalog` and `parent` are the rows of `backup_jobs` and
`backup_manifests`, the latter in order of `created_at`. `request[j]` is where
`create_backup_job` is: `checked` after the count of full backups, `committed`
after the commit, `done` after the publish or its failure. `cancelling` holds the
cancel requests between their check and their commit. `msg` and `delivered` are
what JetStream keeps for the message, `wpc`, `wjob`, `wseen` and `wparent` what a
worker holds in `_handle` and `run_backup`: `wseen` is the status as its session
loaded it, because the ORM writes a column only if it differs from that value
and never reads the row again (`expire_on_commit=False`).

The broker is external. `Deliver`, `AckWaitExpires`, `Ack` and `Nak` model what
the consumer's configuration asks of it: explicit acks, `max_deliver`, `ack_wait`,
and `max_ack_pending = 1`, which counts messages that wait for a redelivery too.

The sessions of both sides come from `tenant_session`, which yields inside `async
with session.begin()`, where SQLAlchemy refuses every statement after a commit:
`create_backup_job` raises at its `refresh`, before it publishes, and `run_backup`
before it reads a disk, in its exception handler too. `scoped` says of API and worker
whether their sessions are of that kind (`Raises`). As deployed both are, and then no
job gets past its first commit: a request leaves it queued without a message. The
session is an argument of `BackupService` and a dependency of the endpoints, and the
tests of the repository pass others, so `Init` admits every combination: each
property and theorem holds for the program as deployed, and, where it says more, for
the pipeline with sessions that go on after a commit. `CancelCommit` is the same in
both, since its commit is the last statement.

A worker opens its session for the `tenant_id` of the message. An MSP admin may ask
for a backup of a customer's VM; job and message then carry the admin's own tenant
(`foreign`), and row-level security hides the VM from the worker, as a VM whose
tenant was deleted is hidden (`gone`, `RemoveTenant`, by cascade with its jobs and
manifests). `Load` acknowledges both and drops them (`Hidden`); a cancelled job too.
`DbError` is a query or commit that fails, the last commit of `run_backup` included:
it is outside the `try`, so the message is returned with `nak`.

`Env` of BackupJobs: `cancel`, `disk_error`, `db_error`, `crash`, `slow` (a backup
outlives ack_wait), `lost_publish` and `tenant_delete`.

### TenantVMs

`row` holds the status column of `vms` and `tenants` ("absent" before the INSERT,
"gone" after the cascade), `domain` what libvirt knows of a VM: whether it is
defined, its power, and whether it was asked to shut down and has not obeyed
yet (`closing`). A request slot goes through `pc`:

| Step | Code |
|---|---|
| `Admit` | `_get_current_user` in `core/deps.py`: a suspended tenant's users get 403; ids of new rows are fresh |
| `LoadVM`, `LoadTenant`, `SelectVMs`, `CountVMs` | the SELECTs of the handlers in `vms.py` and `tenants.py`, with their 404 and 409 (`Refuse`) |
| `Act` | `perform_action`: the call to libvirt and the status set from its outcome; the check of `ACTION_MAP` is in `Grants` |
| `StopAll` | the loop of `suspend_tenant` over the VMs it has loaded |
| `Provision`, `Destroy` | `VMService.create` (define, then start) and `destroy` (undefine only) |
| `Onboard`, `Reinstate` | `create_tenant`, `reinstate_tenant` |
| `Commit`, `Rollback` | the end of the session: foreign key, unique name, rows that vanished |

`seen` and `want` are the statuses a session has loaded and holds, as in
`BackupJobs`: a commit writes a column only if the two differ. There is an await
between loading, acting and committing, so other requests run in between; calls
to libvirt are synchronous, so a loop of them is one step. What is done to a
domain is not undone by a rollback.

libvirt is external and modelled from its use in `vm_service.py`: a name belongs
to one domain of the host, `start` needs a domain that is off and the other calls
one that is on, resuming a domain that runs may fail or not (versions differ),
`undefineFlags` leaves a running domain on. A guest obeys a request to shut down
at any time or never.

`Env` of TenantVMs: `overlap` (requests overlap), `force` (force on an action
other than stop), `graceful` (stop without force), `msp` (MSP admins act on VMs,
also those of suspended tenants), `guest` (a guest powers itself off),
`libvirt_error`, `lost_commit`.

`Fleet` states the promise: a request changes the statuses shown and the domains
in one step, by the moves the API offers; suspension stops every VM of the
tenant in the same step and none moves until it is reinstated. A status of
`running` or `paused` promises that state of the domain, `stopped` that it is off
or going down, `error` and `deleted` promise nothing. The refinement mapping shows
a status as soon as the request that will commit it has acted.

### Chunker

`Rabin` has `_init_tables`, the slide of the window and the boundary condition for
any width of words and bytes. `Chunker` is the loop of `_rabin_cdc_chunks`: a step
is one turn (`Absorb`, or `Cut` at a boundary) or the emission of the rest (`End`).
It takes the fingerprint as operator parameters `Roll` and `Hit`, so that its
theorems hold for every fingerprint and it depends on no bit operation; `MCChunker`
gives it that of `Rabin`. The limits are chosen at the start from a set that
contains contradictory ones, since nothing compares `DEDUP_MIN_CHUNK_SIZE` and
`DEDUP_MAX_CHUNK_SIZE`; the minimum wins.

What the translation shows beside its properties: `_OUT_TABLE[outgoing]` does not
cancel what the byte has contributed, which was rotated once for each byte since,
so a fingerprint depends on all bytes since the boundary and not on the last 48;
`_MOD_TABLE` and the first loop of `_init_tables` are used by nothing.

### DirtyBitmaps

One VM, its disks and their blocks, a block being what one bit of a bitmap stands
for. `dirty` and `tracked` are QEMU's, `named` is `disks.bitmap_name`, `unsaved` the
blocks whose contents the newest manifest with the block does not hold, instead of
the contents themselves. A pass goes through `loop`, `queried`, `read`, `clear` for
each disk, with `job` and its names as its session has loaded them, and ends with
`Commit` or `Fail`; passes on the same VM overlap, as `BackupJobs` shows they do.
The guest writes between any two steps.

An error reply of QEMU is an ordinary return value of `_qmp_command`, at which
nobody looks. In `AddBitmap` a disk may therefore be `given` a name and have no
bitmap; after an exception (a lost connection) it may have a bitmap and no name.
`NameBitmaps` commits the names that were given. Queries and clears of a bitmap that
is not there do nothing, and such a disk is read as a whole by every pass.

The ranges that QEMU reports are offsets on the guest's disk, and `read_disk_ranges`
slices the image file at them. `InPlace` is the set of blocks that are there at their
offset. For another block a slice has nothing, beyond the end of the file, or
other bytes: `Read` finds only `Found`, and gets data that is not theirs (`wrong`) for
any of the rest. With a raw image that is written through, `InPlace` is all blocks;
with a qcow2 file, the default of `disks.disk_format`, hardly any. The whole file,
as a full read takes it, has the contents of the disk in either format. A missing
file is `ReadMissing`. That QEMU writes the file while it is read, and keeps
metadata of qcow2 in memory, is not modelled.

`forgettable` is a history variable: the ways in which the code lets go of a change,
each recorded where it happens, so that the property can say there is no other way.
A pass that fails after it has cleared a bitmap is not one of them. The docstrings of
`backup_service.py` say that a bitmap is cleared after the manifest is persisted
(lines 9-10 and 157-160) and "After a successful backup" (line 115); `_backup_disk`
clears it before (lines 249-251), and the commit is at line 221. `Fail` has the
circumstance `fail_after_clear` for it (section 4).

### Metering

Both services have the same loop, so there is one `Turn`, `Wait` and `Exit` with
the service as a parameter. `life` is where `lifespan` is; the first pass of the
manager is awaited in `start` (`pc = "first"`), later ones are of its task. A pass
of metering selects the running VMs (`MeterTurn`), and inserts their rows later
(`MeterCommit`) or raises (`MeterError`): the month has no partition, a tenant is
gone, or the database fails. The timestamp of the rows is taken after the select, at
any time of the pass (`RecordedIn`), that of the partitions when the manager's pass
begins (`Stamp`). Time is a counter; the timer of a wait that is due
fires before the next tick, and a pass takes at most `PassTicks`. Months have
`MonthTicks` ticks and the calendar is that of `_month_offset`. The sessions are
plain ones, and row-level security does not bind the database user the services
log in as (it is the owner and a superuser in the deployment of the repository).

### AuditTrail

An event is written with a timestamp, then committed or rolled back with the
transaction of what it records; the trigger keeps it from then on. What an event
says (`Payload`) is what the handlers pass, what its row says (`RowTenant`,
`RowUser`) has the fallbacks of `write_audit_event`; the hash of a payload is the
payload. The list is read by a client that goes on while `has_more`: each page is
a request with two statements, `Count` and `Select`, each with a snapshot of its
own, and events of equal timestamps may come in any order, in another one for each
page. An export is one statement. Neither `audit_log` nor the list restricts the
tenant: migration 0002 names the tables with policies and `audit_log` is not among
them; so there is one log for all tenants.

## 3. Runs

Passing runs (the configuration is named in PROJECT.json):

| Run | Instance | Shows |
|---|---|---|
| `serial` | 3 passes, 2 chunks, crashes and cascades, no overlap | `ManifestsRestorable`, `RefCountExact`; the store implements `BackupCatalog` |
| `any` | 2 passes, every circumstance | `TypeOK`, `NoOvercount` |
| `live` | 3 concurrent writers of one new chunk, fairness, no crash | `RefCountExact`, `TornIsWritten`, `ManifestsSettle`, `UnreferencedReclaimed` |
| `jobs_any` | 2 jobs of one VM, 2 workers, every circumstance | `TypeOK`, `SuccessHasManifest`, `ParentsPrecede`, `OrphanedOnlyIfUndone`, `JobsInHand`, `CancelStands` |
| `jobs_calm` | 3 jobs, 2 VMs, 2 workers, failing disks, queries and commits, deleted tenants, either kind of session, fairness | `IncrementalHasParent`; jobs implement `JobLifecycle`; `MessagesSettle` |
| `vms_any` | 1 VM, 1 tenant, 2 requests, every circumstance | `TypeOK`, `RowsHaveTenant` |
| `chunker` | every disk of up to 8 one-bit bytes, 4-bit words, window of 2, 5 pairs of limits | `TypeOK`, `CoversDisk`, `SizesBounded`, `ContentDefined` |
| `bitmaps` | 1 disk of 2 blocks, one not at its place in the image file, 2 passes, no failure after a clear | `TypeOK`, `ForgottenOnlyAtRisk`, `SuccessSavesChanges` |
| `metering` | 2 VMs of 2 tenants, 6 ticks, months of 2 ticks from November on | `TypeOK`, `PartitionsAhead`, `NoOverbilling`, `NoLostInterval`, `ShutDownQuiet` |
| `audit` | 4 events of 2 users and of nobody, pages of 1 and 2 events, 3 ranges of time | `TypeOK`, `EventsVerify`, `PagingMisses`, `ExportMisses` |
| `vms_serial` | 3 VMs of one of 2 tenants, equal and different names, one request at a time, graceful stops, failures of libvirt | `StatusTells`, `SuspendedShowsStopped`; implements `Fleet` |

One run violates a statement of the documentation: `overlap`, of
"The gap ensures in-flight backup jobs can still reference a chunk"
(`chunk_store.py:381`). A sweep unlinks the file of a chunk that a pass has just
counted.

### Behaviours of the code that the models show

No run states them, since a property above already draws the line or because the
repository says too little about what should happen. They are listed as hazards.

* Jobs: with the sessions of `tenant_session` a request raises after its commit and
  publishes nothing, and a worker raises after its first commit on each delivery; the
  job stays queued or running. So does the job of a lost publish, and an MSP admin's
  job for a customer's VM, whose message is acknowledged and dropped: `JobsInHand`
  speaks of jobs the worker can see. A pass that has loaded its job overwrites a
  cancellation with running, success or failed; `CancelStands` says that nothing else
  does. Failures of a backup are committed and acknowledged, so the retries of the
  consumer are for failing commits, crashes and expired acks only. The full backup
  counted at creation can be cancelled, or run again, before it becomes the parent:
  `OrphanedOnlyIfUndone` says that an incremental manifest without parent has no other
  origin. A message delivered again after its job succeeded runs the job again and
  leaves it running or failed beside its manifest.
* VMs: a VM that was asked to shut down is shown as stopped, so a suspension
  passes over its running domain; a forced reboot or reset of a paused VM shows it
  as running; deleting a paused VM leaves its domain on; creating a VM under the
  name of a deleted one of the same tenant leaves a domain without a row.
* Bitmaps: guest writes between query or read and clear are cleared unread; a block
  that is not at its offset in the image file is cleared without having been read; a
  missing disk image is saved as zeros; the ranges of an incremental backup are stored
  without their positions.
* Metering: a tenant deleted during a pass costs every tenant one interval; the
  unit is a minute whatever the interval.
* Audit: an export of a past range can lack events whose transactions were open;
  an MSP admin's action on a customer's VM is filed under the admin's own tenant.

### Bounds

Two chunks and disks of at most two chunks give shared, repeated and distinct
chunks and the empty disk; the races of the chunk store are between two passes,
or a pass and a sweep, over one chunk, and a third pass lets one backup
deduplicate against another that is being released while a sweep runs. `MaxLen`
bounds the length of a disk and is the only counter bound of `ChunkStore`: every
backup is written and released once, so its behaviours are finite but for the
sweeps, which repeat. In `BackupJobs`, two jobs of one VM are what a parent and
a child, a cancelled full backup and an incremental job, or two messages that
compete for the one slot of the consumer need; `jobs_calm` adds a job of another
VM. `jobs_any` has the program's own `MaxDeliver = 3`; `jobs_calm` has 2, a first
delivery and one after a nak. Two requests on one VM and its tenant suffice for the interleavings of
`TenantVMs` that concern one row and its tenant (`vms_any`); `vms_serial` has
three VMs of one tenant, two of them with the same name, for the loops over the
VMs of a tenant, the unique index and the names of domains, and a second tenant
without VMs, but one request at a time. VMs of several tenants meet only in the
names of domains; the theorems cover them. `TenantVMs` has no counter to bound:
an id is used once, and a deleted row stays or goes.

`Chunker`: eight bytes are four windows and room for a chunk of every limit, a
chunk behind it and a rest; the loop looks at nothing but the byte, the window and
two positions. `DirtyBitmaps`: two blocks, so that a range can leave one out, one of
them in place and the other not, and two passes; nothing in the code relates two disks but the loop over them and the
names committed together, and the theorems are about any number of disks.
`Metering`: `Horizon` bounds the clock, and `MaxErrors` and `MaxFails` the failures.
The clock
begins in the second half of November 2026, for which the migrations have no
partition, and its six ticks reach February 2027, which is behind the window of the
first pass: one start and one later pass of the manager are needed, over the end
of a year. `Tolerated` is 1 with these constants, so `MaxFails = 2` has failures on
both sides of it.
`AuditTrail`: `Horizon` bounds the clock; four events give three pages, ties, events
that commit between pages and transactions open over the end of a range.

Symmetry (passes; jobs of one VM, workers; request slots; the VMs of equal tenant
and name; blocks; the VMs of `Metering` with their tenants; events of equal
contents) is used in runs of safety properties and of the refinements of
`ChunkStore` and `TenantVMs`, whose mappings treat them alike, and never for
liveness.

`CHECK_DEADLOCK FALSE` is set for `BackupJobs` and `Chunker` only: finitely many jobs
end, and so does the loop over a disk, and then nothing is left to do. The others
never stop: a sweep can always begin, a power action or a suspension can always be
asked for or refused, the guest can write, the API process can be started or
killed, and a client can read the log again.

### Fairness

`ChunkStore`: weak fairness of the steps of a pass and of a release (a coroutine
that has started goes on), of the beginning of a sweep (the docstring of `gc`
asks for it to be called regularly; without it nothing is ever collected) and of
its steps. `BackupJobs`: weak fairness of the publish after a commit, of the
worker's steps, of the broker's timer and of the delivery of a message that can
be handed out. Nothing else is fair: requests, cancellations, faults and crashes
may or may not happen. The liveness runs leave crashes out, since the code does not
promise that a worker is started again. `MessagesSettle` is about messages and not
jobs: a job without a message is looked for by nothing. `TenantVMs` states no fairness and no liveness: a
request ends or its process does, and nothing is retried. The same holds for
`DirtyBitmaps` and `AuditTrail`; that `Chunker` ends is plain from its loop. In
`Metering` timeliness is in the guard of `Tick`, so that its properties are about
intervals of the clock and not about what happens in the end.

## 4. Proofs

`ChunkStoreProofs` (for any set of backups, chunks, disks and any `MaxLen`):

* `TypeCorrect`: `[]TypeOK` in every circumstance.
* `RefCountsExact`: `[]RefCountExact` unless a sweep overlaps a pass. The
  inductive invariant counts references as a set of pairs (backup, position) and
  says, for each state of a pass, which rows and files it relies on: a pass that
  is about to bump sees a row, since only a sweep could have removed it.
* `NeverOvercounted`: `[]NoOvercount` in every circumstance. No invariant on rows and
  files survives a sweep among the passes, so this one (`OverInv`) has only the types,
  that a pass past its last chunk has gone through every position (`DoneOK`), and the
  bound itself: the step that counts a reference is the one from which it is held, and
  the step that gives it up lowers the count of a row that is still there.
* `TornFilesAreWritten`: `[]TornIsWritten`, for any number of passes that race for one
  `.tmp` file, unless a pass crashes or a sweep overlaps or fails (`Uncut`). `RaceInv`
  adds to the exact counts that a torn file is open, where it is, in a pass that is
  writing (`OpenOK`), and that rows have files, whole or not (`PresentOK`).
* `ManifestsStayRestorable`: `[]ManifestsRestorable` when passes are serial and
  sweeps complete and do not overlap them (`Orderly`). Needs the exact counts: a
  chunk of a stored manifest has a positive count, so no sweep selects it.
* `ChunkStoreIsCatalog`: `Spec => ImplementsCatalog` under `Orderly`, the step
  simulation on top of the same invariant.

`BackupJobsProofs` (for any jobs, VMs, workers, `MaxDeliver` and `Env`):

* `TypeCorrect`: `[]TypeOK`. The bound on `delivered` needs `BrokerOK`: a message
  that can be handed out has deliveries left, and no message exists before its
  request has published it.
* `SuccessesHaveManifests`: `[]SuccessHasManifest`, inductive over `TypeOK`:
  manifests are never removed and status success is written with one.
* `CancellationsStand`: `CancelStands`. The message of a job that no pass has
  loaded is dropped at `Load`, and a request that has found it cancellable can only
  cancel it again. `CancelInv` adds that a job whose request has not committed has
  no row, so the commit of a request never follows a cancellation.
* `ChainsEnd`: `[]ParentsPrecede`. Not inductive as it stands: a worker that is
  about to save must hold a parent that is in the catalog already and belongs to
  its VM (`Linked`).

* `IncrementalsHaveParents`: `[]IncrementalHasParent` while nothing is cancelled, no
  worker crashes and no ack expires (`Undisturbed`). `LifeInv` has each message that
  is handed out with exactly one worker (`Held`), the statuses a job can have where
  its request, message and worker are (`InStep`), and that an incremental job has its
  full backup from creation on and its worker a parent from `FindParent` on (`Based`).
* `JobsImplementLifecycle`: `Spec => ImplementsLifecycle` under `Undisturbed`, the step
  simulation on top of `LifeInv`.
* `JobsStayInHand`: `[]JobsInHand`, in every circumstance. What a worker is about to
  acknowledge is accounted for like what is acknowledged (`Accounted`): the job has
  ended, or it was handed out again and another pass shows it as running. `HandedOut`
  bounds from below how often a message was delivered that two workers have, or one
  after its acknowledgement: they have it because an ack expired.
* `OrphansOnlyIfUndone`: `[]OrphanedOnlyIfUndone`, in every circumstance. `OrphanInv`
  keeps, from the creation of an incremental job on, a completed full backup of its VM
  (`FullDone`), and of a worker that found no parent that the VM is gone or that full
  backup undone (`Undone`), which stays so: no delivery and no cancellation makes a
  success of a job that has its manifest.

`TenantVMsProofs` (for any VMs, tenants, names, number of requests and `Env`):

* `TypeCorrect`: `[]TypeOK`, in every circumstance. The invariant adds what a
  session may hold (`SessionOK`): it changes a row it has loaded or the one it
  adds, and only `delete_tenant` removes.
* `VMsHaveTenants`: `[]RowsHaveTenant`, in every circumstance: every commit that
  writes the row of a VM either had loaded it, so that it existed and was not
  rejected, or inserts it under the foreign key; the removal of a tenant cascades.
* `StatusesTell`: `[]StatusTells` for `Quiet` environments (no overlap, no force
  but on stop, no guest that stops by itself, no lost commit). The invariant says
  of each request what it holds for the VMs (`Truth`), on top of `SerialInv`: at
  most one request is active and what it has loaded is still so.
* `SuspendedVMsStopped`: `[]SuspendedShowsStopped` when requests do not overlap
  and MSP admins stay away: the VMs a suspension has not loaded do not run, and a
  request on a VM was admitted under an active tenant (`Suspending`).

* `RequestsImplementFleet`: `Spec => ImplementsFleet` for `Quiet` environments without
  MSP admins (`Orderly`). `FleetInv` puts `SerialInv`, `Truth` and the invariant of
  `SuspendedVMsStopped` together and adds what a request was granted and will commit
  (`Granted`), and that the row of a VM goes only with its tenant's (`GoneTogether`).
  `Act`, `StopAll`, `Provision`, `Destroy` and the like are the steps of `Fleet`, since
  the mapping shows what will be committed from then on; the other steps stutter.
* `PromisesToUsers`: what `Fleet` is worth, carried over the refinement under the same
  conditions: the API never shows a VM of a suspended tenant as running or paused,
  not in the middle of a request either, and what it has shown as deleted or
  removed never comes back.

`ChunkerProofs` (for any bytes, fingerprint, window, disks and limits):

* `TypeCorrect`, `ChunksCoverDisk`, `ChunkSizes`: the invariant says where the last
  chunk ends, that the chunks so far are consecutive pieces of the disk, and that
  the current one has not reached the longer of the two limits.
* `ChunksContentDefined`: `[]ContentDefined`. The reference is a recursive function of
  the bytes since the boundary, and the loop carries a ring and a fingerprint. The
  invariant (`CutInv`) says that the ring holds the last bytes of the chunk and zeros
  before it (`RingOK`) and that the fingerprint is the value of every function that
  satisfies the recursion (`RolledTo`); each turn of the loop extends such a function
  by one byte, so the induction is the one over steps and none over data is needed.

`DirtyBitmapsProofs` (for any blocks, disks, image files and passes):

* `ChangesRemembered`: `[]ForgottenOnlyAtRisk` under `ClearsLast`, from the inductive
  `BitmapInv`. Once there is a full backup, an unsaved block of a disk that has a bitmap
  or may get one has its bit set, or a pass that is done with its disk holds it as it is
  now, or it is forgettable (`Safe`). Each pass adds what its next steps may break: a bit
  it is about to clear belongs to a block it has as it is now (`SafeFrom`), and older
  contents it will commit are those of blocks whose bit is set, or which another pass
  has read since (`BehindSafe`, `ReadOrder`).
* `SavesChanges`: `SuccessSavesChanges` under `ClearsLast`, from the same invariant at the
  commit. Disks whose bitmap was refused are included: a pass has all their blocks, since
  without ranges it reads the whole disk (`PassOK`).
* `TypeCorrect`: `[]TypeOK` in every circumstance: bits are those of bitmaps that exist,
  and a disk has a name only if its command did not raise.

`MeteringProofs` (for any VMs, tenants, intervals, calendars and bounds):

* `BilledOncePerInterval`: `[]NoOverbilling`. Not inductive as it stands:
  a pass may commit one more snapshot, so the invariant (`Paced`) counts them
  against the time at which the open pass or wait began.
* `IntervalsBilled`: `[]NoLostInterval`. `LoopInv` says how far the clock can run ahead
  of an open pass or wait, `KeptInv` bounds, by the snapshots billed and excused, the
  time at which the last pass began; `QuotientBound` turns that into the number of
  intervals.
* `PartitionsStayAhead`: `[]PartitionsAhead`. `AheadInv` remembers a time at which the
  months ahead were ensured and bounds the clock by it and by the failures since;
  `MonthOffsetAdd` and its companions are the arithmetic of the calendar over the end
  of a year.
* `QuietShutDown`: `ShutDownQuiet`. A manager that has ended stays so, whatever
  metering does until it is stopped.
* `TypeCorrect`: `[]TypeOK`.

`AuditTrailProofs` (for any events, users, tenants, filters, ranges and pages):

* `AllVerify`: `[]EventsVerify`, by cases on what an event records.
* `ExportsMissOnlyOpen`: `[]ExportMisses`. What is written after an export is stamped
  later than a range that was over by then.
* `PagingMissesLittle`: `[]PagingMisses`. The inductive invariant (`PagingInv`) says of
  a listing in the middle: an event that the client could know of and has not read
  has its time in common with one that was read, or is older than all of them and
  has at least as many newer events before it as the pages so far have places.
  Lemma `PageRead` carries this over one page; when `has_more` is false the places
  are at least as many as the events counted, which leaves the two exceptions.
* `TypeCorrect`: `[]TypeOK`.

The constants are constrained by named assumptions in the modules that declare
them, which TLC evaluates in each run.

### The hypotheses on Env

`TypeCorrect` of every module, `NeverOvercounted`, `SuccessesHaveManifests`,
`ChainsEnd`, `CancellationsStand`, `JobsStayInHand`, `OrphansOnlyIfUndone`,
`VMsHaveTenants` and all theorems of the modules
without `Env` hold in every circumstance. The others name circumstances they exclude.
The run `overlap` is one example of what happens without; TLC finds, on the
instances of the runs, a violation for each circumstance when it alone is admitted:

| Hypothesis | Excludes | Alone, each violates |
|---|---|---|
| of `RefCountsExact` | `gc_overlap` | `RefCountExact` |
| `Orderly` of `ChunkStore` | `concurrent`, `gc_overlap`, `gc_fault` | `ManifestsRestorable`, `ImplementsCatalog` |
| `Uncut` | `crash`, `gc_overlap`, `gc_fault` | `TornIsWritten` |
| `Undisturbed` | `cancel`, `crash`, `slow` | `IncrementalHasParent`, `ImplementsLifecycle` |
| `ClearsLast` | `fail_after_clear` | `ForgottenOnlyAtRisk`, `SuccessSavesChanges` |
| `Quiet` | `overlap`, `force`, `guest`, `lost_commit` | `StatusTells`, `ImplementsFleet` |
| of `SuspendedVMsStopped` | `overlap`, `msp` | `SuspendedShowsStopped` |
| `Orderly` of `TenantVMs` | those of `Quiet`, `msp` | `ImplementsFleet` |

The row of `ClearsLast` is a disagreement between code and docstrings. On the instance
of the run `bitmaps` with `Env <- Circumstances` TLC finds: a full backup, a write, an
incremental pass that reads and clears it and whose commit fails; the change has no bit
and no manifest (`ForgottenOnlyAtRisk`), and the next incremental backup succeeds
without it (`SuccessSavesChanges`). Were step 4 of `run_backup` where its docstring puts
it, after step 3, no pass could fail with a cleared bitmap but one that has committed.

### Model-checked only

Every invariant, action property and refinement that a passing run checks is a
theorem. What stays with TLC is liveness, since fairness and ENABLED are out of the
prover's reach: `ManifestsSettle`, `UnreferencedReclaimed` and
`MessagesSettle`. `TornIsWritten` is the safety half of the first: a file that is not
whole is always in the hands of a pass, whose steps are fair. Nothing is
proved about `Rabin`, whose arithmetic needs bit operations that the provers do not
know; the theorems about the chunker hold for any fingerprint.

## 5. Plan

Done: `ChunkStore` with `BackupCatalog`, `BackupJobs` with `JobLifecycle`, `TenantVMs`
with `Fleet`, `Chunker` with `Rabin`, `DirtyBitmaps`, `Metering` and `AuditTrail`, with
the proofs of all their safety properties and refinements. Open, in this order:

1. What `BackupCatalog` and `JobLifecycle` promise to users, carried over their
   refinements as `PromisesToUsers` does for `Fleet`: a stored backup is what was
   handed in for as long as it is stored, an ended job keeps its end.
2. What the excluded circumstances leave standing: weaker invariants that hold with
   `cancel` or `slow` admitted, and with requests that overlap.
3. `BackupSystem`: `BackupJobs` with the passes of `ChunkStore` and `DirtyBitmaps`
   under it, for what a crashed or cancelled job leaves in the store.

### Not modelled

Authentication, schemas, configuration, metrics and logging
middleware, the frontend (no state of the system, or library calls), the policies
of row-level security (evaluated by PostgreSQL for each statement) and `stats`
and the list endpoints (read-only).
