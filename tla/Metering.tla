------------------------------ MODULE Metering ------------------------------
(***************************************************************************)
(* The two periodic services of the API process and its lifespan:          *)
(* app/services/metering.py bills every running VM once per interval,      *)
(* app/services/partition_manager.py creates the monthly partitions those  *)
(* rows go to, and lifespan of app/main.py starts and stops both.          *)
(*                                                                          *)
(* run_forever is the same code in both services and is modelled once.     *)
(* Time passes in ticks.  A timer that is due fires before the next tick,   *)
(* and a pass takes at most PassTicks: the event loop is not blocked and    *)
(* the database answers or raises.  Months have MonthTicks ticks.           *)
(***************************************************************************)
EXTENDS Integers, FiniteSets

CONSTANTS
    VMs, Tenants,
    TenantOf,       \* TenantOf[v]: the tenant of VM v
    MeterInterval,  \* USAGE_METERING_INTERVAL_SECONDS
    ManagerInterval,\* PARTITION_MANAGER_INTERVAL_SECONDS
    PassTicks, MonthTicks,
    FirstMonth,     \* <<year, month>> of tick 0
    Start, Horizon, \* bounds: the first and the last tick
    MaxErrors,      \* bound: exceptions while metering, and tenants deleted
    MaxFails        \* bound: exceptions in a row in the manager

\* The months of the calendar.
Months == Nat \X (1..12)

ASSUME TenantOfAssumption == TenantOf \in [VMs -> Tenants]
ASSUME TicksAssumption ==
    /\ {MeterInterval, ManagerInterval, PassTicks, MonthTicks} \subseteq Nat \ {0}
    /\ {Start, Horizon, MaxErrors, MaxFails} \subseteq Nat /\ Start <= Horizon
ASSUME FirstMonthAssumption == FirstMonth \in Months

VARIABLES
    now,        \* the clock
    \* the lifespan and the two services
    life,       \* where lifespan is
    pc,         \* pc[s]: where the task of service s is
    since,      \* since[s]: when its pass, or its wait, began
    stop,       \* stop[s]: its _stop_event is set
    rows,       \* the VMs the metering pass has selected
    \* the database
    partitions, \* the months with a partition of usage_events
    tenants,    \* the tenants there are
    running,    \* the VMs with status running
    billed,     \* billed[v]: the snapshots of v since the start
    \* history
    upSince,    \* when metering was started
    steady,     \* the VMs that have been running since then
    excused,    \* passes since then with a reason to fail, and tenants deleted
    fails,      \* passes of the manager that failed in a row, since the start
    lapsed      \* none has succeeded since the start

taskVars == <<pc, since, stop, rows>>
dbVars == <<partitions, tenants, running>>
billVars == <<billed, upSince, steady, excused>>
failVars == <<fails, lapsed>>
vars == <<now, life, taskVars, dbVars, billVars, failVars>>

-----------------------------------------------------------------------------
Services == {"manager", "meter"}

Interval(s) == IF s = "meter" THEN MeterInterval ELSE ManagerInterval

\* _month_offset
MonthOffset(m, offset) ==
    LET total == m[1] * 12 + (m[2] - 1) + offset
    IN  <<total \div 12, (total % 12) + 1>>

\* The month of tick t.
MonthAt(t) == MonthOffset(FirstMonth, t \div MonthTicks)

\* The manager looks at the clock when its pass begins ...
Stamp == MonthAt(since["manager"])

\* ... and metering after its select, at any time of its pass.
RecordedIn == {MonthAt(t) : t \in since["meter"]..now}

\* Mutant: no look ahead.
EnsuredOne == {MonthOffset(Stamp, 0)}

\* ensure_partitions_exist: the month the pass began in and the next two.
Ensured == {MonthOffset(Stamp, idx) : idx \in 0..2}

\* The partitions that the migrations create.
Migrated == {<<2026, m>> : m \in 3..7}

\* Mutant: the loop does not wait.
DueAtOnce(s) == pc[s] \in {"head", "wait"}

\* The loop of s is at its head, or its wait has timed out.
Due(s) ==
    \/ pc[s] = "head"
    \/ pc[s] = "wait" /\ now - since[s] >= Interval(s)

-----------------------------------------------------------------------------
Init ==
    /\ now = Start
    /\ life = "down"
    /\ pc = [s \in Services |-> "none"]
    /\ since = [s \in Services |-> 0]
    /\ stop = [s \in Services |-> FALSE]
    /\ rows = {}
    /\ partitions = Migrated
    /\ tenants = Tenants
    /\ running = {}
    /\ billed = [v \in VMs |-> 0]
    /\ upSince = 0 /\ steady = {} /\ excused = 0
    /\ fails = 0 /\ lapsed = TRUE

-----------------------------------------------------------------------------
(* lifespan *)

\* Both services are running from now on.
Up ==
    /\ life' = "running"
    /\ pc' = [s \in Services |-> "head"]
    /\ upSince' = now
    /\ billed' = [v \in VMs |-> 0]
    /\ steady' = running
    /\ excused' = 0

\* A new process: start of the partition manager, which awaits a first pass.
Boot ==
    /\ life = "down"
    /\ life' = "starting"
    /\ pc' = [s \in Services |-> IF s = "manager" THEN "first" ELSE "none"]
    /\ since' = [since EXCEPT !["manager"] = now]
    /\ UNCHANGED <<now, stop, rows, dbVars, billVars, failVars>>

\* The application is shut down: stop of the manager, which awaits its task ...
StopManager ==
    /\ life = "running"
    /\ life' = "stopping manager"
    /\ stop' = [stop EXCEPT !["manager"] = TRUE]
    /\ UNCHANGED <<now, pc, since, rows, dbVars, billVars, failVars>>

\* Mutant: the task is not awaited.
EndedOrNot(s) == TRUE

\* The task of s has ended: await self._task returns.
Ended(s) == pc[s] = "done"

\* ... then stop of metering, which awaits its task ...
StopMeter ==
    /\ life = "stopping manager" /\ Ended("manager")
    /\ life' = "stopping meter"
    /\ stop' = [stop EXCEPT !["meter"] = TRUE]
    /\ UNCHANGED <<now, pc, since, rows, dbVars, billVars, failVars>>

\* The process is over, and its services with it.
Over ==
    /\ life' = "down"
    /\ pc' = [s \in Services |-> "none"]
    /\ since' = [s \in Services |-> 0]
    /\ stop' = [s \in Services |-> FALSE]
    /\ rows' = {}
    /\ billed' = [v \in VMs |-> 0]
    /\ upSince' = 0 /\ steady' = {} /\ excused' = 0
    /\ fails' = 0 /\ lapsed' = TRUE
    /\ UNCHANGED <<now, dbVars>>

\* ... and the end.
ShutDown == life = "stopping meter" /\ Ended("meter") /\ Over

Crash == life # "down" /\ Over

-----------------------------------------------------------------------------
(* run_forever *)

\* The loop ends once its event is set, be it at its head or in its wait.
Exit(s) ==
    /\ stop[s] /\ pc[s] \in {"head", "wait"}
    /\ pc' = [pc EXCEPT ![s] = "done"]
    /\ UNCHANGED <<now, life, since, stop, rows, dbVars, billVars, failVars>>

\* A turn of the loop begins a pass.
Turn(s) ==
    /\ Due(s) /\ ~stop[s]
    /\ pc' = [pc EXCEPT ![s] = "pass"]
    /\ since' = [since EXCEPT ![s] = now]
    /\ UNCHANGED <<now, life, stop, dbVars, billVars, failVars>>

\* Mutant: the deadline is taken for the start of the wait.
WaitTwice(s) ==
    /\ pc' = [pc EXCEPT ![s] = "wait"]
    /\ since' = [since EXCEPT ![s] = now + Interval(s)]

\* The pass has returned or raised, and the wait begins.
Wait(s) ==
    /\ pc' = [pc EXCEPT ![s] = "wait"]
    /\ since' = [since EXCEPT ![s] = now]

-----------------------------------------------------------------------------
(* The partition manager *)

ManagerTurn == Turn("manager") /\ UNCHANGED rows

\* The first pass over, lifespan starts the loops; another one waits.
ManagerDone ==
    \/ pc["manager"] = "first" /\ Up /\ UNCHANGED since
    \/ pc["manager"] = "pass" /\ Wait("manager") /\ UNCHANGED <<life, billVars>>

\* The three months are one transaction.
ManagerCommit ==
    /\ ManagerDone
    /\ partitions' = partitions \cup Ensured
    /\ fails' = 0 /\ lapsed' = FALSE
    /\ UNCHANGED <<now, stop, rows, tenants, running>>

\* An exception is logged, by start as well as by run_forever.
ManagerError ==
    /\ fails < MaxFails
    /\ ManagerDone
    /\ fails' = fails + 1
    /\ UNCHANGED <<now, stop, rows, dbVars, lapsed>>

-----------------------------------------------------------------------------
(* Metering *)

\* The running VMs are selected.
MeterTurn == Turn("meter") /\ rows' = running

\* The rows are of tenants that are still there.
Owned == \A v \in rows : TenantOf[v] \in tenants

\* No row is inserted if there is no partition for their month, or one of them
\* has no tenant.
Storable == Owned /\ RecordedIn \cap partitions # {}

\* Two rows for each VM, for its vcpus and its ram.
MeterCommit ==
    /\ pc["meter"] = "pass" /\ (rows = {} \/ Storable)
    /\ Wait("meter")
    /\ billed' = [v \in VMs |-> IF v \in rows THEN billed[v] + 1 ELSE billed[v]]
    /\ rows' = {}
    /\ UNCHANGED <<now, life, stop, dbVars, upSince, steady, excused,
                   failVars>>

\* The batch fails as a whole.  If a tenant is missing it was deleted since the
\* select, which is excused already.
MeterFails ==
    \/ ~Owned /\ UNCHANGED excused
    \/ rows # {} /\ ~(RecordedIn \subseteq partitions) /\ excused' = excused + 1
    \/ excused < MaxErrors /\ excused' = excused + 1

\* Mutant: the exception ends the loop.
MeterErrorEnds ==
    /\ pc["meter"] = "pass" /\ MeterFails
    /\ pc' = [pc EXCEPT !["meter"] = "done"]
    /\ rows' = {}
    /\ UNCHANGED <<now, life, since, stop, dbVars, billed, upSince, steady, failVars>>

\* The exception is logged, and the batch is not tried again.
MeterError ==
    /\ pc["meter"] = "pass" /\ MeterFails
    /\ Wait("meter")
    /\ rows' = {}
    /\ UNCHANGED <<now, life, stop, dbVars, billed, upSince, steady, failVars>>

-----------------------------------------------------------------------------
(* VMs, tenants and the clock *)

VMStarts(v) ==
    /\ v \notin running /\ TenantOf[v] \in tenants
    /\ running' = running \cup {v}
    /\ UNCHANGED <<now, life, taskVars, partitions, tenants, billVars, failVars>>

VMStops(v) ==
    /\ v \in running
    /\ running' = running \ {v}
    /\ steady' = steady \ {v}
    /\ UNCHANGED <<now, life, taskVars, partitions, tenants, billed, upSince,
                   excused, failVars>>

\* Its VMs and its rows go by cascade.
DeleteTenant(t) ==
    LET gone == {v \in VMs : TenantOf[v] = t}
    IN  /\ t \in tenants /\ excused < MaxErrors
        /\ tenants' = tenants \ {t}
        /\ running' = running \ gone
        /\ steady' = steady \ gone
        /\ billed' = [v \in VMs |-> IF v \in gone THEN 0 ELSE billed[v]]
        /\ excused' = excused + 1
        /\ UNCHANGED <<now, life, taskVars, partitions, upSince, failVars>>

Tick ==
    /\ now < Horizon
    /\ \A s \in Services :
        /\ ~Due(s) /\ ~(stop[s] /\ pc[s] = "wait")
        /\ pc[s] \in {"first", "pass"} => now - since[s] < PassTicks
    /\ now' = now + 1
    /\ UNCHANGED <<life, taskVars, dbVars, billVars, failVars>>

-----------------------------------------------------------------------------
Manager == Exit("manager") \/ ManagerTurn \/ ManagerCommit \/ ManagerError

Meter == Exit("meter") \/ MeterTurn \/ MeterCommit \/ MeterError

Next ==
    \/ Boot \/ StopManager \/ StopMeter \/ ShutDown \/ Crash
    \/ Manager \/ Meter
    \/ \E v \in VMs : VMStarts(v) \/ VMStops(v)
    \/ \E t \in Tenants : DeleteTenant(t)
    \/ Tick

Spec == Init /\ [][Next]_vars

-----------------------------------------------------------------------------
(* Properties *)

TimeOK ==
    /\ now \in Nat /\ upSince \in Nat /\ upSince <= now
    /\ since \in [Services -> Nat]
    /\ \A s \in Services : since[s] <= now

TasksOK ==
    /\ life \in {"down", "starting", "running", "stopping manager", "stopping meter"}
    /\ pc \in [Services -> {"none", "first", "head", "pass", "wait", "done"}]
    /\ stop \in [Services -> BOOLEAN]

RowsOK ==
    /\ partitions \subseteq Months
    /\ tenants \subseteq Tenants
    /\ running \subseteq {v \in VMs : TenantOf[v] \in tenants}
    /\ steady \subseteq running /\ rows \subseteq VMs

CountsOK ==
    /\ billed \in [VMs -> Nat]
    /\ excused \in Nat /\ fails \in Nat /\ lapsed \in BOOLEAN

TypeOK == TimeOK /\ TasksOK /\ RowsOK /\ CountsOK

\* The passes of the manager that fit between the end of the last month it has
\* ensured and the start of the month in which it did.
Tolerated == (2 * MonthTicks + 1) \div (ManagerInterval + PassTicks) - 1

\* While metering runs the current month has a partition, though a failure of
\* the manager is only logged: after a start the first pass must have failed, and
\* once a pass has succeeded every pass of two months must have.
PartitionsAhead ==
    life = "running" /\ MonthAt(now) \notin partitions =>
        IF lapsed THEN fails > 0 ELSE fails >= Tolerated

\* A VM is billed at most once per interval, the snapshot at the start
\* included: a pass that takes long or fails makes up for nothing.
NoOverbilling ==
    \A v \in VMs : MeterInterval * (billed[v] - 1) <= now - upSince

\* While metering runs, a VM that has been running since its start is billed for
\* every interval, stretched by the time a pass takes.  One is lost only to an
\* exception of the database, to a month without partition, or to the deletion
\* of a tenant, be it another one, and then a single one.
NoLostInterval ==
    life = "running" =>
        \A v \in steady :
            billed[v] + excused >= (now - upSince) \div (MeterInterval + PassTicks)

\* When lifespan ends no pass is open and no loop will begin one, although it
\* awaits the two services one after the other and metering goes on meanwhile.
ShutDownQuiet ==
    [][ShutDown => \A s \in Services : pc[s] = "done"]_vars

=============================================================================
