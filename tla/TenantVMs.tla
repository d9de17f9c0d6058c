------------------------------ MODULE TenantVMs ------------------------------
(***************************************************************************)
(* Virtual machines and tenants: the rows that the handlers of              *)
(* app/api/v1/endpoints/vms.py and tenants.py read and write through one    *)
(* session each, and the libvirt domains that VMService                     *)
(* (app/services/vm_service.py) works on in between.                        *)
(*                                                                          *)
(* Granularity.  A request is admitted (app/core/deps.py), loads rows, acts *)
(* on libvirt, and commits.  Other requests, and the guests, run between    *)
(* these steps; the calls to libvirt follow each other without an await.    *)
(* A commit writes a column only if it differs from the value loaded.       *)
(*                                                                          *)
(* Simplifications.  What update_vm, update_tenant and invite_tenant_user   *)
(* write is not kept, for nothing here reads it.  A VM is "provisioning"    *)
(* only until VMService.create has called libvirt, before its INSERT, so no *)
(* other session sees it.  A call to libvirt that raises changes nothing.   *)
(*                                                                          *)
(* Env names the circumstances a run admits:                                *)
(*   "overlap"       requests overlap in time;                              *)
(*   "force"         force on an action that is not stop;                   *)
(*   "graceful"      stop without force: the guest is asked to shut down;   *)
(*   "msp"           MSP admins act on VMs, of suspended tenants too;       *)
(*   "guest"         a guest powers itself off;                             *)
(*   "libvirt_error" a call to libvirt raises without a cause modelled here;*)
(*   "lost_commit"   the process stops, or the database fails, before the   *)
(*                   commit.                                                *)
(***************************************************************************)
CONSTANTS
    VMs,       \* the ids of virtual machines
    Tenants,   \* the ids of tenants
    TenantOf,  \* TenantOf[v]: vms.tenant_id
    NameOf,    \* NameOf[v]: vms.name, the name of the domain too
    Requests,  \* slots for the requests that are being handled
    Env        \* the circumstances admitted, see above

Circumstances ==
    {"overlap", "force", "graceful", "msp", "guest", "libvirt_error",
     "lost_commit"}

ASSUME RowsAssumption == VMs \cap Tenants = {}
ASSUME TenantOfAssumption == TenantOf \in [VMs -> Tenants]
ASSUME NameOfAssumption == DOMAIN NameOf = VMs
ASSUME EnvAssumption == Env \subseteq Circumstances

VARIABLES
    row,     \* row[x]: the status of VM or tenant x in the database
    domain,  \* domain[v]: libvirt's domain for v
    pc,      \* pc[r]: where request r is
    req,     \* req[r]: what it asks for
    seen,    \* seen[r]: the statuses its session has loaded
    want     \* want[r]: the statuses its session holds now

requestVars == <<pc, req, seen, want>>
vars == <<row, domain, pc, req, seen, want>>

-----------------------------------------------------------------------------
(* Rows and requests *)

Rows == VMs \cup Tenants

NoRow == {"absent", "gone"}   \* not inserted yet; removed

VMStatus == {"running", "stopped", "paused", "error", "deleted"}

\* "cancelled" is declared and never assigned.
TenantStatus == {"active", "suspended"}

Statuses == NoRow \cup VMStatus \cup TenantStatus

PowerActions == {"start", "stop", "reboot", "pause", "resume", "reset"}

VMOps == PowerActions \cup {"create", "delete"}

TenantOps == {"onboard", "suspend", "reinstate", "remove"}

\* ACTION_MAP
Required(action) ==
    CASE action = "start"  -> "stopped"
      [] action = "resume" -> "paused"
      [] OTHER             -> "running"

Resulting(action) ==
    CASE action = "stop"  -> "stopped"
      [] action = "pause" -> "paused"
      [] OTHER            -> "running"

VMsOf(t) == {v \in VMs : TenantOf[v] = t}

Unread == [x \in Rows |-> "unread"]

NoRequest == [op |-> "none", on |-> "none", force |-> FALSE]

Goto(r, s) == pc' = [pc EXCEPT ![r] = s]

\* The session of r loads the rows of S.
Load(r, S) ==
    /\ seen' = [seen EXCEPT ![r] =
                  [x \in Rows |-> IF x \in S THEN row[x] ELSE seen[r][x]]]
    /\ want' = [want EXCEPT ![r] =
                  [x \in Rows |-> IF x \in S THEN row[x] ELSE want[r][x]]]

\* The session of r holds status s for x and has not written it yet.
Hold(r, x, s) == want' = [want EXCEPT ![r][x] = s]

\* The session of r adds a new row x with status s.
Add(r, x, s) ==
    /\ seen' = [seen EXCEPT ![r][x] = "absent"]
    /\ Hold(r, x, s)

\* The response is sent and the session closed.
Done(r) ==
    /\ Goto(r, "idle")
    /\ req' = [req EXCEPT ![r] = NoRequest]
    /\ seen' = [seen EXCEPT ![r] = Unread]
    /\ want' = [want EXCEPT ![r] = Unread]

-----------------------------------------------------------------------------
(* libvirt *)

Powers == {"off", "running", "paused"}

\* A domain that is not defined but on is transient; closing: it was asked to
\* shut down and has not done so yet.
Domains == [defined : BOOLEAN, power : Powers, closing : BOOLEAN]

NoDomain == [defined |-> FALSE, power |-> "off", closing |-> FALSE]

Exists(v) == domain[v].defined \/ domain[v].power # "off"

\* Names of domains are unique on the host, across tenants.
NameFree(v) == \A u \in VMs \ {v} : Exists(u) => NameOf[u] # NameOf[v]

\* lookupByUUIDString finds no domain, or it is in the wrong state for action.
Refused(v, action) ==
    \/ ~Exists(v)
    \/ (action = "start") # (domain[v].power = "off")

\* Versions of libvirt differ on resuming a domain that runs.
MayFail(v, action) ==
    \/ Refused(v, action)
    \/ (action = "resume" /\ domain[v].power = "running")
    \/ "libvirt_error" \in Env

\* The domain d after create, destroy or shutdown, reboot, suspend, resume or
\* reset.
After(d, action, force) ==
    CASE action = "start" -> [d EXCEPT !.power = "running", !.closing = FALSE]
      [] action = "stop" /\ force -> [d EXCEPT !.power = "off", !.closing = FALSE]
      [] action = "stop" /\ ~force -> [d EXCEPT !.closing = TRUE]
      [] action = "pause" -> [d EXCEPT !.power = "paused"]
      [] action = "resume" -> [d EXCEPT !.power = "running"]
      [] OTHER -> d

\* The guest obeys a request to shut down, or powers itself off.
GuestDown(v) ==
    /\ domain[v].power = "running"
    /\ domain[v].closing \/ "guest" \in Env
    /\ domain' = [domain EXCEPT ![v].power = "off", ![v].closing = FALSE]
    /\ UNCHANGED <<row, requestVars>>

-----------------------------------------------------------------------------
Init ==
    /\ row = [x \in Rows |-> "absent"]
    /\ domain = [v \in VMs |-> NoDomain]
    /\ pc = [r \in Requests |-> "idle"]
    /\ req = [r \in Requests |-> NoRequest]
    /\ seen = [r \in Requests |-> Unread]
    /\ want = [r \in Requests |-> Unread]

(* Admission: _get_current_user *)

\* A new id: uuid4 gives one that neither a row nor a domain nor a request has.
Fresh(x) ==
    /\ row[x] = "absent"
    /\ x \in VMs => ~Exists(x)
    /\ \A q \in Requests : req[q].on # x

\* The parameters of a request that Env admits.
Offered(op, force) ==
    IF force
    THEN op = "stop" \/ (op \in PowerActions /\ "force" \in Env)
    ELSE op = "stop" => "graceful" \in Env

\* The users of a tenant are refused while it is suspended, and removed with
\* it; MSP admins are never refused.
Admitting ==
    IF "msp" \in Env THEN TenantStatus ELSE TenantStatus \ {"suspended"}

Admit(r, op, x, force) ==
    /\ pc[r] = "idle"
    /\ "overlap" \in Env \/ \A q \in Requests : pc[q] = "idle"
    /\ Offered(op, force)
    /\ op \in VMOps => row[TenantOf[x]] \in Admitting
    /\ op \in {"create", "onboard"} => Fresh(x)
    /\ Goto(r, "admitted")
    /\ req' = [req EXCEPT ![r] = [op |-> op, on |-> x, force |-> force]]
    /\ UNCHANGED <<row, domain, seen, want>>

-----------------------------------------------------------------------------
(* Handlers *)

\* What vm_action and delete_vm, and the handlers of a tenant, ask of the row
\* they load first.
Grants(r) ==
    LET x == req[r].on
        op == req[r].op
    IN  /\ row[x] \notin NoRow
        /\ op \in PowerActions =>
             /\ row[x] # "deleted"
             /\ row[x] = Required(op) \/ req[r].force
        /\ op = "delete" => row[x] # "running"
        /\ op = "remove" => row[x] = "suspended"

\* Mutant: only VMs that run.
RemainingRunning(t) == {v \in VMsOf(t) : row[v] = "running"}

\* delete_tenant: VMs that are not deleted.
Remaining(t) == {v \in VMsOf(t) : row[v] \notin NoRow \cup {"deleted"}}

\* 404 or 409.
Refuse(r) ==
    /\ \/ pc[r] = "admitted" /\ req[r].op \notin {"create", "onboard"} /\ ~Grants(r)
       \/ pc[r] = "loaded" /\ req[r].op = "remove" /\ Remaining(req[r].on) # {}
    /\ Done(r)
    /\ UNCHANGED <<row, domain>>

LoadVM(r) ==
    /\ pc[r] = "admitted"
    /\ req[r].op \in PowerActions \cup {"delete"}
    /\ Grants(r)
    /\ Load(r, {req[r].on})
    /\ Goto(r, "read")
    /\ UNCHANGED <<row, domain, req>>

\* Mutant: an action that raises leaves the result it was meant to have.
ActOptimistic(r) ==
    /\ pc[r] = "read"
    /\ req[r].op \in PowerActions
    /\ LET v == req[r].on
           op == req[r].op
       IN  /\ Hold(r, v, Resulting(op))
           /\ \/ /\ ~Refused(v, op)
                 /\ domain' = [domain EXCEPT ![v] = After(@, op, req[r].force)]
              \/ MayFail(v, op) /\ UNCHANGED domain
    /\ Goto(r, "acted")
    /\ UNCHANGED <<row, req, seen>>

\* perform_action of vm_action.
Act(r) ==
    /\ pc[r] = "read"
    /\ req[r].op \in PowerActions
    /\ LET v == req[r].on
           op == req[r].op
       IN  \/ /\ ~Refused(v, op)
              /\ domain' = [domain EXCEPT ![v] = After(@, op, req[r].force)]
              /\ Hold(r, v, Resulting(op))
           \/ /\ MayFail(v, op)
              /\ Hold(r, v, "error")
              /\ UNCHANGED domain
    /\ Goto(r, "acted")
    /\ UNCHANGED <<row, req, seen>>

\* destroy: a domain that is on stays on, and becomes transient.  A failure of
\* undefineFlags is logged only.
Destroy(r) ==
    /\ pc[r] = "read"
    /\ req[r].op = "delete"
    /\ LET v == req[r].on
       IN  /\ Hold(r, v, "deleted")
           /\ \/ domain' = [domain EXCEPT ![v].defined = FALSE]
              \/ "libvirt_error" \in Env /\ UNCHANGED domain
    /\ Goto(r, "acted")
    /\ UNCHANGED <<row, req, seen>>

\* VMService.create: defineXML, then create of the domain.
Provision(r) ==
    /\ pc[r] = "admitted"
    /\ req[r].op = "create"
    /\ LET v == req[r].on
           Define(power) ==
             /\ NameFree(v)
             /\ domain' = [domain EXCEPT ![v] =
                             [defined |-> TRUE, power |-> power, closing |-> FALSE]]
       IN  \/ Define("running") /\ Add(r, v, "running")
           \/ Define("off") /\ "libvirt_error" \in Env /\ Add(r, v, "error")
           \/ /\ ~NameFree(v) \/ "libvirt_error" \in Env
              /\ Add(r, v, "error")
              /\ UNCHANGED domain
    /\ Goto(r, "acted")
    /\ UNCHANGED <<row, req>>

\* create_tenant.
Onboard(r) ==
    /\ pc[r] = "admitted"
    /\ req[r].op = "onboard"
    /\ Add(r, req[r].on, "active")
    /\ Goto(r, "acted")
    /\ UNCHANGED <<row, domain, req>>

\* The first SELECT of suspend_tenant and delete_tenant.
LoadTenant(r) ==
    /\ pc[r] = "admitted"
    /\ req[r].op \in {"suspend", "remove"}
    /\ Grants(r)
    /\ Load(r, {req[r].on})
    /\ Goto(r, "loaded")
    /\ UNCHANGED <<row, domain, req>>

\* reinstate_tenant: its SELECT and the assignment after it.
Reinstate(r) ==
    LET t == req[r].on
    IN  /\ pc[r] = "admitted"
        /\ req[r].op = "reinstate"
        /\ Grants(r)
        /\ seen' = [seen EXCEPT ![r][t] = row[t]]
        /\ Hold(r, t, "active")
        /\ Goto(r, "acted")
        /\ UNCHANGED <<row, domain, req>>

\* suspend_tenant: the VMs to stop.  No row is ever seen "provisioning".
\* Mutant: only those that run.
ToStopRunning(t) == {v \in VMsOf(t) : row[v] = "running"}

ToStop(t) == {v \in VMsOf(t) : row[v] \in {"running", "paused"}}

SelectVMs(r) ==
    /\ pc[r] = "loaded"
    /\ req[r].op = "suspend"
    /\ Load(r, ToStop(req[r].on))
    /\ Goto(r, "read")
    /\ UNCHANGED <<row, domain, req>>

\* The loop of suspend_tenant: perform_action(vm, "stop", force=True) for each.
StopAll(r) ==
    /\ pc[r] = "read"
    /\ req[r].op = "suspend"
    /\ LET t == req[r].on
           loaded == {v \in VMs : seen[r][v] # "unread"}
       IN  \E failing \in SUBSET loaded :
             /\ \A v \in failing : MayFail(v, "stop")
             /\ \A v \in loaded \ failing : ~Refused(v, "stop")
             /\ domain' = [v \in VMs |->
                             IF v \in loaded \ failing
                             THEN After(domain[v], "stop", TRUE)
                             ELSE domain[v]]
             /\ want' = [want EXCEPT ![r] =
                           [x \in Rows |->
                              IF x = t THEN "suspended"
                              ELSE IF x \in failing THEN "error"
                              ELSE IF x \in loaded THEN "stopped"
                              ELSE want[r][x]]]
    /\ Goto(r, "acted")
    /\ UNCHANGED <<row, req, seen>>

\* delete_tenant: no VM remains.
CountVMs(r) ==
    /\ pc[r] = "loaded"
    /\ req[r].op = "remove"
    /\ Remaining(req[r].on) = {}
    /\ Hold(r, req[r].on, "gone")
    /\ Goto(r, "acted")
    /\ UNCHANGED <<row, domain, req, seen>>

-----------------------------------------------------------------------------
(* The end of a request *)

Changes(r) == {x \in Rows : want[r][x] # seen[r][x]}

\* A removed tenant takes the rows of its VMs along (ON DELETE CASCADE).
Cascaded(r) ==
    IF req[r].op = "remove"
    THEN {v \in VMsOf(req[r].on) : row[v] # "absent"}
    ELSE {}

\* Mutant: the foreign key without ON DELETE CASCADE.
WrittenAlone(r) ==
    [x \in Rows |-> IF x \in Changes(r) THEN want[r][x] ELSE row[x]]

\* Mutant: the whole identity map is written, rows not loaded included.
WrittenWhole(r) == [x \in Rows |-> want[r][x]]

Written(r) ==
    [x \in Rows |->
        IF x \in Cascaded(r) THEN "gone"
        ELSE IF x \in Changes(r) THEN want[r][x]
        ELSE row[x]]

\* The database rejects the transaction: tenant_id refers to no tenant;
\* (tenant_id, name) is taken, deleted VMs included; a row to update is gone.
Rejected(r) ==
    CASE req[r].op = "create" ->
           LET v == req[r].on
           IN  \/ row[TenantOf[v]] \in NoRow
               \/ \E u \in VMsOf(TenantOf[v]) :
                    NameOf[u] = NameOf[v] /\ row[u] \notin NoRow
      [] req[r].op = "remove" -> FALSE
      [] OTHER -> \E x \in Changes(r) : row[x] = "gone"

Commit(r) ==
    /\ pc[r] = "acted"
    /\ ~Rejected(r)
    /\ row' = Written(r)
    /\ Done(r)
    /\ UNCHANGED domain

\* What was done to the domains stays.
Rollback(r) ==
    /\ pc[r] = "acted"
    /\ Rejected(r) \/ "lost_commit" \in Env
    /\ Done(r)
    /\ UNCHANGED <<row, domain>>

Handle(r) ==
    \/ Refuse(r)
    \/ LoadVM(r) \/ Act(r) \/ Destroy(r) \/ Provision(r)
    \/ Onboard(r) \/ LoadTenant(r) \/ Reinstate(r)
    \/ SelectVMs(r) \/ StopAll(r) \/ CountVMs(r)
    \/ Commit(r) \/ Rollback(r)

Next ==
    \/ \E r \in Requests :
         \/ \E op \in VMOps, v \in VMs, force \in BOOLEAN : Admit(r, op, v, force)
         \/ \E op \in TenantOps, t \in Tenants : Admit(r, op, t, FALSE)
         \/ Handle(r)
    \/ \E v \in VMs : GuestDown(v)

Spec == Init /\ [][Next]_vars

-----------------------------------------------------------------------------
(* Properties *)

\* Every variable keeps its type (the columns of models, the locals of the
\* handlers).
TypeOK ==
    /\ row \in [Rows -> Statuses]
    /\ domain \in [VMs -> Domains]
    /\ pc \in [Requests -> {"idle", "admitted", "loaded", "read", "acted"}]
    /\ req \in [Requests ->
                  [op : VMOps \cup TenantOps \cup {"none"},
                   on : Rows \cup {"none"}, force : BOOLEAN]]
    /\ seen \in [Requests -> [Rows -> Statuses \cup {"unread"}]]
    /\ want \in [Requests -> [Rows -> Statuses \cup {"unread"}]]

\* A VM has a row only under a tenant that has one, although delete_tenant
\* counts the VMs, and create_vm's user was admitted, long before the commit.
RowsHaveTenant ==
    \A v \in VMs : row[v] \notin NoRow => row[TenantOf[v]] \in TenantStatus

PowerOf(s) == CASE s = "running" -> "running" [] s = "paused" -> "paused"
                [] OTHER -> "off"

\* No request holds a status for v that it has not committed yet.
Settled(v) ==
    \A r \in Requests : pc[r] = "acted" => want[r][v] = "unread"

\* The status shown for a VM that is not in error tells the state of its
\* domain, since perform_action and create set it from what libvirt has done;
\* but a VM shown as stopped may still be shutting down.
StatusTells ==
    \A v \in VMs :
      Settled(v) /\ row[v] \in {"running", "paused", "stopped"} =>
        \/ domain[v].power = PowerOf(row[v])
        \/ row[v] = "stopped" /\ domain[v].closing

\* suspend_tenant leaves no VM of the tenant shown as running or paused, and
\* none becomes so while the tenant is suspended.
SuspendedShowsStopped ==
    \A v \in VMs :
      row[TenantOf[v]] = "suspended" => row[v] \notin {"running", "paused"}

\* The statuses as the API promises them: what a request that has acted will
\* commit is shown already, but for a new row, which its INSERT shows.
Visible(r) ==
    pc[r] = "acted" /\ req[r].op \notin {"create", "onboard"} /\ ~Rejected(r)

Shown ==
    IF \E r \in Requests : Visible(r)
    THEN Written(CHOOSE r \in Requests : Visible(r))
    ELSE row

Fleet == INSTANCE Fleet WITH
    shown <- Shown,
    power <- [v \in VMs |->
                LET s == Shown[v]
                IN  CASE s \in {"running", "paused"} -> domain[v].power
                      [] s = "stopped" ->
                           IF domain[v].closing THEN "off" ELSE domain[v].power
                      [] OTHER -> "unknown"]

\* Requests that are handled one at a time implement Fleet: each is atomic on
\* statuses and domains, though it loads, acts and commits in steps.
ImplementsFleet == Fleet!Spec

=============================================================================
