-------------------------------- MODULE Fleet --------------------------------
(***************************************************************************)
(* What the API promises of tenants and their VMs, one request at a time:   *)
(* each request changes the statuses shown, and the domains behind them, in *)
(* one step; a VM in error may be in any state.  Suspending a tenant stops  *)
(* its VMs in the same step, and nothing touches them until it is           *)
(* reinstated.  A tenant is removed with its last VM deleted.  Deletion of  *)
(* a VM and removal of a tenant are final.                                  *)
(***************************************************************************)
CONSTANTS VMs, Tenants, TenantOf

VARIABLES
    shown,  \* shown[x]: the status of VM or tenant x
    power   \* power[v]: the power of v, "unknown" when its status tells none

fleetVars == <<shown, power>>

Rows == VMs \cup Tenants

\* What a status tells of the domain.
Told(s) ==
    CASE s = "running" -> "running"
      [] s = "paused"  -> "paused"
      [] s = "stopped" -> "off"
      [] OTHER         -> "unknown"

\* The rows of DOMAIN new show new from now on, and their domains agree.
Show(new) ==
    /\ shown' = [x \in Rows |-> IF x \in DOMAIN new THEN new[x] ELSE shown[x]]
    /\ power' = [v \in VMs |-> IF v \in DOMAIN new THEN Told(new[v]) ELSE power[v]]

Move(x, from, to) == shown[x] \in from /\ Show([y \in {x} |-> to])

Init ==
    /\ shown = [x \in Rows |-> "absent"]
    /\ power = [v \in VMs |-> "unknown"]

\* A VM of an active tenant is created, or a power action moves it, or fails.
Operate(v) ==
    /\ shown[TenantOf[v]] = "active"
    /\ \/ Move(v, {"absent"}, "running") \/ Move(v, {"stopped"}, "running")
       \/ Move(v, {"running"}, "paused") \/ Move(v, {"paused"}, "running")
       \/ Move(v, {"running", "paused", "error"}, "stopped")
       \/ Move(v, {"absent", "running", "stopped", "paused"}, "error")
       \/ Move(v, {"stopped", "paused", "error"}, "deleted")

VMsOf(t) == {v \in VMs : TenantOf[v] = t}

Suspend(t) ==
    LET on == {v \in VMsOf(t) : shown[v] \in {"running", "paused"}}
    IN  /\ shown[t] = "active"
        /\ \E end \in [on -> {"stopped", "error"}] :
             Show([x \in on \cup {t} |-> IF x = t THEN "suspended" ELSE end[x]])

Remove(t) ==
    LET deleted == {v \in VMsOf(t) : shown[v] = "deleted"}
    IN  /\ shown[t] = "suspended"
        /\ \A v \in VMsOf(t) : shown[v] \in {"absent", "deleted"}
        /\ Show([x \in deleted \cup {t} |-> "gone"])

Next ==
    \/ \E v \in VMs : Operate(v)
    \/ \E t \in Tenants :
         \/ Move(t, {"absent"}, "active")
         \/ Suspend(t)
         \/ Move(t, {"suspended"}, "active")
         \/ Remove(t)

Spec == Init /\ [][Next]_fleetVars

=============================================================================
