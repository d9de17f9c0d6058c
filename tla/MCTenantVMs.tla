---------------------------- MODULE MCTenantVMs ----------------------------
(* Instances of TenantVMs for TLC. *)
EXTENDS TenantVMs, TLC

CONSTANTS v1, v2, v3, t1, t2, q1, q2, n1, n2

\* One VM and two requests on it or its tenant.
MCOneVm == {v1}
MCRequests2 == {q1, q2}

\* All VMs are of one tenant; v1 and v3 have the same name.
MCVms3 == {v1, v2, v3}
MCTenants2 == {t1, t2}
MCTenantOf == [v \in VMs |-> t1]
MCNameOf == [v \in VMs |-> IF v = v2 THEN n2 ELSE n1]

MCSerialEnv == {"graceful", "libvirt_error"}

\* Slots for requests are interchangeable.
RequestSymmetry == Permutations(MCRequests2)

\* v1 and v3 are interchangeable too.
VmSymmetry == Permutations({v1, v3})

=============================================================================
