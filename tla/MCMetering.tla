----------------------------- MODULE MCMetering -----------------------------
(* An instance of Metering for TLC. *)
EXTENDS Metering, TLC

CONSTANTS v1, v2

\* Two VMs of two tenants, each tenant known by the name of its VM.
MCVMs == {v1, v2}
MCTenantOf == [v \in VMs |-> v]

Symmetry == Permutations(MCVMs)

\* The manager looks over the end of the year.
MCFirstMonth == <<2026, 11>>

=============================================================================
