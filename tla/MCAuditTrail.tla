---------------------------- MODULE MCAuditTrail ----------------------------
(* Four events: a VM action, a tenant's suspension by an MSP admin, a login  *)
(* of nobody and another VM action; pages of one and of two events.          *)
EXTENDS AuditTrail, TLC

CONSTANTS e1, e2, e3, e4, op, admin, t1, msp

MCHome == (op :> t1) @@ (admin :> msp)
MCActor == (e1 :> op) @@ (e2 :> admin) @@ (e3 :> NULL) @@ (e4 :> op)
MCAction == (e1 :> "vm.action") @@ (e2 :> "tenant.suspend")
            @@ (e3 :> "auth.login_failed") @@ (e4 :> "vm.action")
MCSubject == [e \in Events |-> t1]
MCFilters == {Events, {e1, e4}}
MCPageSizes == {1, 2}
MCWindows == {<<0, Horizon>>, <<1, 1>>, <<0, 0>>}
Symmetry == Permutations({e1, e4})
=============================================================================
