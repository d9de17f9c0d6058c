--------------------------- MODULE TenantVMsProofs ---------------------------
(* Theorems of TenantVMs, for all values of its constants. *)
EXTENDS TenantVMs, TLAPS

-----------------------------------------------------------------------------
(* Types and sessions *)

Creations == {"create", "onboard"}

\* Request r is about the kind of row its operation is for.
WellAimed(r) ==
    pc[r] # "idle" =>
      \/ req[r].op \in VMOps /\ req[r].on \in VMs
      \/ req[r].op \in TenantOps /\ req[r].on \in Tenants

\* What the session of r holds: it changes rows it has loaded, or the one it
\* adds; a row once loaded is never absent; only "remove" holds "gone".
SessionOK(r) ==
    /\ pc[r] \in {"idle", "admitted"} => seen[r] = Unread /\ want[r] = Unread
    /\ \A x \in Rows :
         /\ (want[r][x] = "unread") <=> (seen[r][x] = "unread")
         /\ want[r][x] # "absent"
         /\ want[r][x] = "gone" => req[r].op = "remove" /\ x = req[r].on
         /\ req[r].op \notin Creations /\ seen[r][x] # "unread" =>
              seen[r][x] \notin NoRow /\ row[x] # "absent"
         /\ req[r].op \in Creations /\ x # req[r].on => want[r][x] = "unread"
    /\ \A t \in Tenants : want[r][t] \in TenantStatus \cup {"gone", "unread"}
    /\ req[r].op = "remove" => \A v \in VMs : want[r][v] = "unread"
    /\ pc[r] \in {"loaded", "read", "acted"} => seen[r][req[r].on] # "unread"

TypeInv ==
    /\ TypeOK
    /\ \A t \in Tenants : row[t] \in NoRow \cup TenantStatus
    /\ \A r \in Requests : WellAimed(r) /\ SessionOK(r)

\* The last fact of TypeInv carries over to the requests that make no step.
LEMMA OthersKeep ==
    ASSUME TypeInv, NEW r \in Requests,
           pc' \in [Requests -> {"idle", "admitted", "loaded", "read", "acted"}],
           \A q \in Requests \ {r} : /\ pc'[q] = pc[q] /\ req'[q] = req[q]
                                     /\ seen'[q] = seen[q] /\ want'[q] = want[q],
           \A x \in Rows : row[x] # "absent" => row'[x] # "absent"
    PROVE  \A q \in Requests \ {r} : (WellAimed(q) /\ SessionOK(q))'
BY DEF TypeInv, WellAimed, SessionOK

LEMMA TypeInit == Init => TypeInv
BY DEF Init, TypeInv, TypeOK, Domains, Powers, NoDomain, NoRequest, Unread, Rows,
       Statuses, NoRow, VMStatus, TenantStatus, VMOps, TenantOps, WellAimed,
       SessionOK, Creations

\* Request r ends, and the rows are well-typed.
LEMMA TypeDone ==
    ASSUME TypeInv, NEW r \in Requests, Done(r),
           row' \in [Rows -> Statuses], domain' \in [VMs -> Domains],
           \A t \in Tenants : row'[t] \in NoRow \cup TenantStatus,
           \A x \in Rows : row[x] # "absent" => row'[x] # "absent"
    PROVE  TypeInv'
<1>1. TypeOK'
  BY DEF TypeInv, TypeOK, Done, Goto, NoRequest, Unread
<1>2. (WellAimed(r) /\ SessionOK(r))'
  BY DEF TypeInv, TypeOK, Done, Goto, NoRequest, Unread, WellAimed, SessionOK,
         Creations, Rows
<1>3. \A q \in Requests \ {r} : (WellAimed(q) /\ SessionOK(q))'
  BY <1>1, OthersKeep DEF TypeInv, TypeOK, Done, Goto
<1> QED BY <1>1, <1>2, <1>3 DEF TypeInv

\* A step of request r before its end.
LEMMA TypeGo ==
    ASSUME TypeInv, NEW r \in Requests, pc[r] # "idle",
           NEW s \in {"loaded", "read", "acted"}, Goto(r, s),
           UNCHANGED <<row, req>>, domain' \in [VMs -> Domains],
           seen' \in [Requests -> [Rows -> Statuses \cup {"unread"}]],
           want' \in [Requests -> [Rows -> Statuses \cup {"unread"}]],
           \A q \in Requests \ {r} : seen'[q] = seen[q] /\ want'[q] = want[q],
           SessionOK(r)'
    PROVE  TypeInv'
<1>1. TypeOK'
  BY DEF TypeInv, TypeOK, Goto
<1>2. WellAimed(r)'
  BY DEF TypeInv, TypeOK, Goto, WellAimed
<1>3. \A q \in Requests \ {r} : (WellAimed(q) /\ SessionOK(q))'
  BY <1>1, OthersKeep DEF TypeInv, TypeOK, Goto
<1> QED BY <1>1, <1>2, <1>3 DEF TypeInv

\* What an operation on a VM or a tenant implies for the row it is on.
LEMMA Aim ==
    ASSUME TypeInv, NEW r \in Requests, pc[r] # "idle"
    PROVE  /\ req[r].on \in Rows
           /\ req[r].op \in VMOps => req[r].on \in VMs
           /\ req[r].op \in TenantOps => req[r].on \in Tenants
BY DEF TypeInv, WellAimed, Rows, VMOps, TenantOps, PowerActions

\* What the calls to libvirt leave is a domain.
LEMMA AfterDomain ==
    ASSUME NEW d \in Domains
    PROVE  /\ \A action, force : After(d, action, force) \in Domains
           /\ [d EXCEPT !.defined = FALSE] \in Domains
           /\ [d EXCEPT !.power = "off", !.closing = FALSE] \in Domains
<1>1. PICK b \in BOOLEAN, p \in Powers, c \in BOOLEAN :
        d = [defined |-> b, power |-> p, closing |-> c]
  BY DEF Domains
<1>2. ASSUME NEW action, NEW force PROVE After(d, action, force) \in Domains
  BY <1>1 DEF After, Domains, Powers
<1> QED BY <1>1, <1>2 DEF Domains, Powers

LEMMA TypeStep == TypeInv /\ [Next]_vars => TypeInv'
<1> SUFFICES ASSUME TypeInv, [Next]_vars PROVE TypeInv'
  OBVIOUS
<1>a. /\ row \in [Rows -> Statuses]
      /\ domain \in [VMs -> Domains]
      /\ DOMAIN req = Requests
      /\ pc \in [Requests -> {"idle", "admitted", "loaded", "read", "acted"}]
      /\ seen \in [Requests -> [Rows -> Statuses \cup {"unread"}]]
      /\ want \in [Requests -> [Rows -> Statuses \cup {"unread"}]]
      /\ VMs \subseteq Rows /\ Tenants \subseteq Rows
      /\ \A r \in Requests : WellAimed(r) /\ SessionOK(r)
  BY DEF TypeInv, TypeOK, Rows
<1>1. ASSUME NEW r \in Requests, NEW op \in VMOps \cup TenantOps, NEW x \in Rows,
             NEW force \in BOOLEAN, Admit(r, op, x, force),
             op \in VMOps => x \in VMs, op \in TenantOps => x \in Tenants
      PROVE  TypeInv'
  <2>1. TypeOK'
    BY <1>1 DEF Admit, Goto, TypeInv, TypeOK
  <2>2. seen[r] = Unread /\ want[r] = Unread
    BY <1>1, <1>a DEF Admit, SessionOK
  <2>3. (WellAimed(r) /\ SessionOK(r))'
    BY <1>1, <1>a, <2>2 DEF Admit, Goto, TypeInv, TypeOK, WellAimed, SessionOK, Unread
  <2>4. \A q \in Requests \ {r} : (WellAimed(q) /\ SessionOK(q))'
    BY <1>1, <1>a, OthersKeep DEF Admit, Goto
  <2> QED BY <1>1, <2>1, <2>3, <2>4 DEF Admit, TypeInv
<1>2. ASSUME NEW r \in Requests, Refuse(r) PROVE TypeInv'
  BY <1>2, <1>a, TypeDone DEF Refuse, TypeInv
<1>3. ASSUME NEW r \in Requests, LoadVM(r) PROVE TypeInv'
  <2>1. req[r].on \in VMs /\ pc[r] # "idle" /\ row[req[r].on] \notin NoRow
    BY <1>3, Aim DEF LoadVM, Grants, VMOps
  <2>2. seen[r] = Unread /\ want[r] = Unread /\ row[req[r].on] # "unread"
        /\ req[r].op # "remove"
    BY <1>3, <1>a, <2>1
       DEF LoadVM, SessionOK, PowerActions, Statuses, NoRow, VMStatus, TenantStatus
  <2>3. SessionOK(r)'
    BY <1>3, <1>a, <2>1, <2>2, RowsAssumption
       DEF LoadVM, Load, Goto, SessionOK, NoRow, Creations, Unread
  <2> QED BY <1>3, <1>a, <2>1, <2>3, TypeGo DEF LoadVM, Load
<1>4. ASSUME NEW r \in Requests, Act(r) PROVE TypeInv'
  <2>1. req[r].on \in VMs /\ pc[r] # "idle"
    BY <1>4, Aim DEF Act, VMOps
  <2>2. PICK s \in {"running", "stopped", "paused", "error"} : Hold(r, req[r].on, s)
    BY <1>4 DEF Act, Resulting
  <2>3. domain' \in [VMs -> Domains]
    <3>1. After(domain[req[r].on], req[r].op, req[r].force) \in Domains
      BY <1>a, <2>1, AfterDomain
    <3> QED BY <1>4, <1>a, <2>1, <3>1 DEF Act
  <2>4. SessionOK(r)'
    BY <1>4, <1>a, <2>1, <2>2, RowsAssumption
       DEF Act, Hold, Goto, SessionOK, Creations, PowerActions
  <2> QED BY <1>4, <1>a, <2>1, <2>2, <2>3, <2>4, TypeGo
          DEF Act, Hold, Statuses, VMStatus
<1>5. ASSUME NEW r \in Requests, Destroy(r) PROVE TypeInv'
  <2>1. req[r].on \in VMs /\ pc[r] # "idle"
    BY <1>5, Aim DEF Destroy, VMOps
  <2>2. domain' \in [VMs -> Domains]
    <3>1. [domain[req[r].on] EXCEPT !.defined = FALSE] \in Domains
      BY <1>a, <2>1, AfterDomain
    <3> QED BY <1>5, <1>a, <2>1, <3>1 DEF Destroy
  <2>3. SessionOK(r)'
    BY <1>5, <1>a, <2>1, RowsAssumption DEF Destroy, Hold, SessionOK, Goto, TenantStatus, Creations
  <2> QED BY <1>5, <1>a, <2>1, <2>2, <2>3, TypeGo
          DEF Destroy, Hold, Statuses, VMStatus
<1>6. ASSUME NEW r \in Requests, Provision(r) PROVE TypeInv'
  <2>1. req[r].on \in VMs /\ pc[r] # "idle" /\ seen[r] = Unread /\ want[r] = Unread
    BY <1>6, <1>a, Aim DEF Provision, VMOps, SessionOK
  <2>2. PICK s \in {"running", "error"} : Add(r, req[r].on, s)
    BY <1>6 DEF Provision
  <2>3. domain' \in [VMs -> Domains]
    <3>1. \A p \in {"off", "running"} :
            [defined |-> TRUE, power |-> p, closing |-> FALSE] \in Domains
      BY DEF Domains, Powers
    <3> QED BY <1>6, <1>a, <2>1, <3>1 DEF Provision
  <2>4. SessionOK(r)'
    BY <1>6, <1>a, <2>1, <2>2, RowsAssumption
       DEF Provision, Add, Hold, SessionOK, Goto, Unread, Creations
  <2> QED BY <1>6, <1>a, <2>1, <2>2, <2>3, <2>4, TypeGo
          DEF Provision, Add, Hold, Statuses, VMStatus, NoRow
<1>7. ASSUME NEW r \in Requests, Onboard(r) PROVE TypeInv'
  <2>1. req[r].on \in Tenants /\ pc[r] # "idle" /\ seen[r] = Unread /\ want[r] = Unread
    BY <1>7, <1>a, Aim DEF Onboard, TenantOps, SessionOK
  <2>2. SessionOK(r)'
    BY <1>7, <1>a, <2>1, RowsAssumption
       DEF Onboard, Add, Hold, SessionOK, Goto, Unread, Creations, TenantStatus
  <2> QED BY <1>7, <1>a, <2>1, <2>2, TypeGo
          DEF Onboard, Add, Hold, Statuses, TenantStatus, NoRow
<1>8. ASSUME NEW r \in Requests, LoadTenant(r) PROVE TypeInv'
  <2>1. req[r].on \in Tenants /\ pc[r] # "idle" /\ row[req[r].on] \in TenantStatus
        /\ seen[r] = Unread /\ want[r] = Unread
    BY <1>8, <1>a, Aim DEF LoadTenant, Grants, TenantOps, TypeInv, SessionOK
  <2>2. SessionOK(r)'
    BY <1>8, <1>a, <2>1, RowsAssumption
       DEF LoadTenant, Load, SessionOK, Goto, Unread, NoRow, Creations, TenantStatus
  <2> QED BY <1>8, <1>a, <2>1, <2>2, TypeGo DEF LoadTenant, Load
<1>9. ASSUME NEW r \in Requests, Reinstate(r) PROVE TypeInv'
  <2>1. req[r].on \in Tenants /\ pc[r] # "idle" /\ row[req[r].on] \in TenantStatus
        /\ seen[r] = Unread /\ want[r] = Unread
    BY <1>9, <1>a, Aim DEF Reinstate, Grants, TenantOps, TypeInv, SessionOK
  <2>2. SessionOK(r)'
    BY <1>9, <1>a, <2>1, RowsAssumption
       DEF Reinstate, Hold, SessionOK, Goto, Unread, NoRow, Creations, TenantStatus
  <2> QED BY <1>9, <1>a, <2>1, <2>2, TypeGo DEF Reinstate, Hold, Statuses, TenantStatus
<1>10. ASSUME NEW r \in Requests, SelectVMs(r) PROVE TypeInv'
  <2>1. ToStop(req[r].on) \subseteq VMs
        /\ \A v \in ToStop(req[r].on) : row[v] \in {"running", "paused"}
    BY DEF ToStop, VMsOf
  <2>2. \A x \in Rows :
           IF x \in ToStop(req[r].on)
           THEN x \notin Tenants /\ want'[r][x] = row[x] /\ seen'[r][x] = row[x]
           ELSE want'[r][x] = want[r][x] /\ seen'[r][x] = seen[r][x]
    BY <1>10, <1>a, <2>1, RowsAssumption DEF SelectVMs, Load
  <2>3. SessionOK(r)'
    <3>1. SessionOK(r) /\ req[r].op = "suspend" /\ pc'[r] = "read"
          /\ req' = req /\ row' = row
      BY <1>10, <1>a DEF SelectVMs, Goto
    <3>2. req[r].on \in Rows
      BY <1>10, Aim DEF SelectVMs
    <3>3. ASSUME NEW x \in Rows
          PROVE  /\ (want'[r][x] = "unread") <=> (seen'[r][x] = "unread")
                 /\ want'[r][x] \notin NoRow
                 /\ seen'[r][x] # "unread" => seen'[r][x] \notin NoRow /\ row[x] # "absent"
      BY <2>1, <2>2, <3>1 DEF SessionOK, NoRow, Creations
    <3>4. \A t \in Tenants : want'[r][t] \in TenantStatus \cup {"gone", "unread"}
      BY <1>a, <2>2, <3>1 DEF SessionOK
    <3>5. seen'[r][req[r].on] # "unread"
      BY <1>10, <2>1, <2>2, <3>1, <3>2 DEF SelectVMs, SessionOK
    <3> QED BY <3>1, <3>3, <3>4, <3>5 DEF SessionOK, NoRow, Creations
  <2> QED BY <1>10, <1>a, <2>3, TypeGo DEF SelectVMs, Load
<1>11. ASSUME NEW r \in Requests, StopAll(r) PROVE TypeInv'
  <2>1. req[r].on \in Tenants /\ pc[r] # "idle"
    BY <1>11, Aim DEF StopAll, TenantOps
  <2>2. domain' \in [VMs -> Domains]
    <3>1. \A v \in VMs : After(domain[v], "stop", TRUE) \in Domains
      BY <1>a, AfterDomain
    <3>2. PICK S : domain' = [v \in VMs |-> IF v \in S THEN After(domain[v], "stop", TRUE)
                                           ELSE domain[v]]
      BY <1>11 DEF StopAll
    <3> QED BY <1>a, <3>1, <3>2
  <2>3. seen[r][req[r].on] # "unread"
    BY <1>11, <1>a DEF StopAll, SessionOK
  <2>4. SessionOK(r)'
    BY <1>11, <1>a, <2>1, <2>3, RowsAssumption
       DEF StopAll, SessionOK, Goto, Creations, TenantStatus
  <2>5. want' \in [Requests -> [Rows -> Statuses \cup {"unread"}]]
    BY <1>11, <1>a DEF StopAll, Statuses, TenantStatus, VMStatus
  <2> QED BY <1>11, <1>a, <2>1, <2>2, <2>4, <2>5, TypeGo DEF StopAll
<1>12. ASSUME NEW r \in Requests, CountVMs(r) PROVE TypeInv'
  <2>1. req[r].on \in Tenants /\ pc[r] # "idle"
    BY <1>12, Aim DEF CountVMs, TenantOps
  <2>2. SessionOK(r)'
    BY <1>12, <1>a, <2>1, RowsAssumption
       DEF CountVMs, Hold, SessionOK, Goto, Creations, TenantStatus
  <2> QED BY <1>12, <1>a, <2>1, <2>2, TypeGo DEF CountVMs, Hold, Statuses, NoRow
<1>13. ASSUME NEW r \in Requests, Commit(r) PROVE TypeInv'
  <2>1. \A x \in Changes(r) : want[r][x] \in Statuses \ {"absent"}
    BY <1>a DEF Changes, SessionOK
  <2>2. row' \in [Rows -> Statuses]
    BY <1>13, <1>a, <2>1 DEF Commit, Written, Statuses, NoRow
  <2>3. \A t \in Tenants : row'[t] \in NoRow \cup TenantStatus
    BY <1>13, <1>a, <2>1, RowsAssumption
       DEF Commit, Written, Cascaded, VMsOf, Changes, SessionOK, TypeInv, NoRow
  <2>4. \A x \in Rows : row[x] # "absent" => row'[x] # "absent"
    BY <1>13, <1>a, <2>1 DEF Commit, Written
  <2> QED BY <1>13, <1>a, <2>2, <2>3, <2>4, TypeDone DEF Commit
<1>14. ASSUME NEW r \in Requests, Rollback(r) PROVE TypeInv'
  BY <1>14, <1>a, TypeDone DEF Rollback, TypeInv
<1>15. ASSUME NEW v \in VMs, GuestDown(v) PROVE TypeInv'
  <2>1. domain' \in [VMs -> Domains]
    <3>1. [domain[v] EXCEPT !.power = "off", !.closing = FALSE] \in Domains
      BY <1>15, <1>a, AfterDomain
    <3> QED BY <1>15, <1>a, <3>1 DEF GuestDown
  <2> QED BY <1>15, <2>1 DEF GuestDown, requestVars, TypeInv, TypeOK, WellAimed, SessionOK
<1>16. CASE UNCHANGED vars
  BY <1>16 DEF vars, requestVars, TypeInv, TypeOK, WellAimed, SessionOK
<1>17. ASSUME NEW r \in Requests, Handle(r) PROVE TypeInv'
  BY <1>17, <1>2, <1>3, <1>4, <1>5, <1>6, <1>7, <1>8, <1>9, <1>10, <1>11, <1>12,
     <1>13, <1>14 DEF Handle
<1>18. ASSUME NEW r \in Requests, NEW op \in VMOps, NEW v \in VMs,
              NEW force \in BOOLEAN, Admit(r, op, v, force)
       PROVE  TypeInv'
  BY <1>18, <1>1, <1>a DEF VMOps, TenantOps, PowerActions
<1>19. ASSUME NEW r \in Requests, NEW op \in TenantOps, NEW t \in Tenants,
              Admit(r, op, t, FALSE)
       PROVE  TypeInv'
  BY <1>19, <1>1, <1>a DEF VMOps, TenantOps, PowerActions
<1> QED BY <1>15, <1>16, <1>17, <1>18, <1>19 DEF Next

\* The rows, the domains, the requests and their sessions keep their types,
\* however requests overlap and whatever fails (models, handlers).
THEOREM TypeCorrect == Spec => []TypeOK
<1>1. TypeInv => TypeOK
  BY DEF TypeInv
<1> QED BY TypeInit, TypeStep, <1>1, PTL DEF Spec

-----------------------------------------------------------------------------
(* No VM without a tenant *)

\* The commit of r changes the row of a VM only if its tenant exists: create is
\* refused by the foreign key, and every other request has loaded the row.
LEMMA ChangedHasTenant ==
    ASSUME TypeInv, RowsHaveTenant, NEW r \in Requests, Commit(r),
           NEW v \in VMs, v \in Changes(r), row'[v] \notin NoRow
    PROVE  row[TenantOf[v]] \in TenantStatus /\ req[r].op # "remove"
<1>0. /\ SessionOK(r) /\ v \in Rows /\ TenantOf[v] \in Tenants /\ ~Rejected(r)
      /\ want[r][v] # "unread" /\ row[TenantOf[v]] \in NoRow \cup TenantStatus
  BY TenantOfAssumption DEF TypeInv, Commit, Changes, Rows, SessionOK
<1>1. req[r].op # "remove"
  BY <1>0 DEF SessionOK
<1>2. CASE req[r].op = "create"
  <2>1. v = req[r].on
    BY <1>0, <1>2 DEF SessionOK, Creations
  <2> QED BY <1>0, <1>1, <1>2, <2>1 DEF Rejected
<1>3. CASE req[r].op # "create"
  <2>1. ~\E x \in Changes(r) : row[x] = "gone"
    BY <1>0, <1>1, <1>3 DEF Rejected
  <2>2. CASE req[r].op = "onboard"
    <3>1. v = req[r].on /\ req[r].on \in Tenants
      BY <1>0, <2>2, Aim DEF SessionOK, Creations, Commit, TenantOps
    <3> QED BY <3>1, RowsAssumption
  <2>3. CASE req[r].op # "onboard"
    <3>1. row[v] # "absent"
      BY <1>0, <1>3, <2>3 DEF SessionOK, Creations
    <3> QED BY <1>0, <1>1, <2>1, <3>1 DEF RowsHaveTenant, NoRow
  <2> QED BY <2>2, <2>3
<1> QED BY <1>2, <1>3

\* A tenant goes only together with the VMs that have a row.
LEMMA CommitKeepsTenants ==
    ASSUME TypeInv, RowsHaveTenant, NEW r \in Requests, Commit(r)
    PROVE  RowsHaveTenant'
<1> SUFFICES ASSUME NEW v \in VMs, row'[v] \notin NoRow
             PROVE  row'[TenantOf[v]] \in TenantStatus
  BY DEF RowsHaveTenant
<1> DEFINE t == TenantOf[v]
<1>0. /\ SessionOK(r) /\ v \in Rows /\ t \in Tenants /\ t \in Rows /\ t \notin VMs
      /\ row' = Written(r)
  BY TenantOfAssumption, RowsAssumption DEF TypeInv, Commit, Rows
<1>1. v \notin Cascaded(r) /\ t \notin Cascaded(r)
  BY <1>0 DEF Written, NoRow, Cascaded, VMsOf
<1>2. row[t] \in TenantStatus
  <2>1. CASE v \in Changes(r)
    BY <2>1, ChangedHasTenant
  <2>2. CASE v \notin Changes(r)
    BY <1>0, <1>1, <2>2 DEF Written, RowsHaveTenant
  <2> QED BY <2>1, <2>2
<1>3. CASE t \in Changes(r)
  <2>1. want[r][t] \in TenantStatus \cup {"gone"}
    BY <1>0, <1>3 DEF Changes, SessionOK
  <2>2. ASSUME want[r][t] = "gone" PROVE FALSE
    <3>1. req[r].op = "remove" /\ t = req[r].on
      BY <1>0, <2>2 DEF SessionOK
    <3>2. v \notin Changes(r)
      BY <3>1, ChangedHasTenant
    <3>3. row[v] \notin NoRow
      BY <1>0, <1>1, <3>2 DEF Written
    <3> QED BY <1>1, <3>1, <3>3 DEF Cascaded, VMsOf, NoRow
  <2> QED BY <1>0, <1>1, <1>3, <2>1, <2>2 DEF Written
<1>4. CASE t \notin Changes(r)
  BY <1>0, <1>1, <1>2, <1>4 DEF Written
<1> QED BY <1>3, <1>4

LEMMA TenantsStep == TypeInv /\ RowsHaveTenant /\ [Next]_vars => RowsHaveTenant'
<1>1. ASSUME UNCHANGED row, RowsHaveTenant PROVE RowsHaveTenant'
  BY <1>1 DEF RowsHaveTenant
<1>2. ASSUME [Next]_vars, \A r \in Requests : ~Commit(r) PROVE UNCHANGED row
  BY ZenonT(60), <1>2 DEF Next, Handle, Admit, Refuse, LoadVM, Act, Destroy, Provision, Onboard,
              LoadTenant, Reinstate, SelectVMs, StopAll, CountVMs, Rollback,
              GuestDown, vars
<1> QED BY <1>1, <1>2, CommitKeepsTenants

\* No VM has a row without its tenant: delete_tenant cascades, and a VM that is
\* created meanwhile is refused, in every circumstance (models.VM.tenant_id).
THEOREM VMsHaveTenants == Spec => []RowsHaveTenant
<1>1. Init => RowsHaveTenant
  BY DEF Init, RowsHaveTenant, NoRow, Rows
<1> QED BY TypeInit, TypeStep, TenantsStep, <1>1, PTL DEF Spec

-----------------------------------------------------------------------------
(* Requests one at a time *)

Serial == \A p, q \in Requests : pc[p] # "idle" /\ pc[q] # "idle" => p = q

\* What a request that is alone has loaded is still so, what it creates is not
\* there yet, and it is concerned with its own row, or a tenant and its VMs.
Faithful(r) ==
    /\ \A x \in Rows : req[r].op \notin Creations /\ seen[r][x] # "unread" =>
                         seen[r][x] = row[x]
    /\ pc[r] # "idle" =>
         /\ req[r].op \in Creations => row[req[r].on] = "absent"
         /\ req[r].op \in VMOps => \A x \in Rows : x # req[r].on => want[r][x] = "unread"
         /\ \A t \in Tenants : t # req[r].on => want[r][t] = "unread"
         /\ req[r].op \in TenantOps \ {"suspend"} => \A v \in VMs : want[r][v] = "unread"

SerialInv == TypeInv /\ Serial /\ \A r \in Requests : Faithful(r)

LEMMA SerialInit == Init => SerialInv
BY TypeInit DEF Init, SerialInv, Serial, Faithful, Unread, NoRequest, Creations

\* A request that is about to make a step is the only one.
LEMMA Alone ==
    ASSUME SerialInv, NEW r \in Requests, pc[r] # "idle"
    PROVE  \A q \in Requests \ {r} :
             pc[q] = "idle" /\ seen[q] = Unread /\ want[q] = Unread
BY DEF SerialInv, Serial, TypeInv, SessionOK

\* A step of r before its end.
LEMMA SerialGo ==
    ASSUME SerialInv, TypeInv', NEW r \in Requests, pc[r] # "idle",
           NEW s \in {"loaded", "read", "acted"}, Goto(r, s),
           UNCHANGED <<row, req>>, Faithful(r)',
           \A q \in Requests \ {r} : seen'[q] = seen[q] /\ want'[q] = want[q]
    PROVE  SerialInv'
<1>1. \A q \in Requests \ {r} : pc'[q] = "idle" /\ seen'[q] = Unread
  BY Alone DEF SerialInv, TypeInv, TypeOK, Goto
<1>2. \A q \in Requests \ {r} : Faithful(q)'
  BY <1>1 DEF Faithful, Unread
<1> QED BY <1>1, <1>2 DEF SerialInv, Serial

\* The end of r.
LEMMA SerialDone ==
    ASSUME SerialInv, TypeInv', NEW r \in Requests, pc[r] # "idle", Done(r)
    PROVE  SerialInv'
<1>1. \A q \in Requests : pc'[q] = "idle" /\ seen'[q] = Unread
  BY Alone DEF SerialInv, TypeInv, TypeOK, Done, Goto
<1> QED BY <1>1 DEF SerialInv, Serial, Faithful, Unread

LEMMA SerialStep ==
    ASSUME "overlap" \notin Env
    PROVE  SerialInv /\ [Next]_vars => SerialInv'
<1> SUFFICES ASSUME SerialInv, [Next]_vars PROVE SerialInv'
  OBVIOUS
<1>a. /\ TypeInv /\ TypeInv'
      /\ pc \in [Requests -> {"idle", "admitted", "loaded", "read", "acted"}]
      /\ seen \in [Requests -> [Rows -> Statuses \cup {"unread"}]]
      /\ want \in [Requests -> [Rows -> Statuses \cup {"unread"}]]
      /\ VMs \subseteq Rows /\ Tenants \subseteq Rows
      /\ \A r \in Requests : SessionOK(r) /\ Faithful(r)
  BY TypeStep DEF SerialInv, TypeInv, TypeOK, Rows
<1>b. \A r \in Requests : pc[r] # "idle" /\ pc[r] = "admitted" =>
        seen[r] = Unread /\ want[r] = Unread
  BY <1>a DEF SessionOK
<1>1. ASSUME NEW r \in Requests, NEW op, NEW x \in Rows, NEW force,
             Admit(r, op, x, force)
      PROVE  SerialInv'
  <2>1. \A q \in Requests : pc[q] = "idle" /\ seen[q] = Unread /\ want[q] = Unread
    BY <1>1, <1>a DEF Admit, SessionOK
  <2>2. op \in Creations => row[x] = "absent"
    BY <1>1 DEF Admit, Fresh, Creations
  <2>3. Serial'
    BY <1>1, <1>a, <2>1 DEF Admit, Goto, Serial
  <2>4. req'[r].op = op /\ req'[r].on = x
    BY <1>1 DEF Admit, TypeInv, TypeOK, SerialInv
  <2>5. \A q \in Requests : Faithful(q)'
    BY <1>1, <1>a, <2>1, <2>2, <2>4 DEF Admit, Goto, Faithful, Unread
  <2> QED BY <1>a, <2>3, <2>5 DEF SerialInv
<1>2. ASSUME NEW r \in Requests, Refuse(r) \/ Commit(r) \/ Rollback(r) PROVE SerialInv'
  BY <1>2, <1>a, SerialDone DEF Refuse, Commit, Rollback
<1>3. ASSUME NEW r \in Requests, LoadVM(r) PROVE SerialInv'
  <2>1. Faithful(r)'
    BY <1>3, <1>a, <1>b, Aim, RowsAssumption
       DEF LoadVM, Load, Goto, Faithful, Unread, Creations, PowerActions, VMOps, TenantOps
  <2> QED BY <1>3, <1>a, <2>1, SerialGo DEF LoadVM, Load
<1>4. ASSUME NEW r \in Requests, Act(r) \/ Destroy(r) PROVE SerialInv'
  <2>1. PICK s : Hold(r, req[r].on, s)
    BY <1>4 DEF Act, Destroy
  <2>2. req[r].op \in PowerActions \cup {"delete"} /\ pc[r] # "idle" /\ Goto(r, "acted")
        /\ UNCHANGED <<row, req, seen>>
    BY <1>4 DEF Act, Destroy
  <2>3. Faithful(r)'
    BY <1>a, <2>1, <2>2, Aim, RowsAssumption
       DEF Hold, Goto, Faithful, Creations, PowerActions, VMOps, TenantOps
  <2> QED BY <1>a, <2>1, <2>2, <2>3, SerialGo DEF Hold
<1>5. ASSUME NEW r \in Requests, Provision(r) \/ Onboard(r) PROVE SerialInv'
  <2>1. PICK s : Add(r, req[r].on, s)
    BY <1>5 DEF Provision, Onboard
  <2>2. req[r].op \in Creations /\ pc[r] = "admitted" /\ Goto(r, "acted")
        /\ UNCHANGED <<row, req>> /\ req[r].op \in VMOps \cup TenantOps
    BY <1>5 DEF Provision, Onboard, Creations, VMOps, TenantOps
  <2>3. Faithful(r)'
    BY <1>a, <1>b, <2>1, <2>2, Aim, RowsAssumption
       DEF Add, Hold, Goto, Faithful, Creations, PowerActions, VMOps, TenantOps, Unread
  <2> QED BY <1>a, <2>1, <2>2, <2>3, SerialGo DEF Add, Hold
<1>6. ASSUME NEW r \in Requests, LoadTenant(r) PROVE SerialInv'
  <2>1. Faithful(r)'
    BY <1>6, <1>a, <1>b, Aim, RowsAssumption
       DEF LoadTenant, Load, Goto, Faithful, Unread, Creations, PowerActions, VMOps, TenantOps
  <2> QED BY <1>6, <1>a, <2>1, SerialGo DEF LoadTenant, Load
<1>7. ASSUME NEW r \in Requests, Reinstate(r) PROVE SerialInv'
  <2>1. Faithful(r)'
    BY <1>7, <1>a, <1>b, Aim, RowsAssumption
       DEF Reinstate, Hold, Goto, Faithful, Unread, Creations, PowerActions, VMOps, TenantOps
  <2> QED BY <1>7, <1>a, <2>1, SerialGo DEF Reinstate, Hold
<1>8. ASSUME NEW r \in Requests, SelectVMs(r) PROVE SerialInv'
  <2>1. Faithful(r)'
    BY <1>8, <1>a, RowsAssumption
       DEF SelectVMs, Load, Goto, Faithful, Creations, ToStop, VMsOf, PowerActions, VMOps
  <2> QED BY <1>8, <1>a, <2>1, SerialGo DEF SelectVMs, Load
<1>9. ASSUME NEW r \in Requests, StopAll(r) PROVE SerialInv'
  <2>1. Faithful(r)'
    BY <1>9, <1>a, RowsAssumption
       DEF StopAll, Goto, Faithful, Creations, PowerActions, VMOps
  <2> QED BY <1>9, <1>a, <2>1, SerialGo DEF StopAll
<1>10. ASSUME NEW r \in Requests, CountVMs(r) PROVE SerialInv'
  <2>1. Faithful(r)'
    BY <1>10, <1>a, Aim, RowsAssumption
       DEF CountVMs, Hold, Goto, Faithful, Creations, PowerActions, VMOps, TenantOps
  <2> QED BY <1>10, <1>a, <2>1, SerialGo DEF CountVMs, Hold
<1>11. ASSUME UNCHANGED <<row, requestVars>> PROVE SerialInv'
  BY <1>11, <1>a DEF requestVars, SerialInv, Serial, Faithful
<1> QED
  BY <1>1, <1>2, <1>3, <1>4, <1>5, <1>6, <1>7, <1>8, <1>9, <1>10, <1>11, <1>a
     DEF Next, Handle, GuestDown, vars, requestVars

-----------------------------------------------------------------------------
(* The status shown tells the state of the domain *)

Told == {"running", "paused", "stopped"}

\* Status s agrees with the domain of v: StatusTells, and a VM that is not
\* shown as stopped has not been asked to shut down.
Tells(v, s) ==
    /\ s \in Told => \/ domain[v].power = PowerOf(s)
                     \/ s = "stopped" /\ domain[v].closing
    /\ s \in {"running", "paused"} => ~domain[v].closing

\* Only stop is forced, and any other action found the status it requires.
Meant(r) ==
    /\ pc[r] # "idle" /\ req[r].force => req[r].op = "stop"
    /\ pc[r] = "read" /\ req[r].op \in PowerActions =>
         \/ row[req[r].on] = Required(req[r].op)
         \/ req[r].op = "stop" /\ req[r].force

Truth ==
    /\ \A v \in VMs : Settled(v) => Tells(v, row[v])
    /\ \A r \in Requests, v \in VMs : pc[r] = "acted" => Tells(v, want[r][v])
    /\ \A r \in Requests : Meant(r)

\* A step of r that changes no row and no domain, and holds no status of a VM
\* when it has acted.
LEMMA TruthQuiet ==
    ASSUME SerialInv, TypeInv', Truth, NEW r \in Requests, pc[r] # "acted",
           UNCHANGED <<row, domain>>, Meant(r)',
           \A q \in Requests \ {r} : /\ pc'[q] = pc[q] /\ req'[q] = req[q]
                                     /\ want'[q] = want[q],
           pc'[r] = "acted" => \A v \in VMs : want'[r][v] = "unread"
    PROVE  Truth'
<1>1. \A q \in Requests \ {r} : Meant(q)'
  BY DEF Truth, Meant
<1>2. \A v \in VMs : Settled(v)' => Settled(v)
  BY DEF Settled
<1>3. \A v \in VMs : \A s : Tells(v, s)' <=> Tells(v, s)
  BY DEF Tells
<1>4. \A v \in VMs : Tells(v, "unread")'
  BY DEF Tells, Told
<1>5. \A v \in VMs : (Settled(v) => Tells(v, row[v]))'
  BY <1>2, <1>3 DEF Truth
<1>6. \A q \in Requests, v \in VMs : (pc[q] = "acted" => Tells(v, want[q][v]))'
  BY <1>3, <1>4 DEF Truth
<1> QED BY <1>1, <1>5, <1>6 DEF Truth

\* A step by which r acts on the domains of the VMs whose status it holds, or
\* leaves their power as it is.
LEMMA TruthActs ==
    ASSUME SerialInv, TypeInv', Truth, NEW r \in Requests,
           pc[r] \in {"admitted", "read"}, Goto(r, "acted"), UNCHANGED <<row, req>>,
           \A q \in Requests \ {r} : want'[q] = want[q],
           \A v \in VMs : want'[r][v] # "unread" => Tells(v, want[r][v])',
           \A v \in VMs : want'[r][v] = "unread" => domain'[v] = domain[v]
    PROVE  Truth'
<1>1. \A q \in Requests \ {r} : pc[q] = "idle"
  BY Alone
<1>2. pc' = [pc EXCEPT ![r] = "acted"] /\ r \in DOMAIN pc
  BY DEF Goto, SerialInv, TypeInv, TypeOK
<1>3. \A q \in Requests : pc'[q] = IF q = r THEN "acted" ELSE "idle"
  BY <1>1, <1>2 DEF SerialInv, TypeInv, TypeOK
<1>4. \A v \in VMs : Settled(v)
  BY <1>1 DEF Settled
<1>5. ASSUME NEW v \in VMs, Settled(v)' PROVE Tells(v, row[v])'
  <2>1. want'[r][v] = "unread"
    BY <1>3, <1>5 DEF Settled
  <2> QED BY <1>4, <2>1 DEF Truth, Tells
<1>6. ASSUME NEW v \in VMs PROVE Tells(v, want[r][v])'
  BY DEF Tells, Told
<1>7. \A q \in Requests : Meant(q)'
  BY <1>3 DEF Truth, Meant
<1>8. \A q \in Requests, v \in VMs : (pc[q] = "acted" => Tells(v, want[q][v]))'
  BY <1>3, <1>6
<1> QED BY <1>5, <1>7, <1>8 DEF Truth

\* What a power action that finds the status it requires does to the domain.
LEMMA ActTells ==
    ASSUME SerialInv, SerialInv', Truth, NEW r \in Requests, Act(r)
    PROVE  Truth'
<1>v. PICK v \in VMs, op \in PowerActions : v = req[r].on /\ op = req[r].op
  BY Aim DEF Act, SerialInv, VMOps
<1>0. /\ pc[r] = "read" /\ v \in Rows
      /\ domain \in [VMs -> Domains] /\ req[r].force \in BOOLEAN
      /\ want \in [Requests -> [Rows -> Statuses \cup {"unread"}]]
      /\ Goto(r, "acted") /\ UNCHANGED <<row, req>> /\ TypeInv' /\ TypeInv
  BY <1>v, Aim DEF Act, SerialInv, TypeInv, TypeOK, Rows
<1>1. Settled(v)
  BY <1>0, Alone DEF Settled
<1>2. Tells(v, row[v]) /\ Meant(r)
  BY <1>0, <1>1 DEF Truth
<1>3. \A u \in VMs \ {v} : want[r][u] = "unread"
  BY <1>v, <1>0 DEF SerialInv, Faithful, VMOps, Rows
<1>4. ASSUME ~Refused(v, op)
      PROVE  LET e == After(domain[v], op, req[r].force)
                 s == Resulting(op)
             IN  /\ e.power = PowerOf(s) \/ (s = "stopped" /\ e.closing)
                 /\ s \in {"running", "paused"} => ~e.closing
  <2>1. PICK b \in BOOLEAN, p \in Powers, c \in BOOLEAN :
          domain[v] = [defined |-> b, power |-> p, closing |-> c]
    BY <1>0 DEF Domains
  <2>2. CASE op = "start"
    BY <2>1, <2>2 DEF After, Resulting, PowerOf
  <2>3. CASE op = "stop"
    BY <1>0, <2>1, <2>3 DEF After, Resulting, PowerOf
  <2>4. CASE op \in {"pause", "reboot", "reset"}
    <3>1. row[v] = "running"
      BY <1>v, <1>0, <1>2, <2>4 DEF Meant, Required
    <3>2. domain[v].power = "running" /\ ~domain[v].closing
      BY <1>2, <3>1 DEF Tells, Told, PowerOf
    <3> QED BY <2>1, <2>4, <3>2 DEF After, Resulting, PowerOf
  <2>5. CASE op = "resume"
    <3>1. row[v] = "paused"
      BY <1>v, <1>0, <1>2, <2>5 DEF Meant, Required
    <3>2. ~domain[v].closing
      BY <1>2, <3>1 DEF Tells
    <3> QED BY <2>1, <2>5, <3>2 DEF After, Resulting, PowerOf
  <2> QED BY <1>0, <2>2, <2>3, <2>4, <2>5 DEF PowerActions
<1>5. CASE ~Refused(v, op) /\ Hold(r, v, Resulting(op))
           /\ domain' = [domain EXCEPT ![v] = After(@, op, req[r].force)]
  <2>1. domain'[v] = After(domain[v], op, req[r].force) /\ want'[r][v] = Resulting(op)
    BY <1>0, <1>5 DEF Hold
  <2>2. Tells(v, want[r][v])'
    BY <1>4, <1>5, <2>1 DEF Tells
  <2>3. \A u \in VMs \ {v} : want'[r][u] = "unread" /\ domain'[u] = domain[u]
    BY <1>0, <1>3, <1>5 DEF Hold, Rows
  <2>4. want'[r][v] # "unread"
    BY <2>1 DEF Resulting
  <2>5. \A q \in Requests \ {r} : want'[q] = want[q]
    BY <1>0, <1>5 DEF Hold
  <2> QED BY <1>0, <2>2, <2>3, <2>4, <2>5, TruthActs
<1>6. CASE Hold(r, v, "error") /\ UNCHANGED domain
  <2>1. Tells(v, want[r][v])'
    BY <1>0, <1>6 DEF Hold, Tells, Told
  <2>2. \A u \in VMs \ {v} : want'[r][u] = "unread"
    BY <1>0, <1>3, <1>6 DEF Hold, Rows
  <2>3. \A q \in Requests \ {r} : want'[q] = want[q]
    BY <1>0, <1>6 DEF Hold
  <2> QED BY <1>0, <1>6, <2>1, <2>2, <2>3, TruthActs
<1> QED BY <1>v, <1>5, <1>6 DEF Act

\* The end of r: what was loaded is still so, hence a commit is rejected only if
\* it inserts a row, and one that succeeds shows what its session holds.
LEMMA TruthDone ==
    ASSUME SerialInv, SerialInv', Truth, NEW r \in Requests,
           Commit(r) \/ (Rollback(r) /\ Rejected(r))
    PROVE  Truth'
<1>0. /\ pc[r] = "acted" /\ Done(r) /\ UNCHANGED domain
      /\ SessionOK(r) /\ Faithful(r) /\ WellAimed(r)
      /\ DOMAIN pc = Requests /\ TypeInv /\ TypeInv'
      /\ VMs \subseteq Rows
  BY DEF Commit, Rollback, SerialInv, TypeInv, TypeOK, Rows
<1>1. \A q \in Requests : pc'[q] = "idle"
  BY <1>0, Alone DEF Done, Goto
<1>2. \A v \in VMs : want[r][v] = "unread" => Settled(v)
  BY <1>0, Alone DEF Settled
<1>3. ASSUME NEW v \in VMs PROVE Tells(v, row'[v])
  <2>1. CASE want[r][v] = "unread"
    <3>1. Tells(v, row[v])
      BY <1>2, <2>1 DEF Truth
    <3>2. v \notin Changes(r)
      BY <1>0, <2>1 DEF Changes, SessionOK
    <3>3. row'[v] = row[v] \/ row'[v] = "gone"
      BY <1>0, <3>2 DEF Commit, Rollback, Written
    <3> QED BY <3>1, <3>3 DEF Tells, Told
  <2>2. CASE want[r][v] # "unread" /\ Commit(r)
    <3>1. Tells(v, want[r][v])
      BY <1>0 DEF Truth
    <3>2. CASE v \in Changes(r)
      <4>1. row'[v] = want[r][v] \/ row'[v] = "gone"
        BY <1>0, <2>2, <3>2 DEF Commit, Written
      <4> QED BY <3>1, <4>1 DEF Tells, Told
    <3>3. CASE v \notin Changes(r)
      <4>1. row'[v] = row[v] \/ row'[v] = "gone"
        BY <1>0, <2>2, <3>3 DEF Commit, Written
      <4>2. seen[r][v] = want[r][v]
        BY <1>0, <3>3 DEF Changes
      <4>3. CASE req[r].op \notin Creations
        BY <1>0, <2>2, <3>1, <4>1, <4>2, <4>3 DEF Faithful, Tells, Told
      <4>4. CASE req[r].op \in Creations
        <5>1. v = req[r].on
          BY <1>0, <2>2, <4>4 DEF SessionOK
        <5>2. row[v] = "absent"
          BY <1>0, <4>4, <5>1 DEF Faithful
        <5> QED BY <4>1, <5>2 DEF Tells, Told
      <4> QED BY <4>3, <4>4
    <3> QED BY <3>2, <3>3
  <2>3. CASE want[r][v] # "unread" /\ Rollback(r) /\ Rejected(r)
    <3>1. row'[v] = row[v]
      BY <2>3 DEF Rollback
    <3>2. CASE req[r].op \in Creations
      <4>1. v = req[r].on /\ row[v] = "absent"
        BY <1>0, <2>3, <3>2 DEF SessionOK, Faithful
      <4> QED BY <3>1, <4>1 DEF Tells, Told
    <3>3. CASE req[r].op \notin Creations
      <4>1. PICK x \in Changes(r) : row[x] = "gone"
        BY <2>3, <3>3 DEF Rejected, Creations
      <4>2. x \in Rows /\ seen[r][x] # "unread" /\ seen[r][x] = row[x]
        BY <1>0, <3>3, <4>1 DEF Changes, SessionOK, Faithful
      <4> QED BY <1>0, <3>3, <4>1, <4>2 DEF SessionOK, NoRow
    <3> QED BY <3>2, <3>3
  <2> QED BY <2>1, <2>2, <2>3
<1>4. \A v \in VMs : \A s : Tells(v, s)' <=> Tells(v, s)
  BY <1>0 DEF Tells
<1>5. \A v \in VMs : Tells(v, row[v])'
  BY <1>0, <1>3 DEF Tells
<1>6. \A q \in Requests : Meant(q)'
  BY <1>1 DEF Meant
<1> QED BY <1>1, <1>5, <1>6 DEF Truth

\* A guest goes down only when it was asked to.
LEMMA TruthGuest ==
    ASSUME SerialInv, Truth, NEW v \in VMs, GuestDown(v), "guest" \notin Env
    PROVE  Truth'
<1>1. domain[v].closing /\ domain \in [VMs -> Domains]
  BY DEF GuestDown, SerialInv, TypeInv, TypeOK
<1>2. UNCHANGED <<row, pc, req, seen, want>>
      /\ domain'[v].power = "off" /\ \A u \in VMs \ {v} : domain'[u] = domain[u]
  BY <1>1 DEF GuestDown, requestVars, Domains
<1>3. ASSUME NEW u \in VMs, NEW s, Tells(u, s) PROVE Tells(u, s)'
  <2>1. CASE u = v
    <3>1. s \notin {"running", "paused"}
      BY <1>1, <1>3, <2>1 DEF Tells
    <3> QED BY <1>2, <2>1, <3>1 DEF Tells, Told, PowerOf
  <2>2. CASE u # v
    BY <1>2, <1>3, <2>2 DEF Tells
  <2> QED BY <2>1, <2>2
<1>4. \A u \in VMs : (Settled(u) => Tells(u, row[u]))'
  <2> SUFFICES ASSUME NEW u \in VMs, Settled(u)' PROVE Tells(u, row[u])'
    OBVIOUS
  <2>1. Settled(u) /\ Tells(u, row[u])
    BY <1>2 DEF Settled, Truth
  <2> QED BY <1>2, <1>3, <2>1 DEF Tells
<1>5. \A q \in Requests, u \in VMs : (pc[q] = "acted" => Tells(u, want[q][u]))'
  BY <1>2, <1>3 DEF Truth, Tells
<1>6. \A q \in Requests : Meant(q)'
  BY <1>2 DEF Truth, Meant
<1> QED BY <1>4, <1>5, <1>6 DEF Truth

\* Nothing happens between requests, or behind the back of libvirt.
Quiet == Env \cap {"overlap", "force", "guest", "lost_commit"} = {}

LEMMA TruthStep ==
    ASSUME Quiet
    PROVE  SerialInv /\ Truth /\ [Next]_vars => Truth'
<1> SUFFICES ASSUME SerialInv, Truth, [Next]_vars PROVE Truth'
  OBVIOUS
<1>a. /\ TypeInv /\ TypeInv' /\ SerialInv'
      /\ DOMAIN pc = Requests /\ DOMAIN req = Requests
      /\ domain \in [VMs -> Domains]
      /\ want \in [Requests -> [Rows -> Statuses \cup {"unread"}]]
      /\ VMs \subseteq Rows /\ Tenants \subseteq Rows
      /\ \A r \in Requests : SessionOK(r) /\ Faithful(r) /\ Meant(r)
  BY TypeStep, SerialStep DEF SerialInv, TypeInv, TypeOK, Rows, Quiet, Truth
<1>b. \A r \in Requests : pc[r] = "admitted" => \A x \in Rows : want[r][x] = "unread"
  BY <1>a DEF SessionOK, Unread
<1>1. ASSUME NEW r \in Requests, NEW op, NEW x, NEW force, Admit(r, op, x, force)
      PROVE  Truth'
  <2>1. /\ pc[r] = "idle" /\ pc'[r] = "admitted"
        /\ req'[r] = [op |-> op, on |-> x, force |-> force]
    BY <1>1, <1>a DEF Admit, Goto
  <2>2. Meant(r)'
    BY <1>1, <2>1 DEF Admit, Offered, Quiet, Meant
  <2> QED BY <1>1, <1>a, <2>1, <2>2, TruthQuiet DEF Admit, Goto
<1>2. ASSUME NEW r \in Requests, Refuse(r) PROVE Truth'
  <2>1. Meant(r)'
    BY <1>2, <1>a DEF Refuse, Done, Goto, Meant
  <2> QED BY <1>2, <1>a, <2>1, TruthQuiet DEF Refuse, Done, Goto
<1>3. ASSUME NEW r \in Requests, LoadVM(r) PROVE Truth'
  <2>1. Meant(r)'
    BY <1>3, <1>a DEF LoadVM, Grants, Goto, Meant
  <2> QED BY <1>3, <1>a, <2>1, TruthQuiet DEF LoadVM, Load, Goto
<1>4. ASSUME NEW r \in Requests, Act(r) PROVE Truth'
  BY <1>4, <1>a, ActTells
<1>5. ASSUME NEW r \in Requests, Destroy(r) PROVE Truth'
  <2>1. req[r].op = "delete" /\ pc[r] = "read" /\ req[r].on \in VMs /\ Goto(r, "acted")
        /\ UNCHANGED <<row, req>> /\ Hold(r, req[r].on, "deleted")
    BY <1>5, <1>a, Aim DEF Destroy, VMOps
  <2>2. \A v \in VMs \ {req[r].on} :
          want'[r][v] = "unread" /\ domain'[v] = domain[v]
    BY <1>5, <1>a, <2>1 DEF Destroy, Hold, Faithful, VMOps
  <2>3. want'[r][req[r].on] = "deleted"
    BY <1>a, <2>1 DEF Hold
  <2>4. \A v \in VMs : want'[r][v] # "unread" => Tells(v, want[r][v])'
    BY <2>2, <2>3 DEF Tells, Told
  <2> QED BY <1>a, <2>1, <2>2, <2>3, <2>4, TruthActs DEF Hold
<1>6. ASSUME NEW r \in Requests, Provision(r) PROVE Truth'
  <2>1. /\ req[r].op = "create" /\ pc[r] = "admitted" /\ req[r].on \in VMs
        /\ Goto(r, "acted") /\ UNCHANGED <<row, req>>
    BY <1>6, <1>a, Aim DEF Provision, VMOps
  <2>2. PICK s \in {"running", "error"} :
          /\ Add(r, req[r].on, s)
          /\ s = "running" =>
               domain' = [domain EXCEPT ![req[r].on] =
                            [defined |-> TRUE, power |-> "running", closing |-> FALSE]]
    BY <1>6 DEF Provision
  <2>3. \A v \in VMs \ {req[r].on} :
          want'[r][v] = "unread" /\ domain'[v] = domain[v]
    BY <1>6, <1>a, <1>b, <2>1, <2>2 DEF Provision, Add, Hold
  <2>4. want'[r][req[r].on] = s
    BY <1>a, <2>1, <2>2 DEF Add, Hold
  <2>5. Tells(req[r].on, s)'
    BY <1>a, <2>1, <2>2 DEF Tells, Told, PowerOf
  <2>6. \A v \in VMs : want'[r][v] # "unread" => Tells(v, want[r][v])'
    BY <2>1, <2>3, <2>4, <2>5 DEF Tells
  <2> QED BY <1>a, <2>1, <2>2, <2>3, <2>4, <2>6, TruthActs DEF Add, Hold
<1>7. ASSUME NEW r \in Requests, Onboard(r) \/ Reinstate(r) PROVE Truth'
  <2>1. /\ pc[r] = "admitted" /\ req[r].on \in Tenants /\ Goto(r, "acted")
        /\ UNCHANGED <<row, domain, req>> /\ Hold(r, req[r].on, "active")
    BY <1>7, <1>a, Aim DEF Onboard, Reinstate, Add, TenantOps
  <2>2. \A v \in VMs : want'[r][v] = "unread"
    BY <1>a, <1>b, <2>1, RowsAssumption DEF Hold
  <2> QED BY <1>a, <2>1, <2>2, TruthActs DEF Hold
<1>8. ASSUME NEW r \in Requests, LoadTenant(r) PROVE Truth'
  <2>1. Meant(r)'
    BY <1>8, <1>a DEF LoadTenant, Goto, Meant
  <2> QED BY <1>8, <1>a, <2>1, TruthQuiet DEF LoadTenant, Load, Goto
<1>9. ASSUME NEW r \in Requests, SelectVMs(r) PROVE Truth'
  <2>1. Meant(r)'
    BY <1>9, <1>a DEF SelectVMs, Goto, Meant, PowerActions
  <2> QED BY <1>9, <1>a, <2>1, TruthQuiet DEF SelectVMs, Load, Goto
<1>10. ASSUME NEW r \in Requests, StopAll(r) PROVE Truth'
  <2> DEFINE loaded == {v \in VMs : seen[r][v] # "unread"}
  <2>1. PICK failing \in SUBSET loaded :
          /\ domain' = [v \in VMs |-> IF v \in loaded \ failing
                                      THEN After(domain[v], "stop", TRUE)
                                      ELSE domain[v]]
          /\ want' = [want EXCEPT ![r] =
                        [x \in Rows |-> IF x = req[r].on THEN "suspended"
                                        ELSE IF x \in failing THEN "error"
                                        ELSE IF x \in loaded THEN "stopped"
                                        ELSE want[r][x]]]
    BY <1>10 DEF StopAll
  <2>2. /\ pc[r] = "read" /\ req[r].on \in Tenants /\ Goto(r, "acted")
        /\ UNCHANGED <<row, req>>
    BY <1>10, <1>a, Aim DEF StopAll, TenantOps
  <2>3. \A v \in VMs : want'[r][v] = IF v \in failing THEN "error"
                                     ELSE IF v \in loaded THEN "stopped"
                                     ELSE "unread"
    BY <1>a, <2>1, <2>2, RowsAssumption DEF SessionOK
  <2>4. \A v \in VMs : want'[r][v] = "stopped" =>
          domain'[v].power = "off" /\ ~domain'[v].closing
    <3> SUFFICES ASSUME NEW v \in VMs, want'[r][v] = "stopped"
                 PROVE  domain'[v].power = "off" /\ ~domain'[v].closing
      OBVIOUS
    <3>1. v \in loaded \ failing
      BY <2>3
    <3>2. domain'[v] = After(domain[v], "stop", TRUE)
      BY <2>1, <3>1
    <3> QED BY <1>a, <3>2 DEF After, Domains
  <2>5. \A v \in VMs : want'[r][v] # "unread" => Tells(v, want[r][v])'
    BY <2>3, <2>4 DEF Tells, Told, PowerOf
  <2>6. ASSUME NEW v \in VMs, want'[r][v] = "unread" PROVE domain'[v] = domain[v]
    <3>1. v \notin loaded \ failing
      BY <2>3, <2>6
    <3> QED BY <2>1, <3>1
  <2> QED BY <1>a, <2>1, <2>2, <2>5, <2>6, TruthActs
<1>11. ASSUME NEW r \in Requests, CountVMs(r) PROVE Truth'
  <2>1. /\ pc[r] = "loaded" /\ req[r].op = "remove" /\ Goto(r, "acted")
        /\ req[r].on \in Tenants
        /\ UNCHANGED <<row, domain, req>> /\ Hold(r, req[r].on, "gone")
    BY <1>11, <1>a, Aim DEF CountVMs, TenantOps
  <2>2. \A v \in VMs : want'[r][v] = "unread"
    BY <1>a, <2>1, RowsAssumption DEF Hold, SessionOK
  <2>3. Meant(r)'
    BY <1>a, <2>1 DEF Goto, Meant
  <2> QED BY <1>a, <2>1, <2>2, <2>3, TruthQuiet DEF Hold, Goto
<1>12. ASSUME NEW r \in Requests, Commit(r) \/ Rollback(r) PROVE Truth'
  BY <1>12, <1>a, TruthDone DEF Rollback, Quiet
<1>13. ASSUME NEW v \in VMs, GuestDown(v) PROVE Truth'
  BY <1>13, TruthGuest DEF Quiet
<1>14. CASE UNCHANGED vars
  BY <1>14 DEF vars, requestVars, Truth, Tells, Settled, Meant
<1> QED
  BY <1>1, <1>2, <1>3, <1>4, <1>5, <1>6, <1>7, <1>8, <1>9, <1>10, <1>11, <1>12,
     <1>13, <1>14 DEF Next, Handle

\* The status of a VM tells the state of its domain when requests come one at a
\* time, only stop is forced, no guest stops by itself and every commit is made:
\* what perform_action, create and suspend_tenant write is what libvirt did.
THEOREM StatusesTell ==
    ASSUME Quiet
    PROVE  Spec => []StatusTells
<1>1. Init => Truth
  BY DEF Init, Truth, Settled, Tells, Told, Meant, Rows
<1>2. Truth => StatusTells
  BY DEF Truth, Tells, Told, StatusTells
<1>3. SerialInv /\ [Next]_vars => SerialInv'
  BY SerialStep DEF Quiet
<1>4. SerialInv /\ Truth /\ [Next]_vars => Truth'
  BY TruthStep
<1> QED BY SerialInit, <1>1, <1>2, <1>3, <1>4, PTL DEF Spec

-----------------------------------------------------------------------------
(* A suspended tenant shows no VM that runs *)

\* What request r relies on: its user's tenant is active; the VMs that a
\* suspension has not loaded do not run; what it holds for the others.
Suspending(r) ==
    /\ pc[r] # "idle" /\ req[r].op \in VMOps => row[TenantOf[req[r].on]] = "active"
    /\ pc[r] \in {"read", "acted"} /\ req[r].op = "suspend" =>
         \A v \in VMsOf(req[r].on) :
           row[v] \in {"running", "paused"} => seen[r][v] # "unread"
    /\ pc[r] = "acted" /\ req[r].op = "suspend" =>
         \A v \in VMs : want[r][v] \in {"unread", "stopped", "error"}
    /\ pc[r] = "acted" /\ req[r].op \in {"reinstate", "onboard"} =>
         want[r][req[r].on] = "active"

SuspendInv == SuspendedShowsStopped /\ \A r \in Requests : Suspending(r)

\* A step of r that changes no row.
LEMMA SuspendGo ==
    ASSUME SerialInv, SerialInv', SuspendInv, NEW r \in Requests, pc'[r] # "idle",
           UNCHANGED row, Suspending(r)'
    PROVE  SuspendInv'
<1>1. \A q \in Requests \ {r} : pc'[q] = "idle"
  BY DEF SerialInv, Serial
<1> QED BY <1>1 DEF SuspendInv, SuspendedShowsStopped, Suspending

\* r ends; the commit of a request on a VM leaves its tenant active, that of a
\* suspension covers every VM that runs, and the others leave no VM behind.
LEMMA SuspendDone ==
    ASSUME SerialInv, SerialInv', SuspendInv, NEW r \in Requests, pc[r] # "idle",
           Done(r), UNCHANGED row \/ Commit(r)
    PROVE  SuspendInv'
<1>0. /\ TypeInv /\ DOMAIN pc = Requests
      /\ VMs \subseteq Rows /\ Tenants \subseteq Rows
      /\ SessionOK(r) /\ Faithful(r) /\ Suspending(r) /\ WellAimed(r)
  BY DEF SerialInv, TypeInv, TypeOK, Rows, SuspendInv
<1>1. \A q \in Requests : pc'[q] = "idle"
  BY <1>0, Alone DEF Done, Goto
<1>2. CASE UNCHANGED row
  BY <1>1, <1>2 DEF SuspendInv, SuspendedShowsStopped, Suspending
<1>3. ASSUME Commit(r), NEW v \in VMs, row'[TenantOf[v]] = "suspended",
             row'[v] \in {"running", "paused"}
      PROVE  FALSE
  <2> DEFINE t == TenantOf[v]
  <2>0. /\ t \in Tenants /\ t \in Rows /\ t \notin VMs /\ v \in Rows
        /\ pc[r] = "acted" /\ row' = Written(r)
    BY <1>0, <1>3, TenantOfAssumption, RowsAssumption DEF Commit
  <2>1. v \notin Cascaded(r) /\ t \notin Cascaded(r)
    BY <1>3, <2>0 DEF Written, Cascaded, VMsOf
  <2>2. /\ row'[v] = IF v \in Changes(r) THEN want[r][v] ELSE row[v]
        /\ row'[t] = IF t \in Changes(r) THEN want[r][t] ELSE row[t]
    BY <2>0, <2>1 DEF Written
  <2>3. t # req[r].on => row[t] = "suspended"
    BY <1>0, <1>3, <2>0, <2>2 DEF Changes, Faithful, SessionOK
  <2>4. row[t] = "suspended" => row[v] \notin {"running", "paused"}
    BY <1>0 DEF SuspendInv, SuspendedShowsStopped
  <2>5. CASE req[r].op \in VMOps
    <3>1. req[r].on \in VMs
      BY <1>0, <2>0, <2>5, Aim
    <3>2. row[t] = "suspended"
      BY <2>0, <2>3, <3>1
    <3>3. v # req[r].on
      BY <1>0, <2>0, <2>5, <3>2 DEF Suspending
    <3>4. v \notin Changes(r)
      BY <1>0, <2>0, <2>5, <3>3 DEF Changes, Faithful, SessionOK
    <3> QED BY <1>3, <2>2, <2>4, <3>2, <3>4
  <2>6. CASE req[r].op = "suspend"
    <3>1. want[r][v] \in {"unread", "stopped", "error"}
      BY <1>0, <2>0, <2>6 DEF Suspending
    <3>2. v \notin Changes(r)
      BY <1>0, <1>3, <2>2, <3>1 DEF Changes, SessionOK
    <3>3. row[v] \in {"running", "paused"} /\ want[r][v] = seen[r][v]
      BY <1>3, <2>0, <2>2, <3>2 DEF Changes
    <3>4. t = req[r].on
      BY <2>3, <2>4, <3>3
    <3>5. seen[r][v] # "unread"
      BY <1>0, <2>0, <2>6, <3>3, <3>4 DEF Suspending, VMsOf
    <3> QED BY <1>0, <2>0, <2>6, <3>1, <3>3, <3>5 DEF Faithful, Creations
  <2>7. CASE req[r].op \in {"onboard", "reinstate", "remove"}
    <3>1. want[r][v] = "unread"
      BY <1>0, <2>0, <2>7 DEF Faithful, TenantOps
    <3>2. v \notin Changes(r)
      BY <1>0, <2>0, <3>1 DEF Changes, SessionOK
    <3>3. t = req[r].on
      BY <1>3, <2>2, <2>3, <2>4, <3>2
    <3>4. CASE req[r].op = "remove"
      BY <1>3, <2>1, <2>2, <3>2, <3>3, <3>4 DEF Cascaded, VMsOf
    <3>5. CASE req[r].op \in {"onboard", "reinstate"}
      <4>1. want[r][t] = "active"
        BY <1>0, <2>0, <3>3, <3>5 DEF Suspending
      <4>2. t \notin Changes(r) /\ row[t] = "suspended" /\ seen[r][t] = "active"
        BY <1>3, <2>0, <2>2, <4>1 DEF Changes
      <4> QED BY <1>0, <2>0, <3>3, <3>5, <4>2 DEF Faithful, Creations
    <3> QED BY <2>7, <3>4, <3>5
  <2> QED BY <1>0, <2>0, <2>5, <2>6, <2>7 DEF WellAimed, TenantOps
<1>4. CASE Commit(r)
  BY <1>1, <1>3, <1>4 DEF SuspendInv, SuspendedShowsStopped, Suspending
<1> QED BY <1>2, <1>4

LEMMA SuspendStep ==
    ASSUME Env \cap {"overlap", "msp"} = {}
    PROVE  SerialInv /\ SuspendInv /\ [Next]_vars => SuspendInv'
<1> SUFFICES ASSUME SerialInv, SuspendInv, [Next]_vars PROVE SuspendInv'
  OBVIOUS
<1>a. /\ TypeInv /\ SerialInv'
      /\ DOMAIN pc = Requests /\ DOMAIN req = Requests
      /\ want \in [Requests -> [Rows -> Statuses \cup {"unread"}]]
      /\ seen \in [Requests -> [Rows -> Statuses \cup {"unread"}]]
      /\ VMs \subseteq Rows /\ Tenants \subseteq Rows
      /\ \A r \in Requests : SessionOK(r) /\ Faithful(r) /\ Suspending(r)
  BY SerialStep DEF SerialInv, TypeInv, TypeOK, Rows, SuspendInv
<1>1. ASSUME NEW r \in Requests, NEW op, NEW x, NEW force, Admit(r, op, x, force)
      PROVE  SuspendInv'
  <2>1. /\ pc'[r] = "admitted"
        /\ req'[r] = [op |-> op, on |-> x, force |-> force]
    BY <1>1, <1>a DEF Admit, Goto
  <2>2. op \in VMOps => row[TenantOf[x]] = "active"
    BY <1>1 DEF Admit, Admitting, TenantStatus
  <2>3. Suspending(r)'
    BY <1>1, <2>1, <2>2 DEF Admit, Suspending
  <2> QED BY <1>1, <1>a, <2>1, <2>3, SuspendGo DEF Admit
<1>2. ASSUME NEW r \in Requests, Refuse(r) \/ Commit(r) \/ Rollback(r)
      PROVE  SuspendInv'
  BY <1>2, <1>a, SuspendDone DEF Refuse, Commit, Rollback
<1>3. ASSUME NEW r \in Requests,
             LoadVM(r) \/ LoadTenant(r) \/ Act(r) \/ Destroy(r) \/ Provision(r)
             \/ CountVMs(r)
      PROVE  SuspendInv'
  <2>1. /\ UNCHANGED <<row, req>> /\ pc[r] # "idle"
        /\ pc'[r] # "idle" /\ (pc'[r] = "acted" => req[r].op \in VMOps \cup {"remove"})
        /\ (pc'[r] = "read" => req[r].op \in VMOps)
    BY <1>3, <1>a
       DEF LoadVM, LoadTenant, Act, Destroy, Provision, CountVMs, Goto, VMOps
  <2>2. Suspending(r)'
    BY <1>a, <2>1 DEF Suspending, VMOps, PowerActions
  <2> QED BY <1>a, <2>1, <2>2, SuspendGo
<1>4. ASSUME NEW r \in Requests, Onboard(r) \/ Reinstate(r) PROVE SuspendInv'
  <2>1. /\ UNCHANGED <<row, req>> /\ pc'[r] = "acted" /\ pc[r] = "admitted"
        /\ req[r].op \in {"onboard", "reinstate"} /\ Hold(r, req[r].on, "active")
        /\ req[r].on \in Rows
    BY <1>4, <1>a, Aim DEF Onboard, Reinstate, Add, Goto
  <2>2. want'[r][req[r].on] = "active"
    BY <1>a, <2>1 DEF Hold
  <2>3. Suspending(r)'
    BY <1>a, <2>1, <2>2 DEF Suspending, VMOps, PowerActions
  <2> QED BY <1>a, <2>1, <2>3, SuspendGo
<1>5. ASSUME NEW r \in Requests, SelectVMs(r) PROVE SuspendInv'
  <2>1. /\ UNCHANGED <<row, req>> /\ pc'[r] = "read" /\ pc[r] = "loaded"
        /\ req[r].op = "suspend" /\ Load(r, ToStop(req[r].on))
    BY <1>5, <1>a DEF SelectVMs, Goto
  <2>2. ASSUME NEW v \in VMsOf(req[r].on), row[v] \in {"running", "paused"}
        PROVE  seen'[r][v] # "unread"
    BY <1>a, <2>1, <2>2 DEF Load, ToStop, VMsOf
  <2>3. Suspending(r)'
    BY <1>a, <2>1, <2>2 DEF Suspending, VMOps, PowerActions, VMsOf
  <2> QED BY <1>a, <2>1, <2>3, SuspendGo
<1>6. ASSUME NEW r \in Requests, StopAll(r) PROVE SuspendInv'
  <2>1. /\ UNCHANGED <<row, req, seen>> /\ pc'[r] = "acted" /\ pc[r] = "read"
        /\ req[r].op = "suspend" /\ req[r].on \in Tenants
    BY <1>6, <1>a, Aim DEF StopAll, Goto, TenantOps
  <2>2. ASSUME NEW v \in VMs PROVE want'[r][v] \in {"unread", "stopped", "error"}
    BY <1>6, <1>a, <2>1, RowsAssumption DEF StopAll, SessionOK
  <2>3. Suspending(r)'
    BY <1>a, <2>1, <2>2 DEF Suspending, VMOps, PowerActions
  <2> QED BY <1>a, <2>1, <2>3, SuspendGo
<1>7. ASSUME UNCHANGED <<row, requestVars>> PROVE SuspendInv'
  BY <1>7 DEF requestVars, SuspendInv, SuspendedShowsStopped, Suspending
<1> QED
  BY <1>1, <1>2, <1>3, <1>4, <1>5, <1>6, <1>7
     DEF Next, Handle, GuestDown, vars, requestVars

\* While a tenant is suspended none of its VMs shows as running or paused:
\* suspend_tenant stops them or marks them in error, and _get_current_user keeps
\* its users away, if requests come one at a time and MSP admins stay away too.
THEOREM SuspendedVMsStopped ==
    ASSUME Env \cap {"overlap", "msp"} = {}
    PROVE  Spec => []SuspendedShowsStopped
<1>1. Init => SuspendInv
  BY TenantOfAssumption
     DEF Init, SuspendInv, SuspendedShowsStopped, Suspending, Rows
<1>2. SuspendInv => SuspendedShowsStopped
  BY DEF SuspendInv
<1>3. SerialInv /\ [Next]_vars => SerialInv'
  BY SerialStep
<1>4. SerialInv /\ SuspendInv /\ [Next]_vars => SuspendInv'
  BY SuspendStep
<1> QED BY SerialInit, <1>1, <1>2, <1>3, <1>4, PTL DEF Spec

-----------------------------------------------------------------------------
(* Requests one at a time implement Fleet *)

\* MSP admins stay away too.
Orderly == Quiet /\ "msp" \notin Env

\* What r was granted still holds when it acts, a suspension has loaded the VMs
\* to stop and nothing else, and its session holds what the commit will show.
Granted(r) ==
    LET x == req[r].on
        op == req[r].op
    IN  /\ pc[r] = "loaded" => \A v \in VMs : seen[r][v] = "unread"
        /\ pc[r] = "loaded" /\ op = "remove" => row[x] = "suspended"
        /\ pc[r] = "read" /\ op \in PowerActions => row[x] # "deleted"
        /\ pc[r] = "read" /\ op = "delete" => row[x] # "running"
        /\ pc[r] = "read" /\ op = "suspend" =>
             \A v \in VMs : seen[r][v] # "unread" => v \in ToStop(x)
        /\ pc[r] = "acted" /\ op \in Creations => seen[r][x] = "absent"
        /\ pc[r] = "acted" /\ op = "create" => want[r][x] \in {"running", "error"}
        /\ pc[r] = "acted" /\ op = "remove" => want[r][x] = "gone"

\* The row of a VM goes only with its tenant.
GoneTogether == \A v \in VMs : row[v] = "gone" => row[TenantOf[v]] = "gone"

\* VMs have the statuses of VMs.
VMRows ==
    \A v \in VMs :
      /\ row[v] \in NoRow \cup VMStatus
      /\ \A r \in Requests : want[r][v] \in NoRow \cup VMStatus \cup {"unread"}

FleetInv ==
    /\ SerialInv /\ Truth /\ SuspendInv
    /\ GoneTogether /\ VMRows
    /\ \A r \in Requests : Granted(r)

LEMMA GrantedStep ==
    ASSUME Orderly
    PROVE  FleetInv /\ [Next]_vars => (\A r \in Requests : Granted(r))'
<1> SUFFICES ASSUME FleetInv, [Next]_vars PROVE (\A r \in Requests : Granted(r))'
  OBVIOUS
<1>a. /\ SerialInv /\ TypeInv
      /\ DOMAIN pc = Requests /\ DOMAIN req = Requests
      /\ want \in [Requests -> [Rows -> Statuses \cup {"unread"}]]
      /\ seen \in [Requests -> [Rows -> Statuses \cup {"unread"}]]
      /\ VMs \subseteq Rows /\ Tenants \subseteq Rows
      /\ \A r \in Requests : SessionOK(r) /\ Granted(r)
  BY DEF FleetInv, SerialInv, TypeInv, TypeOK, Rows
<1>b. ASSUME NEW r \in Requests, pc[r] # "idle",
             \A q \in Requests \ {r} : pc'[q] = pc[q], Granted(r)'
      PROVE  (\A q \in Requests : Granted(q))'
  <2>1. \A q \in Requests \ {r} : pc'[q] = "idle"
    BY <1>a, <1>b, Alone
  <2> QED BY <1>b, <2>1 DEF Granted
<1>1. ASSUME NEW r \in Requests, NEW op, NEW x, NEW force, Admit(r, op, x, force)
      PROVE  (\A q \in Requests : Granted(q))'
  <2>1. \A q \in Requests : pc'[q] \in {"idle", "admitted"}
    BY <1>1, <1>a DEF Admit, Goto, FleetInv, SuspendInv, Orderly, Quiet
  <2> QED BY <2>1 DEF Granted
<1>2. ASSUME NEW r \in Requests, Refuse(r) \/ Commit(r) \/ Rollback(r)
      PROVE  (\A q \in Requests : Granted(q))'
  <2>1. /\ pc[r] # "idle" /\ pc'[r] = "idle"
        /\ \A q \in Requests \ {r} : pc'[q] = pc[q]
    BY <1>2, <1>a DEF Refuse, Commit, Rollback, Done, Goto
  <2> QED BY <1>b, <2>1 DEF Granted
<1>3. ASSUME NEW r \in Requests, LoadVM(r) PROVE (\A q \in Requests : Granted(q))'
  <2>1. /\ pc[r] # "idle" /\ pc'[r] = "read" /\ \A q \in Requests \ {r} : pc'[q] = pc[q]
        /\ UNCHANGED <<row, req>> /\ req[r].op \in PowerActions \cup {"delete"}
        /\ Grants(r)
    BY <1>3, <1>a DEF LoadVM, Goto
  <2>2. Granted(r)'
    BY <2>1 DEF Granted, Grants, PowerActions, Creations
  <2> QED BY <1>b, <2>1, <2>2
<1>4. ASSUME NEW r \in Requests, Act(r) \/ Destroy(r) \/ StopAll(r) \/ Reinstate(r)
      PROVE  (\A q \in Requests : Granted(q))'
  <2>1. /\ pc[r] # "idle" /\ pc'[r] = "acted" /\ \A q \in Requests \ {r} : pc'[q] = pc[q]
        /\ UNCHANGED <<row, req>>
        /\ req[r].op \in PowerActions \cup {"delete", "suspend", "reinstate"}
    BY <1>4, <1>a DEF Act, Destroy, StopAll, Reinstate, Goto
  <2>2. Granted(r)'
    BY <2>1 DEF Granted, PowerActions, Creations
  <2> QED BY <1>b, <2>1, <2>2
<1>5. ASSUME NEW r \in Requests, Provision(r) \/ Onboard(r)
      PROVE  (\A q \in Requests : Granted(q))'
  <2>1. /\ pc[r] = "admitted" /\ pc'[r] = "acted"
        /\ \A q \in Requests \ {r} : pc'[q] = pc[q]
        /\ UNCHANGED <<row, req>> /\ req[r].op \in Creations
    BY <1>5, <1>a DEF Provision, Onboard, Goto, Creations
  <2>2. PICK s : /\ Add(r, req[r].on, s)
                 /\ req[r].op = "create" => s \in {"running", "error"}
    BY <1>5 DEF Provision, Onboard
  <2>3. req[r].on \in Rows
    BY <1>a, <2>1, Aim
  <2>4. seen'[r][req[r].on] = "absent" /\ want'[r][req[r].on] = s
    BY <1>a, <2>2, <2>3 DEF Add, Hold
  <2>5. Granted(r)'
    BY <2>1, <2>2, <2>4 DEF Granted, Creations
  <2> QED BY <1>b, <2>1, <2>5
<1>6. ASSUME NEW r \in Requests, LoadTenant(r) PROVE (\A q \in Requests : Granted(q))'
  <2>1. /\ pc[r] = "admitted" /\ pc'[r] = "loaded"
        /\ \A q \in Requests \ {r} : pc'[q] = pc[q]
        /\ UNCHANGED <<row, req>> /\ req[r].op \in {"suspend", "remove"} /\ Grants(r)
        /\ Load(r, {req[r].on})
    BY <1>6, <1>a DEF LoadTenant, Goto
  <2>2. req[r].on \in Tenants /\ seen[r] = Unread
    BY <1>a, <2>1, Aim DEF TenantOps, SessionOK
  <2>3. \A v \in VMs : seen'[r][v] = "unread"
    BY <1>a, <2>1, <2>2, RowsAssumption DEF Load, Unread
  <2>4. Granted(r)'
    BY <2>1, <2>3 DEF Granted, Grants, Creations
  <2> QED BY <1>b, <2>1, <2>4
<1>7. ASSUME NEW r \in Requests, SelectVMs(r) PROVE (\A q \in Requests : Granted(q))'
  <2>1. /\ pc[r] = "loaded" /\ pc'[r] = "read"
        /\ \A q \in Requests \ {r} : pc'[q] = pc[q]
        /\ UNCHANGED <<row, req>> /\ req[r].op = "suspend"
        /\ Load(r, ToStop(req[r].on))
    BY <1>7, <1>a DEF SelectVMs, Goto
  <2>2. \A v \in VMs : seen[r][v] = "unread"
    BY <1>a, <2>1 DEF Granted
  <2>3. \A v \in VMs : seen'[r][v] # "unread" => v \in ToStop(req[r].on)
    BY <1>a, <2>1, <2>2 DEF Load
  <2>4. ToStop(req[r].on)' = ToStop(req[r].on)
    BY <2>1 DEF ToStop
  <2>5. Granted(r)'
    BY <2>1, <2>3, <2>4 DEF Granted, PowerActions, Creations
  <2> QED BY <1>b, <2>1, <2>5
<1>8. ASSUME NEW r \in Requests, CountVMs(r) PROVE (\A q \in Requests : Granted(q))'
  <2>1. /\ pc[r] = "loaded" /\ pc'[r] = "acted"
        /\ \A q \in Requests \ {r} : pc'[q] = pc[q]
        /\ UNCHANGED <<row, req>> /\ req[r].op = "remove" /\ Hold(r, req[r].on, "gone")
        /\ req[r].on \in Rows
    BY <1>8, <1>a, Aim DEF CountVMs, Goto
  <2>2. want'[r][req[r].on] = "gone"
    BY <1>a, <2>1 DEF Hold
  <2>3. Granted(r)'
    BY <2>1, <2>2 DEF Granted, PowerActions, Creations
  <2> QED BY <1>b, <2>1, <2>3
<1>9. ASSUME UNCHANGED <<row, requestVars>> PROVE (\A q \in Requests : Granted(q))'
  BY <1>9, <1>a DEF requestVars, Granted, ToStop
<1> QED
  BY <1>1, <1>2, <1>3, <1>4, <1>5, <1>6, <1>7, <1>8, <1>9
     DEF Next, Handle, GuestDown, vars, requestVars

\* The commit that removes a tenant takes its VMs along, and no other touches a
\* row that is gone.
LEMMA GoneCommit ==
    ASSUME FleetInv, NEW r \in Requests, Commit(r)
    PROVE  GoneTogether'
<1> SUFFICES ASSUME NEW v \in VMs, row'[v] = "gone" PROVE row'[TenantOf[v]] = "gone"
  BY DEF GoneTogether
<1> DEFINE t == TenantOf[v]
<1>0. /\ TypeInv /\ SessionOK(r) /\ Faithful(r) /\ Granted(r) /\ WellAimed(r)
      /\ v \in Rows /\ t \in Tenants /\ t \in Rows /\ t \notin VMs /\ v \notin Tenants
      /\ pc[r] = "acted" /\ row' = Written(r) /\ ~Rejected(r)
  BY TenantOfAssumption, RowsAssumption
     DEF FleetInv, SerialInv, TypeInv, Commit, Rows
<1>1. t \notin Cascaded(r)
  BY <1>0 DEF Cascaded, VMsOf
<1>2. row'[t] = IF t \in Changes(r) THEN want[r][t] ELSE row[t]
  BY <1>0, <1>1 DEF Written
<1>3. CASE v \in Cascaded(r)
  <2>1. req[r].op = "remove" /\ t = req[r].on
    BY <1>3 DEF Cascaded, VMsOf
  <2>2. want[r][t] = "gone" /\ seen[r][t] \notin NoRow
    BY <1>0, <2>1 DEF Granted, SessionOK, Creations
  <2> QED BY <1>0, <1>2, <2>2 DEF Changes, NoRow
<1>4. CASE v \notin Cascaded(r)
  <2>1. v \in Changes(r) => want[r][v] # "gone"
    BY <1>0 DEF SessionOK, WellAimed, VMOps, TenantOps, PowerActions
  <2>2. row[v] = "gone" /\ row[t] = "gone"
    BY <1>0, <1>4, <2>1 DEF Written, FleetInv, GoneTogether
  <2>3. t \notin Changes(r)
    <3> SUFFICES ASSUME t \in Changes(r) PROVE FALSE
      OBVIOUS
    <3>1. want[r][t] # "unread" /\ seen[r][t] # "unread"
      BY <1>0 DEF Changes, SessionOK
    <3>2. t = req[r].on
      BY <1>0, <3>1 DEF Faithful
    <3>3. req[r].op \notin Creations
      BY <1>0, <2>2, <3>2 DEF Faithful
    <3> QED BY <1>0, <2>2, <3>1, <3>3 DEF Faithful, SessionOK, NoRow
  <2> QED BY <1>2, <2>2, <2>3
<1> QED BY <1>3, <1>4

LEMMA VMRowsStep == TypeInv /\ VMRows /\ [Next]_vars => VMRows'
<1> SUFFICES ASSUME TypeInv, VMRows, [Next]_vars PROVE VMRows'
  OBVIOUS
<1>a. /\ VMs \subseteq Rows /\ Tenants \cap VMs = {}
      /\ want \in [Requests -> [Rows -> Statuses \cup {"unread"}]]
      /\ row \in [Rows -> Statuses]
  BY RowsAssumption DEF TypeInv, TypeOK, Rows
<1>b. ASSUME UNCHANGED row, NEW r \in Requests,
             \A q \in Requests \ {r} : want'[q] = want[q],
             \A v \in VMs : want'[r][v] = want[r][v] \/ want'[r][v] = row[v]
                            \/ want'[r][v] \in VMStatus \cup {"unread"}
      PROVE  VMRows'
  BY <1>b DEF VMRows
<1>c. ASSUME UNCHANGED row, NEW r \in Requests, NEW x, NEW s, Hold(r, x, s),
             x \in VMs => s \in VMStatus
      PROVE  VMRows'
  <2>1. \A v \in VMs : want'[r][v] = want[r][v] \/ want'[r][v] \in VMStatus
    BY <1>a, <1>c DEF Hold
  <2> QED BY <1>a, <1>b, <1>c, <2>1 DEF Hold
<1>1. ASSUME UNCHANGED <<row, want>> PROVE VMRows'
  BY <1>1 DEF VMRows
<1>2. ASSUME NEW r \in Requests, Refuse(r) \/ Rollback(r) PROVE VMRows'
  BY <1>2, <1>a, <1>b DEF Refuse, Rollback, Done, Unread
<1>3. ASSUME NEW r \in Requests, LoadVM(r) \/ LoadTenant(r) \/ SelectVMs(r) PROVE VMRows'
  BY <1>3, <1>a, <1>b DEF LoadVM, LoadTenant, SelectVMs, Load
<1>4. ASSUME NEW r \in Requests, Act(r) PROVE VMRows'
  BY <1>4, <1>c DEF Act, Resulting, VMStatus
<1>5. ASSUME NEW r \in Requests, Destroy(r) PROVE VMRows'
  BY <1>5, <1>c DEF Destroy, VMStatus
<1>6. ASSUME NEW r \in Requests, Provision(r) PROVE VMRows'
  BY <1>6, <1>c DEF Provision, Add, VMStatus
<1>7. ASSUME NEW r \in Requests, Onboard(r) \/ Reinstate(r) \/ CountVMs(r) PROVE VMRows'
  <2>1. req[r].on \in Tenants /\ UNCHANGED row /\ \E s : Hold(r, req[r].on, s)
    BY <1>7, Aim DEF Onboard, Reinstate, CountVMs, Add, TenantOps
  <2> QED BY <1>a, <1>c, <2>1
<1>8. ASSUME NEW r \in Requests, StopAll(r) PROVE VMRows'
  <2>1. req[r].on \notin VMs /\ UNCHANGED row
    BY <1>8, <1>a, Aim DEF StopAll, TenantOps
  <2>2. \A v \in VMs : want'[r][v] \in {want[r][v], "error", "stopped"}
    BY <1>8, <1>a, <2>1 DEF StopAll
  <2>3. \A q \in Requests \ {r} : want'[q] = want[q]
    BY <1>8, <1>a DEF StopAll
  <2> QED BY <1>b, <2>1, <2>2, <2>3 DEF VMStatus
<1>9. ASSUME NEW r \in Requests, Commit(r) PROVE VMRows'
  <2>1. \A v \in VMs : row'[v] \in {"gone", want[r][v], row[v]} /\
                       (row'[v] = want[r][v] => want[r][v] # "unread" \/ row'[v] = row[v])
    <3>1. \A v \in Changes(r) : want[r][v] # "unread"
      BY DEF Changes, TypeInv, SessionOK
    <3> QED BY <1>9, <1>a, <3>1 DEF Commit, Written
  <2>2. \A q \in Requests, v \in VMs : want'[q][v] = want[q][v] \/ want'[q][v] = "unread"
    BY <1>9, <1>a DEF Commit, Done, Unread
  <2> QED BY <2>1, <2>2 DEF VMRows, NoRow
<1> QED
  BY <1>1, <1>2, <1>3, <1>4, <1>5, <1>6, <1>7, <1>8, <1>9
     DEF Next, Handle, Admit, GuestDown, vars, requestVars

LEMMA FleetInvStep == ASSUME Orderly PROVE FleetInv /\ [Next]_vars => FleetInv'
<1> SUFFICES ASSUME FleetInv, [Next]_vars PROVE FleetInv'
  OBVIOUS
<1>1. SerialInv' /\ Truth' /\ SuspendInv'
  BY SerialStep, TruthStep, SuspendStep DEF FleetInv, Orderly, Quiet
<1>2. GoneTogether'
  <2>1. CASE \E r \in Requests : Commit(r)
    BY <2>1, GoneCommit
  <2>2. CASE \A r \in Requests : ~Commit(r)
    <3>1. UNCHANGED row
      BY ZenonT(60), <2>2 DEF Next, Handle, Admit, Refuse, LoadVM, Act, Destroy, Provision,
                  Onboard, LoadTenant, Reinstate, SelectVMs, StopAll, CountVMs,
                  Rollback, GuestDown, vars
    <3> QED BY <3>1 DEF FleetInv, GoneTogether
  <2> QED BY <2>1, <2>2
<1> QED BY <1>1, <1>2, GrantedStep, VMRowsStep DEF FleetInv, SerialInv

LEMMA FleetInvInit == Init => FleetInv
<1> SUFFICES ASSUME Init PROVE FleetInv
  OBVIOUS
<1>1. SerialInv
  BY SerialInit
<1>2. Truth
  BY DEF Init, Truth, Settled, Tells, Told, Meant, Rows
<1>3. SuspendInv
  BY TenantOfAssumption DEF Init, SuspendInv, SuspendedShowsStopped, Suspending, Rows
<1>4. GoneTogether /\ VMRows /\ \A r \in Requests : Granted(r)
  BY DEF Init, GoneTogether, VMRows, Granted, Rows, Unread, NoRow
<1> QED BY <1>1, <1>2, <1>3, <1>4 DEF FleetInv

\* What Fleet sees of the domains.
Power ==
    [v \in VMs |->
        LET s == Shown[v]
        IN  CASE s \in {"running", "paused"} -> domain[v].power
              [] s = "stopped" -> IF domain[v].closing THEN "off" ELSE domain[v].power
              [] OTHER -> "unknown"]

\* The request that is alone, if any, shows what it will commit once it has
\* acted, and nothing before; a creation shows nothing.
LEMMA ShownIs ==
    SerialInv =>
      /\ (\A r \in Requests : pc[r] = "idle") => Shown = row
      /\ \A r \in Requests :
           /\ pc[r] \in {"admitted", "loaded", "read"} => Shown = row
           /\ pc[r] = "acted" /\ req[r].op \in Creations => Shown = row
           /\ pc[r] = "acted" /\ req[r].op \notin Creations =>
                /\ Shown = Written(r) /\ ~Rejected(r)
                /\ Shown = [x \in Rows |->
                              IF x \in Cascaded(r) THEN "gone"
                              ELSE IF want[r][x] # "unread" THEN want[r][x]
                              ELSE row[x]]
<1> SUFFICES ASSUME SerialInv
             PROVE  /\ (\A r \in Requests : pc[r] = "idle") => Shown = row
                    /\ \A r \in Requests :
                         /\ pc[r] \in {"admitted", "loaded", "read"} => Shown = row
                         /\ pc[r] = "acted" /\ req[r].op \in Creations => Shown = row
                         /\ pc[r] = "acted" /\ req[r].op \notin Creations =>
                              /\ Shown = Written(r) /\ ~Rejected(r)
                              /\ Shown = [x \in Rows |->
                                            IF x \in Cascaded(r) THEN "gone"
                                            ELSE IF want[r][x] # "unread" THEN want[r][x]
                                            ELSE row[x]]
  OBVIOUS
<1>1. (\A r \in Requests : ~Visible(r)) => Shown = row
  BY DEF Shown
<1>2. (\A r \in Requests : pc[r] = "idle") => Shown = row
  BY <1>1 DEF Visible
<1>3. ASSUME NEW r \in Requests, pc[r] # "idle", ~Visible(r) PROVE Shown = row
  BY <1>1, <1>3, Alone DEF Visible
<1>4. ASSUME NEW r \in Requests, pc[r] = "acted", req[r].op \notin Creations
      PROVE  /\ Shown = Written(r) /\ ~Rejected(r)
             /\ Shown = [x \in Rows |-> IF x \in Cascaded(r) THEN "gone"
                                        ELSE IF want[r][x] # "unread" THEN want[r][x]
                                        ELSE row[x]]
  <2>0. SessionOK(r) /\ Faithful(r)
    BY DEF SerialInv, TypeInv
  <2>1. ~Rejected(r)
    <3>1. ASSUME NEW x \in Changes(r), row[x] = "gone" PROVE FALSE
      <4>1. x \in Rows /\ seen[r][x] # "unread"
        BY <2>0 DEF Changes, SessionOK
      <4> QED BY <1>4, <2>0, <3>1, <4>1 DEF Faithful, SessionOK, NoRow
    <3> QED BY <1>4, <3>1 DEF Rejected, Creations
  <2>2. Visible(r)
    BY <1>4, <2>1 DEF Visible, Creations
  <2>3. \A q \in Requests : Visible(q) => q = r
    BY <1>4 DEF Visible, SerialInv, Serial
  <2>4. Shown = Written(r)
    <3>1. (CHOOSE q \in Requests : Visible(q)) = r
      BY <2>2, <2>3
    <3> QED BY <2>2, <3>1 DEF Shown
  <2>5. ASSUME NEW x \in Rows
        PROVE  (IF x \in Changes(r) THEN want[r][x] ELSE row[x])
                 = (IF want[r][x] # "unread" THEN want[r][x] ELSE row[x])
    <3>1. CASE x \in Changes(r)
      BY <2>0, <3>1 DEF Changes, SessionOK
    <3>2. CASE x \notin Changes(r)
      BY <1>4, <2>0, <3>2 DEF Changes, SessionOK, Faithful
    <3> QED BY <3>1, <3>2
  <2> QED BY <2>1, <2>4, <2>5 DEF Written
<1>5. \A r \in Requests : pc[r] \in {"admitted", "loaded", "read"} => Shown = row
  BY <1>3 DEF Visible
<1>6. \A r \in Requests : pc[r] = "acted" /\ req[r].op \in Creations => Shown = row
  BY <1>3 DEF Visible, Creations
<1> QED BY <1>2, <1>4, <1>5, <1>6

\* The power that Fleet sees is the one the status shown tells.
LEMMA PowerTold ==
    SerialInv /\ Truth =>
      /\ \A x \in Rows : Shown[x] \in Statuses
      /\ Shown = [x \in Rows |-> Shown[x]]
      /\ Power = [v \in VMs |-> Fleet!Told(Shown[v])]
<1> SUFFICES ASSUME SerialInv, Truth
             PROVE  /\ \A x \in Rows : Shown[x] \in Statuses
                    /\ Shown = [x \in Rows |-> Shown[x]]
                    /\ Power = [v \in VMs |-> Fleet!Told(Shown[v])]
  OBVIOUS
<1>0. /\ row \in [Rows -> Statuses] /\ VMs \subseteq Rows
      /\ pc \in [Requests -> {"idle", "admitted", "loaded", "read", "acted"}]
      /\ want \in [Requests -> [Rows -> Statuses \cup {"unread"}]]
  BY DEF SerialInv, TypeInv, TypeOK, Rows
<1>1. ASSUME Shown = row PROVE Shown \in [Rows -> Statuses]
  BY <1>0, <1>1
<1>2. ASSUME NEW r \in Requests, pc[r] = "acted" PROVE \A q \in Requests \ {r} : pc[q] = "idle"
  BY <1>2, Alone
<1>3. ASSUME NEW r \in Requests, pc[r] = "acted", req[r].op \notin Creations
      PROVE  Shown \in [Rows -> Statuses] /\ \A v \in VMs : Tells(v, Shown[v])
  <2>1. Shown = [x \in Rows |-> IF x \in Cascaded(r) THEN "gone"
                                ELSE IF want[r][x] # "unread" THEN want[r][x]
                                ELSE row[x]]
    BY <1>3, ShownIs
  <2>2. Shown \in [Rows -> Statuses]
    BY <1>0, <2>1 DEF Statuses, NoRow
  <2>3. ASSUME NEW v \in VMs PROVE Tells(v, Shown[v])
    <3>1. Tells(v, want[r][v])
      BY <1>3 DEF Truth
    <3>2. want[r][v] = "unread" => Tells(v, row[v])
      <4>1. want[r][v] = "unread" => Settled(v)
        BY <1>2, <1>3 DEF Settled
      <4> QED BY <4>1 DEF Truth
    <3>3. Tells(v, "gone")
      BY DEF Tells, Told
    <3>4. Shown[v] = IF v \in Cascaded(r) THEN "gone"
                     ELSE IF want[r][v] # "unread" THEN want[r][v] ELSE row[v]
      BY <1>0, <2>1
    <3> QED BY <3>1, <3>2, <3>3, <3>4
  <2> QED BY <2>2, <2>3
<1>4. ASSUME NEW r \in Requests, pc[r] = "acted", req[r].op \in Creations
      PROVE  Shown \in [Rows -> Statuses] /\ \A v \in VMs : Tells(v, Shown[v])
  <2>1. Shown = row
    BY <1>4, ShownIs
  <2>2. SessionOK(r) /\ Faithful(r)
    BY DEF SerialInv, TypeInv
  <2>3. ASSUME NEW v \in VMs PROVE Tells(v, row[v])
    <3>1. CASE v = req[r].on
      <4>1. row[v] = "absent"
        BY <1>4, <2>2, <3>1 DEF Faithful
      <4> QED BY <4>1 DEF Tells, Told
    <3>2. CASE v # req[r].on
      <4>1. want[r][v] = "unread"
        BY <1>0, <1>4, <2>2, <3>2 DEF SessionOK
      <4>2. Settled(v)
        BY <1>2, <1>4, <4>1 DEF Settled
      <4> QED BY <4>2 DEF Truth
    <3> QED BY <3>1, <3>2
  <2> QED BY <1>1, <2>1, <2>3
<1>5. ASSUME \A r \in Requests : pc[r] # "acted"
      PROVE  Shown \in [Rows -> Statuses] /\ \A v \in VMs : Tells(v, Shown[v])
  <2>1. Shown = row
    BY <1>0, <1>5, ShownIs
  <2>2. \A v \in VMs : Settled(v)
    BY <1>5 DEF Settled
  <2> QED BY <1>1, <2>1, <2>2 DEF Truth
<1>6. Shown \in [Rows -> Statuses] /\ \A v \in VMs : Tells(v, Shown[v])
  BY <1>3, <1>4, <1>5
<1>7. ASSUME NEW v \in VMs PROVE Power[v] = Fleet!Told(Shown[v])
  <2> DEFINE s == Shown[v]
  <2>1. Tells(v, s)
    BY <1>6
  <2>2. Power[v] = CASE s \in {"running", "paused"} -> domain[v].power
                     [] s = "stopped" -> IF domain[v].closing THEN "off"
                                         ELSE domain[v].power
                     [] OTHER -> "unknown"
    BY DEF Power
  <2> HIDE DEF s
  <2>3. CASE s \in {"running", "paused"}
    BY <2>1, <2>2, <2>3 DEF Tells, Told, PowerOf, Fleet!Told, s
  <2>4. CASE s = "stopped"
    BY <2>1, <2>2, <2>4 DEF Tells, Told, PowerOf, Fleet!Told, s
  <2>5. CASE s \notin {"running", "paused", "stopped"}
    BY <2>2, <2>5 DEF Fleet!Told, s
  <2> QED BY <2>3, <2>4, <2>5
<1>8. Power = [v \in VMs |-> Power[v]]
  BY DEF Power
<1> QED BY <1>6, <1>7, <1>8

\* Both hold after a step as well.
LEMMA ShownIsNext ==
    SerialInv' =>
      /\ (\A r \in Requests : pc'[r] = "idle") => Shown' = row'
      /\ \A r \in Requests :
           /\ pc'[r] \in {"admitted", "loaded", "read"} => Shown' = row'
           /\ pc'[r] = "acted" /\ req'[r].op \in Creations => Shown' = row'
           /\ pc'[r] = "acted" /\ req'[r].op \notin Creations =>
                Shown' = [x \in Rows |->
                            IF x \in Cascaded(r)' THEN "gone"
                            ELSE IF want'[r][x] # "unread" THEN want'[r][x]
                            ELSE row'[x]]
<1>1. (SerialInv =>
         /\ (\A r \in Requests : pc[r] = "idle") => Shown = row
         /\ \A r \in Requests :
              /\ pc[r] \in {"admitted", "loaded", "read"} => Shown = row
              /\ pc[r] = "acted" /\ req[r].op \in Creations => Shown = row
              /\ pc[r] = "acted" /\ req[r].op \notin Creations =>
                   /\ Shown = Written(r) /\ ~Rejected(r)
                   /\ Shown = [x \in Rows |->
                                 IF x \in Cascaded(r) THEN "gone"
                                 ELSE IF want[r][x] # "unread" THEN want[r][x]
                                 ELSE row[x]])'
  BY ShownIs, PTL
<1> QED BY <1>1

LEMMA PowerToldNext ==
    SerialInv' /\ Truth' =>
      /\ Shown' = [x \in Rows |-> Shown'[x]]
      /\ Power' = [v \in VMs |-> Fleet!Told(Shown'[v])]
<1>1. (SerialInv /\ Truth =>
         /\ \A x \in Rows : Shown[x] \in Statuses
         /\ Shown = [x \in Rows |-> Shown[x]]
         /\ Power = [v \in VMs |-> Fleet!Told(Shown[v])])'
  BY PowerTold, PTL
<1> QED BY <1>1 DEF Fleet!Told

\* Statuses shown anew change the power that Fleet sees with them.
LEMMA FleetShow ==
    ASSUME FleetInv, FleetInv', NEW new,
           \A x \in Rows : Shown'[x] = IF x \in DOMAIN new THEN new[x] ELSE Shown[x]
    PROVE  Fleet!Show(new)
<1>1. /\ Power = [v \in VMs |-> Fleet!Told(Shown[v])]
      /\ Power' = [v \in VMs |-> Fleet!Told(Shown'[v])]
      /\ Shown' = [x \in Rows |-> Shown'[x]]
  BY PowerTold, PowerToldNext DEF FleetInv
<1>2. Shown' = [x \in Rows |-> IF x \in DOMAIN new THEN new[x] ELSE Shown[x]]
  BY <1>1
<1>3. Power' = [v \in VMs |-> IF v \in DOMAIN new THEN Fleet!Told(new[v]) ELSE Power[v]]
  <2>1. \A v \in VMs : v \in Rows
    BY DEF Rows
  <2>2. ASSUME NEW v \in VMs
        PROVE  Fleet!Told(Shown'[v])
                 = IF v \in DOMAIN new THEN Fleet!Told(new[v]) ELSE Power[v]
    <3>1. CASE v \in DOMAIN new
      <4>1. Shown'[v] = new[v]
        BY <2>1, <3>1
      <4> QED BY <3>1, <4>1
    <3>2. CASE v \notin DOMAIN new
      <4>1. Shown'[v] = Shown[v] /\ Power[v] = Fleet!Told(Shown[v])
        BY <1>1, <2>1, <3>2
      <4> QED BY <3>2, <4>1
    <3> QED BY <3>1, <3>2
  <2> QED BY <1>1, <2>2
<1> QED BY <1>2, <1>3 DEF Fleet!Show, Fleet!Rows, Rows, Power

LEMMA FleetStutter ==
    ASSUME FleetInv, FleetInv', Shown' = Shown
    PROVE  UNCHANGED Fleet!fleetVars
<1>1. Power' = Power
  BY PowerTold, PowerToldNext DEF FleetInv
<1> QED BY <1>1 DEF Fleet!fleetVars, Power

\* One row is shown anew.
LEMMA FleetMove ==
    ASSUME FleetInv, FleetInv', NEW x \in Rows, NEW from, NEW to, Shown[x] \in from,
           \A y \in Rows : Shown'[y] = IF y = x THEN to ELSE Shown[y]
    PROVE  Fleet!Move(x, from, to)
<1> DEFINE new == [y \in {x} |-> to]
<1>1. \A y \in Rows : Shown'[y] = IF y \in DOMAIN new THEN new[y] ELSE Shown[y]
  OBVIOUS
<1>2. Fleet!Show(new)
  <2> HIDE DEF new
  <2> QED BY <1>1, FleetShow
<1> QED BY <1>2 DEF Fleet!Move

\* The moves of Operate.
Operable(a, b) ==
    \/ a \in {"absent", "stopped", "paused"} /\ b = "running"
    \/ a = "running" /\ b = "paused"
    \/ a \in {"running", "paused", "error"} /\ b = "stopped"
    \/ a \in {"absent", "running", "stopped", "paused"} /\ b = "error"
    \/ a \in {"stopped", "paused", "error"} /\ b = "deleted"

LEMMA FleetOperate ==
    ASSUME FleetInv, FleetInv', NEW v \in VMs, NEW s,
           Shown[TenantOf[v]] = "active", s = Shown[v] \/ Operable(Shown[v], s),
           \A y \in Rows : Shown'[y] = IF y = v THEN s ELSE Shown[y]
    PROVE  Fleet!Operate(v) \/ UNCHANGED Fleet!fleetVars
<1>0. v \in Rows
  BY DEF Rows
<1>1. CASE s = Shown[v]
  <2>1. Shown' = Shown
    BY <1>1, PowerTold, PowerToldNext DEF FleetInv
  <2> QED BY <2>1, FleetStutter
<1>2. \A from : Shown[v] \in from => Fleet!Move(v, from, s)
  BY <1>0, FleetMove
<1>3. CASE Operable(Shown[v], s)
  <2>1. CASE Shown[v] \in {"absent", "stopped", "paused"} /\ s = "running"
    <3>1. \/ Fleet!Move(v, {"absent"}, "running") \/ Fleet!Move(v, {"stopped"}, "running")
          \/ Fleet!Move(v, {"paused"}, "running")
      <4>1. Shown[v] \in {"absent"} \/ Shown[v] \in {"stopped"} \/ Shown[v] \in {"paused"}
        BY <2>1
      <4> QED BY <1>2, <2>1, <4>1
    <3> QED BY <3>1 DEF Fleet!Operate
  <2>2. CASE Shown[v] = "running" /\ s = "paused"
    <3>1. Fleet!Move(v, {"running"}, "paused")
      BY <1>2, <2>2
    <3> QED BY <3>1 DEF Fleet!Operate
  <2>3. CASE Shown[v] \in {"running", "paused", "error"} /\ s = "stopped"
    <3>1. Fleet!Move(v, {"running", "paused", "error"}, "stopped")
      BY <1>2, <2>3
    <3> QED BY <3>1 DEF Fleet!Operate
  <2>4. CASE Shown[v] \in {"absent", "running", "stopped", "paused"} /\ s = "error"
    <3>1. Fleet!Move(v, {"absent", "running", "stopped", "paused"}, "error")
      BY <1>2, <2>4
    <3> QED BY <3>1 DEF Fleet!Operate
  <2>5. CASE Shown[v] \in {"stopped", "paused", "error"} /\ s = "deleted"
    <3>1. Fleet!Move(v, {"stopped", "paused", "error"}, "deleted")
      BY <1>2, <2>5
    <3> QED BY <3>1 DEF Fleet!Operate
  <2> QED BY <1>3, <2>1, <2>2, <2>3, <2>4, <2>5 DEF Operable
<1> QED BY <1>1, <1>3

\* A request on a VM that has acted shows it anew, and its tenant is active.
LEMMA VMActed ==
    ASSUME FleetInv, FleetInv', NEW r \in Requests, pc[r] = "read", pc'[r] = "acted",
           UNCHANGED <<row, req>>, req[r].op \in PowerActions \cup {"delete"}
    PROVE  /\ req[r].on \in VMs /\ row[TenantOf[req[r].on]] = "active"
           /\ row[req[r].on] \notin NoRow
           /\ Shown = row
           /\ want'[r][req[r].on] # "unread" =>
                \A y \in Rows :
                  Shown'[y] = IF y = req[r].on THEN want'[r][req[r].on] ELSE Shown[y]
<1> DEFINE v == req[r].on
<1>0. /\ SerialInv /\ SerialInv' /\ TypeInv /\ SessionOK(r) /\ Faithful(r)
      /\ Faithful(r)' /\ Suspending(r) /\ VMs \subseteq Rows
      /\ req[r].op \in VMOps /\ req[r].op \notin Creations /\ req[r].op # "remove"
  BY DEF FleetInv, SuspendInv, SerialInv, TypeInv, Rows, VMOps, Creations, PowerActions
<1>1. v \in VMs /\ v \in Rows
  BY <1>0, Aim
<1>2. row[TenantOf[v]] = "active"
  BY <1>0 DEF Suspending
<1>3. seen[r][v] # "unread" /\ row[v] \notin NoRow
  BY <1>0, <1>1 DEF SessionOK, Faithful
<1>4. Shown = row
  BY <1>0, ShownIs
<1>5. Shown' = [x \in Rows |-> IF x \in Cascaded(r)' THEN "gone"
                               ELSE IF want'[r][x] # "unread" THEN want'[r][x]
                               ELSE row'[x]]
  BY <1>0, ShownIsNext
<1>6. Cascaded(r)' = {}
  BY <1>0 DEF Cascaded
<1>7. \A x \in Rows : x # v => want'[r][x] = "unread"
  BY <1>0 DEF Faithful
<1>8. ASSUME want'[r][v] # "unread", NEW y \in Rows
      PROVE  Shown'[y] = IF y = v THEN want'[r][v] ELSE Shown[y]
  <2>1. Shown'[y] = IF want'[r][y] # "unread" THEN want'[r][y] ELSE row'[y]
    BY <1>5, <1>6
  <2>2. CASE y = v
    BY <1>8, <2>1, <2>2
  <2>3. CASE y # v
    <3>1. want'[r][y] = "unread"
      BY <1>7, <2>3
    <3> QED BY <1>4, <2>1, <2>3, <3>1
  <2> QED BY <2>2, <2>3
<1> QED BY <1>1, <1>2, <1>3, <1>4, <1>8

LEMMA FleetAct ==
    ASSUME FleetInv, FleetInv', NEW r \in Requests, Act(r)
    PROVE  [Fleet!Next]_(Fleet!fleetVars)
<1> DEFINE v == req[r].on
           op == req[r].op
<1>0. /\ pc[r] = "read" /\ pc'[r] = "acted" /\ UNCHANGED <<row, req>>
      /\ op \in PowerActions /\ Granted(r) /\ Meant(r) /\ r \in DOMAIN want
      /\ row \in [Rows -> Statuses] /\ want[r] \in [Rows -> Statuses \cup {"unread"}]
      /\ \A t \in Tenants : row[t] \in NoRow \cup TenantStatus
      /\ TypeInv /\ TypeInv'
  BY DEF Act, Goto, FleetInv, Truth, SerialInv, TypeInv, TypeOK
<1>1. /\ v \in VMs /\ v \in Rows /\ row[TenantOf[v]] = "active" /\ row[v] \notin NoRow
      /\ Shown = row
  BY <1>0, VMActed DEF Rows
<1>2. PICK s \in {Resulting(op), "error"} : want'[r][v] = s
  <2>1. Hold(r, v, Resulting(op)) \/ Hold(r, v, "error")
    BY DEF Act
  <2> QED BY <1>0, <1>1, <2>1 DEF Hold
<1>3. row[v] \in VMStatus \ {"deleted"}
  BY <1>0, <1>1 DEF Granted, FleetInv, VMRows
<1>4. s = row[v] \/ Operable(row[v], s)
  <2>1. row[v] = Required(op) \/ op = "stop"
    BY <1>0 DEF Meant
  <2>2. CASE op = "stop"
    BY <1>2, <1>3, <2>2 DEF Resulting, Operable, VMStatus
  <2>3. CASE op # "stop"
    BY <1>0, <1>2, <2>1, <2>3 DEF Resulting, Required, Operable, PowerActions
  <2> QED BY <2>2, <2>3
<1>5. \A y \in Rows : Shown'[y] = IF y = v THEN s ELSE Shown[y]
  <2>1. s # "unread"
    BY <1>2 DEF Resulting
  <2> QED BY <1>0, <1>2, <2>1, VMActed
<1>6. Fleet!Operate(v) \/ UNCHANGED Fleet!fleetVars
  BY <1>1, <1>4, <1>5, FleetOperate
<1> QED BY <1>1, <1>6 DEF Fleet!Next

LEMMA FleetDestroy ==
    ASSUME FleetInv, FleetInv', NEW r \in Requests, Destroy(r)
    PROVE  [Fleet!Next]_(Fleet!fleetVars)
<1> DEFINE v == req[r].on
<1>0. /\ pc[r] = "read" /\ pc'[r] = "acted" /\ UNCHANGED <<row, req>>
      /\ req[r].op = "delete" /\ Granted(r) /\ Hold(r, v, "deleted") /\ r \in DOMAIN want
      /\ want[r] \in [Rows -> Statuses \cup {"unread"}]
  BY DEF Destroy, Goto, FleetInv, SerialInv, TypeInv, TypeOK
<1>1. /\ v \in VMs /\ v \in Rows /\ row[TenantOf[v]] = "active" /\ row[v] \notin NoRow
      /\ Shown = row
  BY <1>0, VMActed DEF Rows
<1>2. want'[r][v] = "deleted"
  BY <1>0, <1>1 DEF Hold
<1>3. row[v] \in VMStatus \ {"running"}
  BY <1>0, <1>1 DEF Granted, FleetInv, VMRows
<1>4. "deleted" = row[v] \/ Operable(row[v], "deleted")
  BY <1>3 DEF Operable, VMStatus
<1>5. \A y \in Rows : Shown'[y] = IF y = v THEN "deleted" ELSE Shown[y]
  BY <1>0, <1>2, VMActed
<1>6. Fleet!Operate(v) \/ UNCHANGED Fleet!fleetVars
  BY <1>1, <1>4, <1>5, FleetOperate
<1> QED BY <1>1, <1>6 DEF Fleet!Next

\* A tenant is onboarded or reinstated.
LEMMA FleetTenant ==
    ASSUME FleetInv, FleetInv', NEW t \in Tenants, NEW a \in {"absent", "suspended"},
           Shown[t] = a,
           \A y \in Rows : Shown'[y] = IF y = t THEN "active" ELSE Shown[y]
    PROVE  Fleet!Next
<1>1. t \in Rows
  BY DEF Rows
<1>2. \A from : Shown[t] \in from => Fleet!Move(t, from, "active")
  BY <1>1, FleetMove
<1>3. Fleet!Move(t, {"absent"}, "active") \/ Fleet!Move(t, {"suspended"}, "active")
  <2>1. Shown[t] \in {"absent"} \/ Shown[t] \in {"suspended"}
    OBVIOUS
  <2> QED BY <1>2, <2>1
<1> QED BY <1>3 DEF Fleet!Next

\* Fleet's suspension, its set of VMs and their ends named.
LEMMA SuspendIs ==
    ASSUME NEW t, NEW on, NEW end \in [on -> {"stopped", "error"}],
           on = {v \in Fleet!VMsOf(t) : Shown[v] \in {"running", "paused"}},
           Shown[t] = "active",
           Fleet!Show([x \in on \cup {t} |-> IF x = t THEN "suspended" ELSE end[x]])
    PROVE  Fleet!Suspend(t)
BY SMTT(30) DEF Fleet!Suspend, Fleet!Show

\* A tenant is suspended with its VMs that are on, and those end as end tells.
LEMMA FleetSuspends ==
    ASSUME FleetInv, FleetInv', NEW t \in Tenants, NEW on, NEW end \in [on -> {"stopped", "error"}],
           on = {v \in VMsOf(t) : Shown[v] \in {"running", "paused"}},
           Shown[t] = "active", t \notin on,
           \A x \in Rows : Shown'[x] = IF x = t THEN "suspended"
                                       ELSE IF x \in on THEN end[x] ELSE Shown[x]
    PROVE  Fleet!Next
<1> DEFINE new == [x \in on \cup {t} |-> IF x = t THEN "suspended" ELSE end[x]]
<1>1. \A x \in Rows : Shown'[x] = IF x \in DOMAIN new THEN new[x] ELSE Shown[x]
  OBVIOUS
<1>2. Fleet!Show(new)
  <2> HIDE DEF new
  <2> QED BY <1>1, FleetShow
<1>3. on = {v \in Fleet!VMsOf(t) : Shown[v] \in {"running", "paused"}}
  BY DEF VMsOf, Fleet!VMsOf
<1>4. Fleet!Suspend(t)
  BY <1>2, <1>3, SuspendIs
<1> QED BY <1>4 DEF Fleet!Next

\* A tenant is removed with its VMs that are deleted, and has no others.
LEMMA FleetRemoves ==
    ASSUME FleetInv, FleetInv', NEW t \in Tenants, NEW deleted,
           deleted = {v \in VMsOf(t) : Shown[v] = "deleted"},
           \A v \in VMsOf(t) : Shown[v] \in {"absent", "deleted"},
           Shown[t] = "suspended",
           \A x \in Rows : Shown'[x] = IF x \in deleted \cup {t} THEN "gone" ELSE Shown[x]
    PROVE  Fleet!Next
<1> DEFINE new == [x \in deleted \cup {t} |-> "gone"]
<1>1. \A x \in Rows : Shown'[x] = IF x \in DOMAIN new THEN new[x] ELSE Shown[x]
  OBVIOUS
<1>2. Fleet!Show(new)
  <2> HIDE DEF new
  <2> QED BY <1>1, FleetShow
<1>3. /\ deleted = {v \in Fleet!VMsOf(t) : Shown[v] = "deleted"}
      /\ \A v \in Fleet!VMsOf(t) : Shown[v] \in {"absent", "deleted"}
  BY DEF VMsOf, Fleet!VMsOf
<1>4. Fleet!Remove(t)
  BY <1>2, <1>3 DEF Fleet!Remove, Fleet!Show
<1> QED BY <1>4 DEF Fleet!Next

\* A tenant is reinstated, or was not suspended.
LEMMA FleetReinstate ==
    ASSUME FleetInv, FleetInv', NEW r \in Requests, Reinstate(r)
    PROVE  [Fleet!Next]_(Fleet!fleetVars)
<1> DEFINE t == req[r].on
<1>0. /\ pc[r] = "admitted" /\ pc'[r] = "acted" /\ UNCHANGED <<row, req>>
      /\ req[r].op = "reinstate" /\ row[t] \notin NoRow /\ Hold(r, t, "active")
      /\ SerialInv /\ SerialInv' /\ TypeInv /\ Faithful(r)' /\ r \in DOMAIN want
      /\ want[r] \in [Rows -> Statuses \cup {"unread"}] /\ VMs \cap Tenants = {}
  BY RowsAssumption
     DEF Reinstate, Grants, Goto, FleetInv, SerialInv, TypeInv, TypeOK
<1>1. t \in Tenants /\ t \in Rows /\ row[t] \in TenantStatus
  BY <1>0, Aim DEF TypeInv, TenantOps, Rows
<1>2. Shown = row
  BY <1>0, ShownIs
<1>3. Shown' = [x \in Rows |-> IF x \in Cascaded(r)' THEN "gone"
                               ELSE IF want'[r][x] # "unread" THEN want'[r][x]
                               ELSE row'[x]]
  BY <1>0, ShownIsNext DEF Creations
<1>4. Cascaded(r)' = {}
  BY <1>0 DEF Cascaded
<1>5. want'[r][t] = "active" /\ \A x \in Rows : x # t => want'[r][x] = "unread"
  <2>1. want'[r][t] = "active"
    BY <1>0, <1>1 DEF Hold
  <2>2. \A x \in Rows : x # t => want'[r][x] = "unread"
    BY <1>0 DEF Faithful, TenantOps, Rows
  <2> QED BY <2>1, <2>2
<1>6. ASSUME NEW y \in Rows PROVE Shown'[y] = IF y = t THEN "active" ELSE Shown[y]
  <2>1. Shown'[y] = IF want'[r][y] # "unread" THEN want'[r][y] ELSE row'[y]
    BY <1>3, <1>4
  <2>2. CASE y = t
    BY <1>5, <2>1, <2>2
  <2>3. CASE y # t
    <3>1. want'[r][y] = "unread"
      BY <1>5, <2>3
    <3> QED BY <1>0, <1>2, <2>1, <2>3, <3>1
  <2> QED BY <2>2, <2>3
<1>7. CASE row[t] = "suspended"
  <2>1. Shown[t] = "suspended"
    BY <1>2, <1>7
  <2> QED BY <1>1, <1>6, <2>1, FleetTenant
<1>8. CASE row[t] = "active"
  <2>1. \A y \in Rows : Shown'[y] = Shown[y]
    BY <1>2, <1>6, <1>8
  <2>2. Shown' = Shown
    BY <2>1, PowerTold, PowerToldNext DEF FleetInv
  <2> QED BY <2>2, FleetStutter
<1> QED BY <1>1, <1>7, <1>8 DEF TenantStatus

\* A tenant is suspended together with its VMs, or was so already.
LEMMA FleetSuspend ==
    ASSUME FleetInv, FleetInv', NEW r \in Requests, StopAll(r)
    PROVE  [Fleet!Next]_(Fleet!fleetVars)
<1> DEFINE t == req[r].on
           loaded == {v \in VMs : seen[r][v] # "unread"}
           on == {v \in VMsOf(t) : row[v] \in {"running", "paused"}}
<1>0. /\ pc[r] = "read" /\ pc'[r] = "acted" /\ UNCHANGED <<row, req, seen>>
      /\ req[r].op = "suspend" /\ r \in DOMAIN want
      /\ SerialInv /\ SerialInv' /\ TypeInv /\ SessionOK(r) /\ Faithful(r)
      /\ Suspending(r) /\ Granted(r) /\ VMs \cap Tenants = {}
      /\ want[r] \in [Rows -> Statuses \cup {"unread"}]
  BY RowsAssumption
     DEF StopAll, Goto, FleetInv, SuspendInv, SerialInv, TypeInv, TypeOK
<1>1. t \in Tenants /\ t \in Rows /\ row[t] \in TenantStatus
  <2>1. t \in Tenants /\ t \in Rows
    BY <1>0, Aim DEF TenantOps, Rows
  <2>2. seen[r][t] # "unread" /\ seen[r][t] \notin NoRow /\ seen[r][t] = row[t]
    BY <1>0, <2>1 DEF SessionOK, Faithful, Creations
  <2> QED BY <1>0, <2>1, <2>2 DEF TypeInv
<1>2. loaded = on /\ on \subseteq VMs /\ t \notin on
  BY <1>0, <1>1 DEF Suspending, Granted, ToStop, VMsOf
<1>3. PICK failing \in SUBSET loaded :
        want' = [want EXCEPT ![r] =
                   [x \in Rows |-> IF x = t THEN "suspended"
                                   ELSE IF x \in failing THEN "error"
                                   ELSE IF x \in loaded THEN "stopped"
                                   ELSE want[r][x]]]
  BY DEF StopAll
<1>4. \A x \in Rows : want'[r][x] = IF x = t THEN "suspended"
                                    ELSE IF x \in failing THEN "error"
                                    ELSE IF x \in loaded THEN "stopped"
                                    ELSE want[r][x]
  BY <1>0, <1>3
<1>5. \A x \in Rows : x # t /\ x \notin loaded => want[r][x] = "unread"
  BY <1>0 DEF Faithful, SessionOK, Rows
<1>6. Shown = row
  BY <1>0, ShownIs
<1>7. \A x \in Rows : Shown'[x] = IF want'[r][x] # "unread" THEN want'[r][x] ELSE row[x]
  <2>1. Cascaded(r)' = {}
    BY <1>0 DEF Cascaded
  <2> QED BY <1>0, <2>1, ShownIsNext DEF Creations
<1>8. \A x \in Rows : Shown'[x] = IF x = t THEN "suspended"
                                  ELSE IF x \in failing THEN "error"
                                  ELSE IF x \in on THEN "stopped"
                                  ELSE Shown[x]
  <2> SUFFICES ASSUME NEW x \in Rows
               PROVE  Shown'[x] = IF x = t THEN "suspended"
                                  ELSE IF x \in failing THEN "error"
                                  ELSE IF x \in on THEN "stopped"
                                  ELSE Shown[x]
    OBVIOUS
  <2>1. CASE x = t \/ x \in loaded
    BY <1>2, <1>4, <1>7, <2>1
  <2>2. CASE x # t /\ x \notin loaded
    BY <1>2, <1>4, <1>5, <1>6, <1>7, <2>2
  <2> QED BY <2>1, <2>2
<1>9. CASE row[t] = "active"
  <2>1. PICK u \in Tenants : u = t
    BY <1>1
  <2>2. PICK live : live = {v \in VMsOf(u) : Shown[v] \in {"running", "paused"}}
    OBVIOUS
  <2>3. live = on
    BY <1>6, <2>1, <2>2
  <2>4. PICK end : end = [v \in live |-> IF v \in failing THEN "error" ELSE "stopped"]
    OBVIOUS
  <2>5. end \in [live -> {"stopped", "error"}]
    BY <2>4
  <2>6. Shown[u] = "active" /\ u \notin live
    BY <1>2, <1>6, <1>9, <2>1, <2>3
  <2>7. \A x \in Rows : Shown'[x] = IF x = u THEN "suspended"
                                    ELSE IF x \in live THEN end[x] ELSE Shown[x]
    BY <1>2, <1>8, <2>1, <2>3, <2>4
  <2>8. Fleet!Next
    BY <2>2, <2>5, <2>6, <2>7, FleetSuspends
  <2> QED BY <2>8
<1>10. CASE row[t] = "suspended"
  <2>1. on = {}
    BY <1>10, <1>2 DEF FleetInv, SuspendInv, SuspendedShowsStopped, VMsOf
  <2>2. \A x \in Rows : Shown'[x] = Shown[x]
    BY <1>2, <1>6, <1>8, <1>10, <2>1
  <2>3. Shown' = Shown
    BY <2>2, PowerTold, PowerToldNext DEF FleetInv
  <2> QED BY <2>3, FleetStutter
<1> QED BY <1>1, <1>9, <1>10 DEF TenantStatus

\* A tenant is removed together with its VMs, which are all deleted.
LEMMA FleetRemove ==
    ASSUME FleetInv, FleetInv', NEW r \in Requests, CountVMs(r)
    PROVE  [Fleet!Next]_(Fleet!fleetVars)
<1> DEFINE t == req[r].on
           deleted == {v \in VMsOf(t) : row[v] = "deleted"}
<1>0. /\ pc[r] = "loaded" /\ pc'[r] = "acted" /\ UNCHANGED <<row, req>>
      /\ req[r].op = "remove" /\ Remaining(t) = {} /\ Hold(r, t, "gone")
      /\ r \in DOMAIN want /\ want[r] \in [Rows -> Statuses \cup {"unread"}]
      /\ SerialInv /\ SerialInv' /\ TypeInv /\ Faithful(r)' /\ Granted(r)
      /\ VMs \cap Tenants = {}
  BY RowsAssumption
     DEF CountVMs, Goto, FleetInv, SerialInv, TypeInv, TypeOK
<1>1. t \in Tenants /\ t \in Rows /\ row[t] = "suspended"
  BY <1>0, Aim DEF TenantOps, Rows, Granted
<1>2. \A v \in VMsOf(t) : row[v] \in {"absent", "deleted"}
  <2>1. \A v \in VMsOf(t) : row[v] # "gone"
    BY <1>1 DEF FleetInv, GoneTogether, VMsOf
  <2> QED BY <1>0, <2>1 DEF Remaining, NoRow
<1>3. Cascaded(r)' = deleted
  BY <1>0, <1>2 DEF Cascaded
<1>4. want'[r][t] = "gone" /\ \A x \in Rows : x # t => want'[r][x] = "unread"
  <2>1. want'[r][t] = "gone"
    BY <1>0, <1>1 DEF Hold
  <2>2. \A x \in Rows : x # t => want'[r][x] = "unread"
    BY <1>0 DEF Faithful, TenantOps, Rows
  <2> QED BY <2>1, <2>2
<1>5. Shown = row
  BY <1>0, ShownIs
<1>6. \A x \in Rows : Shown'[x] = IF x \in Cascaded(r)' THEN "gone"
                                  ELSE IF want'[r][x] # "unread" THEN want'[r][x]
                                  ELSE row[x]
  BY <1>0, ShownIsNext DEF Creations
<1>7. PICK u \in Tenants : u = t
  BY <1>1
<1>8. PICK dead : dead = {v \in VMsOf(u) : Shown[v] = "deleted"}
  OBVIOUS
<1>9. dead = deleted
  BY <1>5, <1>7, <1>8
<1>10. \A v \in VMsOf(u) : Shown[v] \in {"absent", "deleted"}
  BY <1>2, <1>5, <1>7
<1>11. Shown[u] = "suspended"
  BY <1>1, <1>5, <1>7
<1>12. \A x \in Rows : Shown'[x] = IF x \in dead \cup {u} THEN "gone" ELSE Shown[x]
  <2> SUFFICES ASSUME NEW x \in Rows
               PROVE  Shown'[x] = IF x \in dead \cup {u} THEN "gone" ELSE Shown[x]
    OBVIOUS
  <2>1. CASE x \in deleted \cup {t}
    BY <1>3, <1>4, <1>6, <1>7, <1>9, <2>1
  <2>2. CASE x \notin deleted \cup {t}
    BY <1>3, <1>4, <1>5, <1>6, <1>7, <1>9, <2>2
  <2> QED BY <2>1, <2>2
<1>13. Fleet!Next
  BY <1>8, <1>10, <1>11, <1>12, FleetRemoves
<1> QED BY <1>13

\* A commit inserts the row of a creation; the others have shown it already.
LEMMA FleetCommit ==
    ASSUME FleetInv, FleetInv', NEW r \in Requests, Commit(r)
    PROVE  [Fleet!Next]_(Fleet!fleetVars)
<1> DEFINE x == req[r].on
<1>0. /\ pc[r] = "acted" /\ row' = Written(r)
      /\ SerialInv /\ SerialInv' /\ TypeInv /\ SessionOK(r) /\ Faithful(r)
      /\ Suspending(r) /\ Granted(r) /\ WellAimed(r) /\ DOMAIN pc = Requests
  BY DEF Commit, FleetInv, SuspendInv, SerialInv, TypeInv, TypeOK
<1>1. Shown' = row'
  <2>1. \A q \in Requests : pc'[q] = "idle"
    BY <1>0, Alone DEF Commit, Done, Goto
  <2> QED BY <1>0, <2>1, ShownIsNext
<1>2. CASE req[r].op \notin Creations
  <2>1. Shown' = Shown
    BY <1>0, <1>1, <1>2, ShownIs
  <2> QED BY <2>1, FleetStutter
<1>3. CASE req[r].op \in Creations
  <2>1. Shown = row /\ x \in Rows /\ row[x] = "absent"
    BY <1>0, <1>3, ShownIs, Aim DEF Faithful
  <2>2. Changes(r) = {x} /\ Cascaded(r) = {}
    <3>1. want[r][x] # "absent" /\ seen[r][x] = "absent"
      BY <1>0, <1>3, <2>1 DEF Granted, SessionOK
    <3>2. \A y \in Rows : y # x => want[r][y] = "unread" /\ seen[r][y] = "unread"
      BY <1>0, <1>3 DEF SessionOK
    <3> QED BY <1>3, <2>1, <3>1, <3>2 DEF Changes, Cascaded, Creations
  <2>3. \A y \in Rows : Shown'[y] = IF y = x THEN want[r][x] ELSE Shown[y]
    BY <1>0, <1>1, <2>1, <2>2 DEF Written
  <2>4. CASE req[r].op = "create"
    <3>1. x \in VMs /\ Shown[TenantOf[x]] = "active" /\ Shown[x] = "absent"
      BY <1>0, <2>1, <2>4, Aim DEF Suspending, VMOps
    <3>2. Operable("absent", want[r][x])
      BY <1>0, <2>4 DEF Granted, Operable
    <3>3. Fleet!Operate(x) \/ UNCHANGED Fleet!fleetVars
      BY <2>3, <3>1, <3>2, FleetOperate
    <3> QED BY <3>1, <3>3 DEF Fleet!Next
  <2>5. CASE req[r].op = "onboard"
    <3>1. x \in Tenants /\ want[r][x] = "active" /\ Shown[x] = "absent"
      BY <1>0, <2>1, <2>5, Aim DEF Suspending, TenantOps
    <3>2. \A y \in Rows : Shown'[y] = IF y = x THEN "active" ELSE Shown[y]
      BY <2>3, <3>1
    <3> QED BY <3>1, <3>2, FleetTenant
  <2> QED BY <1>3, <2>4, <2>5 DEF Creations
<1> QED BY <1>2, <1>3

LEMMA FleetStep ==
    ASSUME Orderly
    PROVE  FleetInv /\ FleetInv' /\ [Next]_vars => [Fleet!Next]_(Fleet!fleetVars)
<1> SUFFICES ASSUME FleetInv, FleetInv', [Next]_vars
             PROVE  [Fleet!Next]_(Fleet!fleetVars)
  OBVIOUS
<1>a. /\ SerialInv /\ SerialInv' /\ DOMAIN pc = Requests /\ DOMAIN req = Requests
      /\ domain \in [VMs -> Domains]
  BY DEF FleetInv, SerialInv, TypeInv, TypeOK
<1>1. ASSUME NEW r \in Requests, NEW op, NEW x, NEW force, Admit(r, op, x, force)
      PROVE  Shown' = Shown
  <2>1. \A q \in Requests : pc[q] = "idle"
    BY <1>1 DEF Admit, Orderly, Quiet
  <2>2. pc'[r] = "admitted" /\ UNCHANGED row
    BY <1>1, <1>a DEF Admit, Goto
  <2> QED BY <1>a, <2>1, <2>2, ShownIs, ShownIsNext
<1>2. ASSUME NEW r \in Requests, Refuse(r) \/ Rollback(r) PROVE Shown' = Shown
  <2>1. /\ pc[r] # "idle" /\ Done(r) /\ UNCHANGED row
        /\ pc[r] \in {"admitted", "loaded"} \/ (pc[r] = "acted" /\ Rejected(r))
    BY <1>2 DEF Refuse, Rollback, Orderly, Quiet
  <2>2. \A q \in Requests : pc'[q] = "idle"
    BY <1>a, <2>1, Alone DEF Done, Goto
  <2> QED BY <1>a, <2>1, <2>2, ShownIs, ShownIsNext
<1>3. ASSUME NEW r \in Requests, LoadVM(r) \/ LoadTenant(r) \/ SelectVMs(r)
      PROVE  Shown' = Shown
  <2>1. /\ pc[r] \in {"admitted", "loaded"} /\ pc'[r] \in {"loaded", "read"}
        /\ UNCHANGED row
    BY <1>3, <1>a DEF LoadVM, LoadTenant, SelectVMs, Goto
  <2> QED BY <1>a, <2>1, ShownIs, ShownIsNext
<1>4. ASSUME NEW r \in Requests, Provision(r) \/ Onboard(r) PROVE Shown' = Shown
  <2>1. /\ pc[r] = "admitted" /\ pc'[r] = "acted" /\ UNCHANGED <<row, req>>
        /\ req[r].op \in Creations
    BY <1>4, <1>a DEF Provision, Onboard, Goto, Creations
  <2> QED BY <1>a, <2>1, ShownIs, ShownIsNext
<1>5. ASSUME UNCHANGED <<row, requestVars>> PROVE Shown' = Shown
  BY <1>5 DEF requestVars, Shown, Visible, Rejected, Written, Changes, Cascaded
<1>6. ASSUME Shown' = Shown PROVE [Fleet!Next]_(Fleet!fleetVars)
  BY <1>6, FleetStutter
<1>7. ASSUME NEW r \in Requests,
             Act(r) \/ Destroy(r) \/ Reinstate(r) \/ StopAll(r) \/ CountVMs(r) \/ Commit(r)
      PROVE  [Fleet!Next]_(Fleet!fleetVars)
  BY <1>7, FleetAct, FleetDestroy, FleetReinstate, FleetSuspend, FleetRemove, FleetCommit
<1> HIDE DEF Shown
<1> QED
  BY <1>1, <1>2, <1>3, <1>4, <1>5, <1>6, <1>7
     DEF Next, Handle, GuestDown, vars, requestVars

\* Requests that come one at a time implement Fleet, if only stop is forced, no
\* guest stops by itself, every commit is made and MSP admins stay away from
\* suspended tenants: each handler is atomic on the statuses that the API shows
\* and on the domains behind them, though it loads, acts on libvirt and commits in
\* separate steps, and the guests go on between them.
THEOREM RequestsImplementFleet ==
    ASSUME Orderly
    PROVE  Spec => ImplementsFleet
<1>1. Init => Fleet!Init
  <2> SUFFICES ASSUME Init PROVE Fleet!Init
    OBVIOUS
  <2>1. SerialInv /\ Truth
    BY FleetInvInit DEF FleetInv
  <2>2. Shown = [x \in Rows |-> "absent"]
    BY <2>1, ShownIs DEF Init
  <2>3. Power = [v \in VMs |-> "unknown"]
    BY <2>1, <2>2, PowerTold DEF Fleet!Told, Rows
  <2> QED BY <2>2, <2>3 DEF Fleet!Init, Fleet!Rows, Rows, Power
<1>2. FleetInv /\ [Next]_vars => FleetInv'
  BY FleetInvStep
<1>3. FleetInv /\ FleetInv' /\ [Next]_vars => [Fleet!Next]_(Fleet!fleetVars)
  BY FleetStep
<1> QED BY <1>1, <1>2, <1>3, FleetInvInit, PTL DEF Spec, ImplementsFleet, Fleet!Spec

-----------------------------------------------------------------------------
(* What Fleet promises is worth having *)

\* The API never shows a VM of a suspended tenant as running or paused, in the
\* middle of a request neither.
SuspensionShown ==
    \A v \in VMs :
        Shown[TenantOf[v]] = "suspended" => Shown[v] \notin {"running", "paused"}

\* What is shown as deleted is at most removed, and what is removed stays so.
EndedAt(s) == IF s = "deleted" THEN {"deleted", "gone"} ELSE {"gone"}

EndsStand ==
    [][\A x \in Rows : Shown[x] \in {"deleted", "gone"} => Shown'[x] \in EndedAt(Shown[x])]_vars

\* A row that Fleet moves is shown anew, and no other is.
LEMMA MoveShows ==
    ASSUME NEW x, NEW from, NEW to, Fleet!Move(x, from, to)
    PROVE  /\ Shown[x] \in from
           /\ \A y \in Rows : Shown'[y] = IF y = x THEN to ELSE Shown[y]
<1> DEFINE new == [y \in {x} |-> to]
<1>1. Shown[x] \in from /\ Fleet!Show(new)
  BY DEF Fleet!Move
<1>2. Shown' = [y \in Rows |-> IF y \in DOMAIN new THEN new[y] ELSE Shown[y]]
  BY <1>1 DEF Fleet!Show, Fleet!Rows, Rows
<1>3. \A y \in Rows : Shown'[y] = IF y \in DOMAIN new THEN new[y] ELSE Shown[y]
  BY <1>2
<1> QED BY <1>1, <1>3

\* A power action, a creation or a deletion moves one VM of an active tenant.
LEMMA OperateShows ==
    ASSUME NEW v \in VMs, Fleet!Operate(v)
    PROVE  /\ Shown[TenantOf[v]] = "active" /\ Shown[v] \notin {"deleted", "gone"}
           /\ \A y \in Rows : y # v => Shown'[y] = Shown[y]
<1>1. PICK from \in {{"absent"}, {"stopped"}, {"running"}, {"paused"},
                     {"running", "paused", "error"},
                     {"absent", "running", "stopped", "paused"},
                     {"stopped", "paused", "error"}} :
        \E to : Fleet!Move(v, from, to)
  BY DEF Fleet!Operate
<1>2. \A s \in from : s \notin {"deleted", "gone"}
  OBVIOUS
<1> QED BY <1>1, <1>2, MoveShows DEF Fleet!Operate

\* A suspension stops the VMs of the tenant that are on.
LEMMA SuspendShows ==
    ASSUME NEW t \in Tenants, Fleet!Suspend(t)
    PROVE  /\ Shown[t] = "active"
           /\ \A x \in Rows :
                IF x = t THEN Shown'[x] = "suspended"
                ELSE IF x \in VMsOf(t) /\ Shown[x] \in {"running", "paused"}
                THEN Shown'[x] \in {"stopped", "error"}
                ELSE Shown'[x] = Shown[x]
<1> DEFINE on == {v \in Fleet!VMsOf(t) : Shown[v] \in {"running", "paused"}}
<1>2. PICK end \in [on -> {"stopped", "error"}] :
        Shown' = [x \in Rows |-> IF x \in DOMAIN [y \in on \cup {t} |-> IF y = t THEN "suspended" ELSE end[y]]
                                 THEN [y \in on \cup {t} |-> IF y = t THEN "suspended" ELSE end[y]][x]
                                 ELSE Shown[x]]
  BY DEF Fleet!Suspend, Fleet!Show, Fleet!Rows, Rows
<1>4. \A x \in Rows :
        Shown'[x] = IF x \in on \cup {t} THEN (IF x = t THEN "suspended" ELSE end[x]) ELSE Shown[x]
  BY <1>2
<1>5. \A x : x \in on <=> x \in VMsOf(t) /\ Shown[x] \in {"running", "paused"}
  BY DEF VMsOf, Fleet!VMsOf
<1>6. Shown[t] = "active"
  BY DEF Fleet!Suspend
<1> QED BY <1>2, <1>4, <1>5, <1>6

\* A removal takes the tenant and VMs that are deleted.
LEMMA RemoveShows ==
    ASSUME NEW t \in Tenants, Fleet!Remove(t)
    PROVE  /\ Shown[t] = "suspended"
           /\ \A x \in Rows :
                IF x = t \/ (x \in VMsOf(t) /\ Shown[x] = "deleted") THEN Shown'[x] = "gone"
                ELSE Shown'[x] = Shown[x]
<1> DEFINE dead == {v \in Fleet!VMsOf(t) : Shown[v] = "deleted"}
<1>2. /\ Shown[t] = "suspended"
      /\ Shown' = [x \in Rows |-> IF x \in DOMAIN [y \in dead \cup {t} |-> "gone"]
                                  THEN [y \in dead \cup {t} |-> "gone"][x] ELSE Shown[x]]
  BY DEF Fleet!Remove, Fleet!Show, Fleet!Rows, Rows
<1>4. \A x \in Rows : Shown'[x] = IF x \in dead \cup {t} THEN "gone" ELSE Shown[x]
  BY <1>2
<1>5. \A x : x \in dead <=> x \in VMsOf(t) /\ Shown[x] = "deleted"
  BY DEF VMsOf, Fleet!VMsOf
<1> QED BY <1>2, <1>4, <1>5

LEMMA PromisesKept ==
    [Fleet!Next]_(Fleet!fleetVars) =>
        /\ SuspensionShown => SuspensionShown'
        /\ \A x \in Rows : Shown[x] \in {"deleted", "gone"} => Shown'[x] \in EndedAt(Shown[x])
<1> SUFFICES ASSUME [Fleet!Next]_(Fleet!fleetVars)
             PROVE  /\ SuspensionShown => SuspensionShown'
                    /\ \A x \in Rows :
                         Shown[x] \in {"deleted", "gone"} => Shown'[x] \in EndedAt(Shown[x])
  OBVIOUS
<1> DEFINE Kept == /\ SuspensionShown => SuspensionShown'
                   /\ \A x \in Rows :
                        Shown[x] \in {"deleted", "gone"} => Shown'[x] \in EndedAt(Shown[x])
<1>0. /\ \A v \in VMs : v \in Rows /\ v \notin Tenants /\ TenantOf[v] \in Tenants
      /\ \A t \in Tenants : t \in Rows
  BY RowsAssumption, TenantOfAssumption DEF Rows
<1> USE DEF EndedAt
<1>1. ASSUME NEW v \in VMs, Fleet!Operate(v) PROVE Kept
  <2>1. /\ Shown[TenantOf[v]] = "active" /\ Shown[v] \notin {"deleted", "gone"}
        /\ \A y \in Rows : y # v => Shown'[y] = Shown[y]
    BY <1>1, OperateShows
  <2> QED BY <1>0, <2>1 DEF SuspensionShown
<1>2. ASSUME NEW t \in Tenants, Fleet!Suspend(t) PROVE Kept
  <2>1. /\ Shown[t] = "active"
        /\ \A x \in Rows :
             IF x = t THEN Shown'[x] = "suspended"
             ELSE IF x \in VMsOf(t) /\ Shown[x] \in {"running", "paused"}
             THEN Shown'[x] \in {"stopped", "error"}
             ELSE Shown'[x] = Shown[x]
    BY <1>2, SuspendShows
  <2> QED BY <1>0, <2>1 DEF SuspensionShown, VMsOf
<1>3. ASSUME NEW t \in Tenants, Fleet!Remove(t) PROVE Kept
  <2>1. /\ Shown[t] = "suspended"
        /\ \A x \in Rows :
             IF x = t \/ (x \in VMsOf(t) /\ Shown[x] = "deleted") THEN Shown'[x] = "gone"
             ELSE Shown'[x] = Shown[x]
    BY <1>3, RemoveShows
  <2> QED BY <1>0, <2>1 DEF SuspensionShown
<1>4. ASSUME NEW t \in Tenants, NEW a \in {"absent", "suspended"},
             Fleet!Move(t, {a}, "active")
      PROVE  Kept
  <2>1. Shown[t] = a /\ \A y \in Rows : Shown'[y] = IF y = t THEN "active" ELSE Shown[y]
    BY <1>4, MoveShows
  <2> QED BY <1>0, <2>1 DEF SuspensionShown
<1>5. ASSUME UNCHANGED Fleet!fleetVars PROVE Kept
  <2>1. Shown' = Shown
    BY <1>5 DEF Fleet!fleetVars
  <2> QED BY <2>1 DEF SuspensionShown
<1> HIDE DEF Kept
<1>6. Kept
  BY <1>1, <1>2, <1>3, <1>4, <1>5 DEF Fleet!Next
<1> QED BY <1>6 DEF Kept

\* Under the same conditions the API keeps two promises, in the middle of requests
\* too: while it shows a tenant as suspended it shows none of its VMs as running or
\* paused, and what it has shown as deleted or removed never comes back.
THEOREM PromisesToUsers ==
    ASSUME Orderly PROVE Spec => []SuspensionShown /\ EndsStand
<1>1. Init => SuspensionShown
  <2> SUFFICES ASSUME Init PROVE SuspensionShown
    OBVIOUS
  <2>1. Shown = row
    BY FleetInvInit, ShownIs DEF FleetInv, Init
  <2> QED BY <2>1, TenantOfAssumption DEF Init, SuspensionShown, Rows
<1>2. FleetInv /\ [Next]_vars => FleetInv'
  BY FleetInvStep
<1>3. FleetInv /\ FleetInv' /\ [Next]_vars => [Fleet!Next]_(Fleet!fleetVars)
  BY FleetStep
<1>4. FleetInv /\ FleetInv' /\ [Next]_vars /\ SuspensionShown => SuspensionShown'
  BY <1>3, PromisesKept
<1>5. FleetInv /\ FleetInv' /\ [Next]_vars =>
        [\A x \in Rows : Shown[x] \in {"deleted", "gone"} => Shown'[x] \in EndedAt(Shown[x])]_vars
  BY <1>3, PromisesKept
<1> QED BY <1>1, <1>2, <1>4, <1>5, FleetInvInit, PTL DEF Spec, EndsStand

=============================================================================
