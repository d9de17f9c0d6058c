--------------------------- MODULE MeteringProofs ---------------------------
(* Theorems of Metering, for any VMs, tenants, intervals and months. *)
EXTENDS Metering, TLAPS

-----------------------------------------------------------------------------
(* Types *)

LEMMA Ticks ==
    /\ MeterInterval \in Nat /\ ManagerInterval \in Nat
    /\ PassTicks \in Nat /\ MonthTicks \in Nat \ {0}
    /\ Start \in Nat /\ Horizon \in Nat /\ Start <= Horizon
    /\ MaxErrors \in Nat /\ MaxFails \in Nat
BY TicksAssumption

\* A month of the calendar stays one, also over the end of a year.
LEMMA MonthOffsetType ==
    ASSUME NEW m \in Months, NEW k \in Nat
    PROVE  MonthOffset(m, k) \in Months
<1> DEFINE total == m[1] * 12 + (m[2] - 1) + k
<1>1. m[1] \in Nat /\ m[2] \in 1..12
  BY DEF Months
<1>2. total \in Nat
  BY <1>1
<1> HIDE DEF total
<1>3. total \div 12 \in Nat /\ total % 12 \in 0..11
  BY <1>2
<1>4. (total % 12) + 1 \in 1..12
  BY <1>3
<1>5. <<total \div 12, (total % 12) + 1>> \in Months
  BY <1>3, <1>4 DEF Months
<1> QED
  BY <1>5 DEF MonthOffset, total

LEMMA EnsuredType ==
    ASSUME TimeOK PROVE Ensured \subseteq Months
<1>1. since["manager"] \in Nat
  BY DEF TimeOK, Services
<1>2. since["manager"] \div MonthTicks \in Nat
  BY <1>1, Ticks
<1>3. Stamp \in Months
  BY <1>2, FirstMonthAssumption, MonthOffsetType DEF Stamp, MonthAt
<1>4. \A k \in 0..2 : MonthOffset(Stamp, k) \in Months
  BY <1>3, MonthOffsetType
<1> QED
  BY <1>4 DEF Ensured

LEMMA TypeInit == Init => TypeOK
<1> SUFFICES ASSUME Init PROVE TypeOK
  OBVIOUS
<1>1. partitions \subseteq Months
  BY DEF Init, Migrated, Months
<1> QED
  BY <1>1, Ticks DEF Init, TypeOK, TimeOK, TasksOK, RowsOK, CountsOK

LEMMA TimeNext ==
    ASSUME TimeOK, [Next]_vars PROVE TimeOK'
<1> USE DEF TimeOK, taskVars, dbVars, billVars, failVars
<1>1. CASE UNCHANGED vars
  BY <1>1 DEF vars
<1>2. CASE Boot
  BY <1>2 DEF Boot, Services
<1>3. CASE StopManager \/ StopMeter
  BY <1>3 DEF StopManager, StopMeter, Ended
<1>4. CASE ShutDown \/ Crash
  <2>1. Over
    BY <1>4 DEF ShutDown, Crash
  <2> QED
    BY <2>1 DEF Over
<1>5. ASSUME NEW s \in Services, Exit(s) PROVE TimeOK'
  BY <1>5 DEF Exit
<1>6. CASE ManagerTurn \/ MeterTurn
  BY <1>6 DEF ManagerTurn, MeterTurn, Turn
<1>7. CASE ManagerCommit \/ ManagerError
  BY <1>7 DEF ManagerCommit, ManagerError, ManagerDone, Up, Wait
<1>8. CASE MeterCommit \/ MeterError
  BY <1>8 DEF MeterCommit, MeterError, MeterFails, Wait
<1>9. ASSUME NEW v \in VMs, VMStarts(v) \/ VMStops(v) PROVE TimeOK'
  BY <1>9 DEF VMStarts, VMStops
<1>10. ASSUME NEW t \in Tenants, DeleteTenant(t) PROVE TimeOK'
  BY <1>10 DEF DeleteTenant
<1>11. CASE Tick
  BY <1>11 DEF Tick
<1> QED
  BY <1>1, <1>2, <1>3, <1>4, <1>5, <1>6, <1>7, <1>8, <1>9, <1>10, <1>11
     DEF Next, Manager, Meter, Services

LEMMA TasksNext ==
    ASSUME TasksOK, [Next]_vars PROVE TasksOK'
<1> USE DEF TasksOK, taskVars, dbVars, billVars, failVars
<1>1. CASE UNCHANGED vars
  BY <1>1 DEF vars
<1>2. CASE Boot
  BY <1>2 DEF Boot, Services
<1>3. CASE StopManager \/ StopMeter
  BY <1>3 DEF StopManager, StopMeter, Ended
<1>4. CASE ShutDown \/ Crash
  <2>1. Over
    BY <1>4 DEF ShutDown, Crash
  <2> QED
    BY <2>1 DEF Over
<1>5. ASSUME NEW s \in Services, Exit(s) PROVE TasksOK'
  BY <1>5 DEF Exit
<1>6. CASE ManagerTurn \/ MeterTurn
  BY <1>6 DEF ManagerTurn, MeterTurn, Turn
<1>7. CASE ManagerCommit \/ ManagerError
  BY <1>7 DEF ManagerCommit, ManagerError, ManagerDone, Up, Wait
<1>8. CASE MeterCommit \/ MeterError
  BY <1>8 DEF MeterCommit, MeterError, MeterFails, Wait
<1>9. ASSUME NEW v \in VMs, VMStarts(v) \/ VMStops(v) PROVE TasksOK'
  BY <1>9 DEF VMStarts, VMStops
<1>10. ASSUME NEW t \in Tenants, DeleteTenant(t) PROVE TasksOK'
  BY <1>10 DEF DeleteTenant
<1>11. CASE Tick
  BY <1>11 DEF Tick
<1> QED
  BY <1>1, <1>2, <1>3, <1>4, <1>5, <1>6, <1>7, <1>8, <1>9, <1>10, <1>11
     DEF Next, Manager, Meter, Services

LEMMA RowsNext ==
    ASSUME TimeOK, RowsOK, [Next]_vars PROVE RowsOK'
<1> USE DEF RowsOK, taskVars, dbVars, billVars, failVars
<1>1. CASE UNCHANGED vars
  BY <1>1 DEF vars
<1>2. CASE Boot
  BY <1>2 DEF Boot, Services
<1>3. CASE StopManager \/ StopMeter
  BY <1>3 DEF StopManager, StopMeter, Ended
<1>4. CASE ShutDown \/ Crash
  <2>1. Over
    BY <1>4 DEF ShutDown, Crash
  <2> QED
    BY <2>1 DEF Over
<1>5. ASSUME NEW s \in Services, Exit(s) PROVE RowsOK'
  BY <1>5 DEF Exit
<1>6. CASE ManagerTurn \/ MeterTurn
  BY <1>6 DEF ManagerTurn, MeterTurn, Turn
<1>7. CASE ManagerCommit \/ ManagerError
  BY <1>7, EnsuredType DEF ManagerCommit, ManagerError, ManagerDone, Up, Wait
<1>8. CASE MeterCommit \/ MeterError
  BY <1>8 DEF MeterCommit, MeterError, MeterFails, Wait
<1>9. ASSUME NEW v \in VMs, VMStarts(v) \/ VMStops(v) PROVE RowsOK'
  BY <1>9 DEF VMStarts, VMStops
<1>10. ASSUME NEW t \in Tenants, DeleteTenant(t) PROVE RowsOK'
  BY <1>10 DEF DeleteTenant
<1>11. CASE Tick
  BY <1>11 DEF Tick
<1> QED
  BY <1>1, <1>2, <1>3, <1>4, <1>5, <1>6, <1>7, <1>8, <1>9, <1>10, <1>11
     DEF Next, Manager, Meter, Services

LEMMA CountsNext ==
    ASSUME CountsOK, [Next]_vars PROVE CountsOK'
<1> USE DEF CountsOK, taskVars, dbVars, billVars, failVars
<1>1. CASE UNCHANGED vars
  BY <1>1 DEF vars
<1>2. CASE Boot
  BY <1>2 DEF Boot, Services
<1>3. CASE StopManager \/ StopMeter
  BY <1>3 DEF StopManager, StopMeter, Ended
<1>4. CASE ShutDown \/ Crash
  <2>1. Over
    BY <1>4 DEF ShutDown, Crash
  <2> QED
    BY <2>1 DEF Over
<1>5. ASSUME NEW s \in Services, Exit(s) PROVE CountsOK'
  BY <1>5 DEF Exit
<1>6. CASE ManagerTurn \/ MeterTurn
  BY <1>6 DEF ManagerTurn, MeterTurn, Turn
<1>7. CASE ManagerCommit \/ ManagerError
  <2>1. fails' \in Nat
    BY <1>7 DEF ManagerCommit, ManagerError
  <2>2. lapsed' \in BOOLEAN
    <3>1. lapsed' = FALSE \/ lapsed' = lapsed
      BY <1>7 DEF ManagerCommit, ManagerError
    <3> QED
      BY <3>1
  <2>3. ManagerDone
    BY <1>7 DEF ManagerCommit, ManagerError
  <2>4. billed' \in [VMs -> Nat] /\ excused' \in Nat
    BY <2>3 DEF ManagerDone, Up
  <2> QED
    BY <2>1, <2>2, <2>4
<1>8. CASE MeterCommit \/ MeterError
  BY <1>8 DEF MeterCommit, MeterError, MeterFails, Wait
<1>9. ASSUME NEW v \in VMs, VMStarts(v) \/ VMStops(v) PROVE CountsOK'
  BY <1>9 DEF VMStarts, VMStops
<1>10. ASSUME NEW t \in Tenants, DeleteTenant(t) PROVE CountsOK'
  BY <1>10 DEF DeleteTenant
<1>11. CASE Tick
  BY <1>11 DEF Tick
<1> QED
  BY <1>1, <1>2, <1>3, <1>4, <1>5, <1>6, <1>7, <1>8, <1>9, <1>10, <1>11
     DEF Next, Manager, Meter, Services

LEMMA TypeNext == TypeOK /\ [Next]_vars => TypeOK'
BY TimeNext, TasksNext, RowsNext, CountsNext DEF TypeOK

\* Every variable keeps its type: partitions are months of the calendar, no
\* wait begins in the future, and only VMs of a tenant run.
THEOREM TypeCorrect == Spec => []TypeOK
BY TypeInit, TypeNext, PTL DEF Spec

-----------------------------------------------------------------------------
(* The pace of metering *)

\* A VM has been billed once for every interval that went by between the start
\* and the last pass, and once for that pass when it is over.
Paced(v) ==
    /\ pc["meter"] \in {"none", "head"} => billed[v] = 0
    /\ pc["meter"] = "pass" => MeterInterval * billed[v] <= since["meter"] - upSince
    /\ pc["meter"] = "wait" => MeterInterval * (billed[v] - 1) <= since["meter"] - upSince
    /\ MeterInterval * (billed[v] - 1) <= now - upSince

MeterOK ==
    /\ pc["meter"] # "first"
    /\ life = "down" => pc["meter"] = "none"
    /\ pc["manager"] = "first" => pc["meter"] = "none"
    /\ pc["meter"] \in {"pass", "wait"} => upSince <= since["meter"]

PaceInv == TypeOK /\ MeterOK /\ \A v \in VMs : Paced(v)

LEMMA NextInterval ==
    ASSUME NEW i \in Nat, NEW b \in Nat
    PROVE  /\ i * (b + 1 - 1) = i * b
           /\ i * b = i * (b - 1) + i
           /\ i * 0 = 0 /\ i * (0 - 1) <= 0
           /\ i * b \in Nat /\ i * (b - 1) \in Int
OBVIOUS

LEMMA PaceInit == Init => PaceInv
<1> SUFFICES ASSUME Init PROVE PaceInv
  OBVIOUS
<1>1. TypeOK
  BY TypeInit
<1>2. \A v \in VMs : Paced(v)
  BY Ticks, NextInterval DEF Init, Paced, Services
<1> QED
  BY <1>1, <1>2 DEF Init, PaceInv, MeterOK, Services

\* What the steps need of the types.
LEMMA MeterTypes ==
    ASSUME TypeOK
    PROVE  /\ now \in Nat /\ upSince \in Nat /\ upSince <= now
           /\ since["meter"] \in Nat /\ since["meter"] <= now
           /\ "meter" \in Services /\ "manager" \in Services /\ "meter" # "manager"
           /\ pc \in [Services -> {"none", "first", "head", "pass", "wait", "done"}]
           /\ since \in [Services -> Nat]
           /\ \A v \in VMs : billed[v] \in Nat
           /\ MeterInterval \in Nat
<1>1. "meter" \in Services /\ "manager" \in Services /\ "meter" # "manager"
  BY DEF Services
<1>2. TimeOK /\ TasksOK /\ CountsOK
  BY DEF TypeOK
<1> QED
  BY <1>1, <1>2, Ticks DEF TimeOK, TasksOK, CountsOK

LEMMA MeterNext ==
    ASSUME TypeOK, MeterOK, [Next]_vars PROVE MeterOK'
<1> USE MeterTypes DEF MeterOK, taskVars, dbVars, billVars, failVars
<1>1. CASE UNCHANGED vars
  BY <1>1 DEF vars
<1>2. CASE Boot
  BY <1>2 DEF Boot
<1>3. CASE StopManager \/ StopMeter
  BY <1>3 DEF StopManager, StopMeter, Ended
<1>4. CASE ShutDown \/ Crash
  BY <1>4 DEF ShutDown, Crash, Over
<1>5. ASSUME NEW s \in Services, Exit(s) PROVE MeterOK'
  BY <1>5 DEF Exit
<1>6. CASE ManagerTurn \/ MeterTurn
  BY <1>6 DEF ManagerTurn, MeterTurn, Turn, Due
<1>7. CASE ManagerCommit \/ ManagerError
  <2>1. ManagerDone /\ UNCHANGED now
    BY <1>7 DEF ManagerCommit, ManagerError
  <2> QED
    BY <2>1 DEF ManagerDone, Up, Wait
<1>8. CASE MeterCommit \/ MeterError
  BY <1>8 DEF MeterCommit, MeterError, MeterFails, Wait
<1>9. ASSUME NEW v \in VMs, VMStarts(v) \/ VMStops(v) PROVE MeterOK'
  BY <1>9 DEF VMStarts, VMStops
<1>10. CASE Tick \/ \E t \in Tenants : DeleteTenant(t)
  BY <1>10 DEF Tick, DeleteTenant
<1> QED
  BY <1>1, <1>2, <1>3, <1>4, <1>5, <1>6, <1>7, <1>8, <1>9, <1>10
     DEF Next, Manager, Meter

LEMMA PacedNext ==
    ASSUME TypeOK, MeterOK, NEW v \in VMs, Paced(v), [Next]_vars
    PROVE  Paced(v)'
<1>0. /\ now \in Nat /\ upSince \in Nat /\ upSince <= now
      /\ since["meter"] \in Nat /\ since["meter"] <= now
      /\ billed[v] \in Nat /\ MeterInterval \in Nat
      /\ MeterInterval * billed[v] \in Nat /\ MeterInterval * (billed[v] - 1) \in Int
      /\ MeterInterval * billed[v] = MeterInterval * (billed[v] - 1) + MeterInterval
      /\ MeterInterval * 0 = 0 /\ MeterInterval * (0 - 1) <= 0
  BY MeterTypes, NextInterval
<1>1. ASSUME UNCHANGED <<now, upSince>>, billed'[v] = billed[v],
             pc'["meter"] = pc["meter"], since'["meter"] = since["meter"]
      PROVE  Paced(v)'
  BY <1>1 DEF Paced
<1>2. ASSUME billed'[v] = 0, pc'["meter"] \in {"none", "head"}, upSince' <= now',
             upSince' \in Nat, now' \in Nat
      PROVE  Paced(v)'
  BY <1>0, <1>2 DEF Paced
<1> USE DEF taskVars, dbVars, billVars, failVars
<1>3. CASE UNCHANGED vars
  BY <1>1, <1>3 DEF vars
<1>4. CASE Boot
  <2>1. pc'["meter"] = "none" /\ since'["meter"] = since["meter"]
    BY <1>4, MeterTypes DEF Boot
  <2> QED
    BY <1>0, <1>4, <2>1 DEF Boot, Paced, MeterOK
<1>5. CASE StopManager \/ StopMeter
  BY <1>1, <1>5 DEF StopManager, StopMeter, Ended
<1>6. CASE ShutDown \/ Crash
  <2>1. Over
    BY <1>6 DEF ShutDown, Crash
  <2>2. /\ billed'[v] = 0 /\ pc'["meter"] = "none" /\ upSince' = 0 /\ now' = now
    BY <2>1, MeterTypes DEF Over
  <2> QED
    BY <1>0, <1>2, <2>2
<1>7. CASE Exit("meter")
  <2>1. pc["meter"] \in {"head", "wait"} /\ pc'["meter"] = "done"
    BY <1>7, MeterTypes DEF Exit
  <2> QED
    BY <1>7, <2>1 DEF Exit, Paced
<1>8. CASE Exit("manager") \/ ManagerTurn
  <2>1. pc'["meter"] = pc["meter"] /\ since'["meter"] = since["meter"]
    BY <1>8, MeterTypes DEF Exit, ManagerTurn, Turn
  <2> QED
    BY <1>1, <1>8, <2>1 DEF Exit, ManagerTurn, Turn
<1>9. CASE MeterTurn
  <2>1. /\ \/ pc["meter"] = "head"
           \/ pc["meter"] = "wait" /\ now - since["meter"] >= MeterInterval
        /\ pc'["meter"] = "pass" /\ since'["meter"] = now
        /\ UNCHANGED <<now, upSince, billed>>
    BY <1>9, MeterTypes DEF MeterTurn, Turn, Due, Interval
  <2>2. MeterInterval * billed[v] <= now - upSince
    BY <1>0, <2>1 DEF Paced
  <2> QED
    BY <1>0, <2>1, <2>2 DEF Paced
<1>10. CASE ManagerCommit \/ ManagerError
  <2>1. ManagerDone /\ UNCHANGED now
    BY <1>10 DEF ManagerCommit, ManagerError
  <2>2. CASE pc["manager"] = "first" /\ Up
    <3>1. billed'[v] = 0 /\ pc'["meter"] = "head" /\ upSince' = now
      BY <2>2, MeterTypes DEF Up
    <3> QED
      BY <1>0, <1>2, <2>1, <3>1
  <2>3. CASE pc["manager"] = "pass" /\ Wait("manager") /\ UNCHANGED billVars
    <3>1. pc'["meter"] = pc["meter"] /\ since'["meter"] = since["meter"]
      BY <2>3, MeterTypes DEF Wait
    <3> QED
      BY <1>1, <2>1, <2>3, <3>1
  <2> QED
    BY <2>1, <2>2, <2>3 DEF ManagerDone
<1>11. CASE MeterCommit \/ MeterError
  <2>1. /\ pc["meter"] = "pass" /\ pc'["meter"] = "wait" /\ since'["meter"] = now
        /\ now' = now /\ upSince' = upSince
    BY <1>11, MeterTypes DEF MeterCommit, MeterError, MeterFails, Wait
  <2>2. billed'[v] = billed[v] \/ billed'[v] = billed[v] + 1
    BY <1>11 DEF MeterCommit, MeterError
  <2>3. MeterInterval * billed[v] <= now - upSince
    BY <1>0, <2>1 DEF Paced
  <2>4. MeterInterval * (billed[v] - 1) <= now - upSince
    BY <1>0, <2>3
  <2>5. MeterInterval * (billed'[v] - 1) <= now - upSince
    <3>1. CASE billed'[v] = billed[v]
      BY <2>4, <3>1
    <3>2. CASE billed'[v] = billed[v] + 1
      <4>1. billed'[v] - 1 = billed[v]
        BY <1>0, <3>2
      <4> QED
        BY <2>3, <4>1
    <3> QED
      BY <2>2, <3>1, <3>2
  <2> QED
    BY <2>1, <2>5 DEF Paced
<1>12. ASSUME NEW w \in VMs, VMStarts(w) \/ VMStops(w) PROVE Paced(v)'
  BY <1>1, <1>12 DEF VMStarts, VMStops
<1>13. ASSUME NEW t \in Tenants, DeleteTenant(t) PROVE Paced(v)'
  <2>1. UNCHANGED <<now, upSince, pc, since>>
    BY <1>13 DEF DeleteTenant
  <2>2. billed'[v] = billed[v] \/ billed'[v] = 0
    BY <1>13 DEF DeleteTenant
  <2>3. CASE billed'[v] = 0
    BY <1>0, <2>1, <2>3 DEF Paced, MeterOK
  <2> QED
    BY <1>1, <2>1, <2>2, <2>3
<1>14. CASE Tick
  <2>1. now' = now + 1 /\ UNCHANGED <<upSince, pc, since, billed>>
    BY <1>14 DEF Tick
  <2> QED
    BY <1>0, <2>1 DEF Paced
<1> QED
  BY <1>3, <1>4, <1>5, <1>6, <1>7, <1>8, <1>9, <1>10, <1>11, <1>12, <1>13, <1>14
     DEF Next, Manager, Meter

LEMMA PaceNext == PaceInv /\ [Next]_vars => PaceInv'
BY TypeNext, MeterNext, PacedNext DEF PaceInv

\* No VM is billed twice for one interval, whatever the interval, however long
\* a pass takes and whatever fails.
THEOREM BilledOncePerInterval == Spec => []NoOverbilling
<1>1. PaceInv => NoOverbilling
  BY DEF PaceInv, Paced, NoOverbilling
<1> QED
  BY <1>1, PaceInit, PaceNext, PTL DEF Spec

-----------------------------------------------------------------------------
(* Shutdown *)

\* Metering is stopped once the manager has ended, which begins only at a boot.
StopInv ==
    /\ TypeOK
    /\ pc["manager"] = "first" => life = "starting"
    /\ life = "stopping meter" => pc["manager"] = "done"

LEMMA StopNext == StopInv /\ [Next]_vars => StopInv'
<1> SUFFICES ASSUME StopInv, [Next]_vars PROVE StopInv'
  OBVIOUS
<1>0. TypeOK' /\ TasksOK /\ "meter" \in Services /\ "manager" \in Services
  BY TypeNext DEF StopInv, TypeOK, Services
<1> USE <1>0 DEF StopInv, TasksOK, taskVars, dbVars, billVars, failVars
<1>1. CASE UNCHANGED vars
  BY <1>1 DEF vars
<1>2. CASE Boot \/ StopManager \/ StopMeter \/ ShutDown \/ Crash
  BY <1>2 DEF Boot, StopManager, StopMeter, Ended, ShutDown, Crash, Over
<1>3. ASSUME NEW s \in Services, Exit(s) PROVE StopInv'
  BY <1>3 DEF Exit
<1>4. CASE ManagerTurn \/ MeterTurn
  BY <1>4 DEF ManagerTurn, MeterTurn, Turn, Due
<1>5. CASE ManagerCommit \/ ManagerError
  <2>1. ManagerDone
    BY <1>5 DEF ManagerCommit, ManagerError
  <2> QED
    BY <2>1 DEF ManagerDone, Up, Wait
<1>6. CASE MeterCommit \/ MeterError
  BY <1>6 DEF MeterCommit, MeterError, MeterFails, Wait
<1>7. ASSUME NEW v \in VMs, VMStarts(v) \/ VMStops(v) PROVE StopInv'
  BY <1>7 DEF VMStarts, VMStops
<1>8. CASE Tick \/ \E t \in Tenants : DeleteTenant(t)
  BY <1>8 DEF Tick, DeleteTenant
<1> QED
  BY <1>1, <1>2, <1>3, <1>4, <1>5, <1>6, <1>7, <1>8 DEF Next, Manager, Meter

\* When lifespan ends both loops have ended.
THEOREM QuietShutDown == Spec => ShutDownQuiet
<1>1. Init => StopInv
  BY TypeInit DEF Init, StopInv, Services
<1>2. StopInv /\ [Next]_vars => (ShutDown => \A s \in Services : pc[s] = "done")
  BY DEF StopInv, ShutDown, Ended, Services
<1> QED
  BY <1>1, <1>2, StopNext, PTL DEF Spec, ShutDownQuiet

-----------------------------------------------------------------------------
(* The clock of the two loops *)

\* While the application runs both loops go on: no pass takes longer than
\* PassTicks, no wait longer than its interval, and nothing is stopped.
Going(s) ==
    /\ pc[s] \in {"head", "pass", "wait"}
    /\ pc[s] = "pass" => now - since[s] <= PassTicks
    /\ pc[s] = "wait" => now - since[s] <= Interval(s)

LoopsOK ==
    /\ life \in {"down", "starting", "running"} => \A s \in Services : ~stop[s]
    /\ life = "down" => pc["manager"] = "none"
    /\ life = "starting" => pc["manager"] = "first"
    /\ pc["manager"] = "first" => now - since["manager"] <= PassTicks
    /\ life = "running" => \A s \in Services : Going(s)

LoopInv == StopInv /\ MeterOK /\ LoopsOK

\* What the steps need of the types of the two services.
LEMMA LoopTypes ==
    ASSUME LoopInv
    PROVE  /\ TypeOK /\ StopInv /\ MeterOK /\ LoopsOK
           /\ Services = {"meter", "manager"} /\ "meter" # "manager"
           /\ now \in Nat /\ upSince \in Nat
           /\ pc \in [Services -> {"none", "first", "head", "pass", "wait", "done"}]
           /\ since \in [Services -> Nat] /\ stop \in [Services -> BOOLEAN]
           /\ since["meter"] <= now /\ since["manager"] <= now
           /\ PassTicks \in Nat \ {0}
           /\ MeterInterval \in Nat \ {0} /\ ManagerInterval \in Nat \ {0}
           /\ Interval("meter") = MeterInterval /\ Interval("manager") = ManagerInterval
<1>1. Services = {"meter", "manager"} /\ "meter" # "manager"
  BY DEF Services
<1>2. TypeOK /\ StopInv /\ MeterOK /\ LoopsOK
  BY DEF LoopInv, StopInv
<1>3. TimeOK /\ TasksOK
  BY <1>2 DEF TypeOK
<1> QED
  BY <1>1, <1>2, <1>3, TicksAssumption DEF TimeOK, TasksOK, Interval

LEMMA LoopNext == LoopInv /\ [Next]_vars => LoopInv'
<1> SUFFICES ASSUME LoopInv, [Next]_vars PROVE LoopsOK'
  BY StopNext, MeterNext, LoopTypes DEF LoopInv
<1> USE LoopTypes DEF taskVars, dbVars, billVars, failVars
<1>a. ASSUME UNCHANGED <<now, life, pc, since, stop>> PROVE LoopsOK'
  BY <1>a DEF LoopsOK, Going, Interval
<1>b. ASSUME NEW s \in Services, pc'[s] = "wait" \/ pc'[s] = "pass", since'[s] = now,
             \A r \in Services : r # s => pc'[r] = pc[r] /\ since'[r] = since[r],
             s = "manager" => pc[s] \notin {"none", "first"},
             UNCHANGED <<now, life, stop>>
      PROVE  LoopsOK'
  <2>1. ASSUME life = "running", NEW r \in Services PROVE Going(r)'
    <3>1. CASE r = s
      BY <1>b, <3>1 DEF Going, Interval
    <3>2. CASE r # s
      BY <1>b, <2>1, <3>2 DEF LoopsOK, Going, Interval
    <3> QED BY <3>1, <3>2
  <2> QED BY <1>b, <2>1 DEF LoopsOK
<1>1. CASE UNCHANGED vars
  BY <1>a, <1>1 DEF vars
<1>2. CASE Boot
  BY <1>2 DEF Boot, LoopsOK
<1>3. CASE StopManager \/ StopMeter
  BY <1>3 DEF StopManager, StopMeter, LoopsOK, StopInv
<1>4. CASE ShutDown \/ Crash
  <2>1. Over
    BY <1>4 DEF ShutDown, Crash
  <2> QED BY <2>1 DEF Over, LoopsOK
<1>5. ASSUME NEW s \in Services, Exit(s) PROVE LoopsOK'
  <2>1. life \notin {"down", "starting", "running"}
    BY <1>5 DEF Exit, LoopsOK
  <2> QED BY <1>5, <2>1 DEF Exit, LoopsOK
<1>6. CASE ManagerTurn \/ MeterTurn
  <2>1. PICK s \in Services : Turn(s)
    BY <1>6 DEF ManagerTurn, MeterTurn
  <2> QED BY <1>b, <2>1 DEF Turn, Due
<1>7. CASE ManagerCommit \/ ManagerError
  <2>1. ManagerDone /\ UNCHANGED <<now, stop>>
    BY <1>7 DEF ManagerCommit, ManagerError
  <2>2. CASE pc["manager"] = "first" /\ Up /\ UNCHANGED since
    <3>1. \A s \in Services : ~stop[s]
      BY <2>2 DEF StopInv, LoopsOK
    <3> QED BY <2>1, <2>2, <3>1 DEF Up, LoopsOK, Going
  <2>3. CASE pc["manager"] = "pass" /\ Wait("manager") /\ UNCHANGED life
    BY <1>b, <2>1, <2>3 DEF Wait
  <2> QED BY <2>1, <2>2, <2>3 DEF ManagerDone
<1>8. CASE MeterCommit \/ MeterError
  BY <1>b, <1>8 DEF MeterCommit, MeterError, Wait
<1>9. CASE \/ \E v \in VMs : VMStarts(v) \/ VMStops(v)
           \/ \E t \in Tenants : DeleteTenant(t)
  BY <1>a, <1>9 DEF VMStarts, VMStops, DeleteTenant
<1>10. CASE Tick
  <2>1. /\ now' = now + 1 /\ UNCHANGED <<life, pc, since, stop>>
        /\ \A s \in Services : /\ ~Due(s)
                               /\ pc[s] \in {"first", "pass"} => now - since[s] < PassTicks
    BY <1>10 DEF Tick
  <2>2. now' - since["manager"] <= PassTicks \/ pc["manager"] # "first"
    BY <2>1
  <2>3. ASSUME NEW s \in Services, Going(s) PROVE Going(s)'
    <3>1. since[s] \in Nat /\ Interval(s) \in Nat
      OBVIOUS
    <3>2. pc[s] = "wait" => now - since[s] < Interval(s)
      BY <2>1, <3>1 DEF Due
    <3>3. pc[s] = "pass" => now - since[s] < PassTicks
      BY <2>1
    <3> QED BY <2>1, <2>3, <3>1, <3>2, <3>3 DEF Going, Interval
  <2> QED BY <2>1, <2>2, <2>3 DEF LoopsOK
<1> QED
  BY <1>1, <1>2, <1>3, <1>4, <1>5, <1>6, <1>7, <1>8, <1>9, <1>10
     DEF Next, Manager, Meter

LEMMA LoopInit == Init => LoopInv
BY TypeInit DEF Init, LoopInv, StopInv, MeterOK, LoopsOK, Services

-----------------------------------------------------------------------------
(* No interval is lost *)

\* k intervals, each stretched by a pass.
Stretched(k) == (MeterInterval + PassTicks) * k

\* A tenant of a selected VM has been deleted since, which was excused then.
Doomed == \E v \in rows : TenantOf[v] \notin tenants

\* How far the last pass or wait of metering began from its start, in intervals
\* of VM v that were billed or excused.
Kept(v) ==
    /\ pc["meter"] = "pass" =>
        since["meter"] - upSince
            <= Stretched(billed[v] + excused - IF Doomed THEN 1 ELSE 0)
    /\ pc["meter"] = "wait" =>
        since["meter"] - upSince <= Stretched(billed[v] + excused - 1) + PassTicks

KeptOK ==
    life = "running" =>
        /\ pc["meter"] = "head" => now = upSince
        /\ pc["meter"] = "pass" => steady \subseteq rows
        /\ \A v \in steady : Kept(v)

KeptInv == LoopInv /\ KeptOK

LEMMA StretchedNext ==
    ASSUME NEW k \in Int
    PROVE  /\ Stretched(k) \in Int
           /\ Stretched(k) = Stretched(k - 1) + MeterInterval + PassTicks
BY Ticks DEF Stretched

\* What less than k + 1 divisors have a quotient of at most k.
LEMMA QuotientBound ==
    ASSUME NEW x \in Nat, NEW s \in Nat \ {0}, NEW k \in Int, x < s * (k + 1)
    PROVE  x \div s <= k
<1>1. PICK q \in Int : q = x \div s /\ s * q <= x
  OBVIOUS
<1>2. ASSUME k + 1 <= q PROVE FALSE
  <2>1. PICK d \in Nat : q = (k + 1) + d
    <3>1. q - (k + 1) \in Nat
      BY <1>2
    <3> QED BY <3>1
  <2>2. s * q = s * (k + 1) + s * d /\ s * d \in Nat
    BY <2>1
  <2>3. s * (k + 1) \in Int /\ s * q \in Int
    OBVIOUS
  <2> QED BY <1>1, <2>2, <2>3
<1> QED BY <1>1, <1>2

\* A step that leaves metering alone, but for VMs that stop running.
LEMMA KeptUntouched ==
    ASSUME LoopInv, KeptOK, life' = life,
           UNCHANGED <<now, upSince, excused, rows, tenants>>,
           pc'["meter"] = pc["meter"], since'["meter"] = since["meter"],
           steady' \subseteq steady, \A v \in steady' : billed'[v] = billed[v]
    PROVE  KeptOK'
BY DEF KeptOK, Kept, Doomed

LEMMA KeptNext == KeptInv /\ [Next]_vars => KeptInv'
<1> SUFFICES ASSUME KeptInv, [Next]_vars, life' = "running" PROVE KeptOK'
  BY LoopNext DEF KeptInv, KeptOK
<1>0. LoopInv /\ LoopInv' /\ KeptOK
  BY LoopNext DEF KeptInv
<1>a. /\ excused \in Nat /\ billed \in [VMs -> Nat] /\ steady \subseteq VMs
      /\ steady \subseteq running /\ running \subseteq {v \in VMs : TenantOf[v] \in tenants}
      /\ tenants \subseteq Tenants
  BY <1>0, LoopTypes DEF TypeOK, CountsOK, RowsOK
<1>b. \A v \in VMs : billed[v] + excused \in Int
  BY <1>a
<1> USE <1>0, LoopTypes DEF taskVars, dbVars, billVars, failVars
<1>1. CASE UNCHANGED vars
  BY <1>1, KeptUntouched DEF vars
<1>2. CASE Boot \/ StopManager \/ StopMeter
  BY <1>2 DEF Boot, StopManager, StopMeter
<1>3. CASE ShutDown \/ Crash
  BY <1>3 DEF ShutDown, Crash, Over
<1>4. ASSUME NEW s \in Services, Exit(s) PROVE KeptOK'
  BY <1>4 DEF Exit, LoopsOK
<1>5. CASE ManagerTurn
  BY <1>5, KeptUntouched DEF ManagerTurn, Turn
<1>6. CASE MeterTurn
  <2>1. /\ pc["meter"] \in {"head", "wait"} /\ pc'["meter"] = "pass" /\ since'["meter"] = now
        /\ rows' = running
        /\ UNCHANGED <<now, life, tenants, billed, upSince, steady, excused>>
    BY <1>6 DEF MeterTurn, Turn, Due
  <2>2. ~Doomed'
    BY <1>a, <2>1 DEF Doomed
  <2>3. ASSUME NEW v \in steady PROVE now - upSince <= Stretched(billed[v] + excused)
    <3>1. CASE pc["meter"] = "head"
      BY <1>a, <2>1, <3>1, Ticks DEF KeptOK, Stretched
    <3>2. CASE pc["meter"] = "wait"
      <4>1. since["meter"] - upSince <= Stretched(billed[v] + excused - 1) + PassTicks
        BY <2>1, <3>2 DEF KeptOK, Kept
      <4>2. now - since["meter"] <= MeterInterval
        BY <2>1, <3>2 DEF LoopsOK, Going
      <4> QED BY <1>a, <1>b, <4>1, <4>2, StretchedNext
    <3> QED BY <2>1, <3>1, <3>2
  <2>4. ASSUME NEW v \in steady PROVE Kept(v)'
    <3>1. (billed[v] + excused - IF Doomed THEN 1 ELSE 0)' = billed[v] + excused
      BY <1>a, <2>1, <2>2
    <3>2. Stretched(billed[v] + excused - IF Doomed THEN 1 ELSE 0)' = Stretched(billed[v] + excused)
      BY <3>1 DEF Stretched
    <3> QED BY <2>1, <2>3, <3>2 DEF Kept
  <2> QED BY <1>a, <2>1, <2>4 DEF KeptOK
<1>7. CASE ManagerCommit \/ ManagerError
  <2>1. ManagerDone /\ UNCHANGED <<now, rows, tenants>>
    BY <1>7 DEF ManagerCommit, ManagerError
  <2>2. CASE Up
    BY <2>1, <2>2 DEF Up, KeptOK, Kept
  <2>3. CASE Wait("manager") /\ UNCHANGED <<life, billVars>>
    BY <2>1, <2>3, KeptUntouched DEF Wait
  <2> QED BY <2>1, <2>2, <2>3 DEF ManagerDone
<1>8. CASE MeterCommit \/ MeterError
  <2>1. /\ pc["meter"] = "pass" /\ pc'["meter"] = "wait" /\ since'["meter"] = now
        /\ now - since["meter"] <= PassTicks /\ steady \subseteq rows
        /\ UNCHANGED <<now, life, upSince, steady>>
    BY <1>8 DEF MeterCommit, MeterError, Wait, LoopsOK, Going, KeptOK
  <2>2. ASSUME NEW v \in steady
        PROVE  since["meter"] - upSince <= Stretched(billed'[v] + excused' - 1)
    <3>1. since["meter"] - upSince
            <= Stretched(billed[v] + excused - IF Doomed THEN 1 ELSE 0)
      BY <2>1 DEF KeptOK, Kept
    <3>2. billed[v] + excused - 0 = (billed[v] + 1) + excused - 1
          /\ billed[v] + excused - 0 = billed[v] + (excused + 1) - 1
      BY <1>a
    <3>3. Stretched(billed[v] + excused - 1) <= Stretched(billed[v] + excused - 0)
      BY <1>a, <1>b, Ticks, StretchedNext
    <3>4. Stretched(billed[v] + excused - 1) \in Int /\ Stretched(billed[v] + excused - 0) \in Int
      BY <1>a, <1>b, StretchedNext
    <3>5. CASE MeterCommit
      <4>1. billed'[v] = billed[v] + 1 /\ excused' = excused
        BY <1>a, <2>1, <3>5 DEF MeterCommit
      <4> QED BY <3>1, <3>2, <3>3, <3>4, <4>1
    <3>6. CASE MeterError /\ excused' = excused + 1
      <4>1. billed' = billed
        BY <3>6 DEF MeterError
      <4> QED BY <3>1, <3>2, <3>3, <3>4, <3>6, <4>1
    <3>7. CASE MeterError /\ excused' = excused /\ Doomed
      <4>1. billed' = billed
        BY <3>7 DEF MeterError
      <4> QED BY <3>1, <3>7, <4>1
    <3>8. MeterError => excused' = excused + 1 \/ (excused' = excused /\ Doomed)
      BY DEF MeterError, MeterFails, Owned, Doomed
    <3> QED BY <1>8, <3>5, <3>6, <3>7, <3>8
  <2>3. ASSUME NEW v \in steady PROVE Kept(v)'
    <3>1. since["meter"] - upSince <= Stretched(billed'[v] + excused' - 1)
          /\ Stretched(billed'[v] + excused' - 1) \in Int
      <4>1. billed'[v] + excused' - 1 \in Int
        BY <1>a, TypeNext, KeptInv, [Next]_vars DEF TypeOK, CountsOK
      <4> QED BY <2>2, <4>1, StretchedNext
    <3>2. since'["meter"] - upSince' <= Stretched(billed'[v] + excused' - 1) + PassTicks
      BY <2>1, <3>1
    <3>3. Stretched(billed[v] + excused - 1)' = Stretched(billed'[v] + excused' - 1)
      BY DEF Stretched
    <3> QED BY <2>1, <3>2, <3>3 DEF Kept
  <2> QED BY <2>1, <2>3 DEF KeptOK
<1>9. ASSUME NEW v \in VMs, VMStarts(v) \/ VMStops(v) PROVE KeptOK'
  BY <1>9, KeptUntouched DEF VMStarts, VMStops
<1>10. ASSUME NEW t \in Tenants, DeleteTenant(t) PROVE KeptOK'
  <2>1. /\ excused' = excused + 1 /\ steady' = steady \ {v \in VMs : TenantOf[v] = t}
        /\ UNCHANGED <<now, life, pc, since, rows, upSince>>
        /\ \A v \in steady' : billed'[v] = billed[v]
    BY <1>10, <1>a DEF DeleteTenant
  <2>2. ASSUME NEW v \in steady' PROVE Kept(v)'
    <3>1. /\ v \in steady /\ v \in VMs /\ Kept(v)
          /\ billed'[v] + excused' = billed[v] + excused + 1
      BY <1>a, <2>1 DEF KeptOK
    <3>2. PICK k \in Nat : k = billed[v] + excused
      BY <1>a, <3>1
    <3>3. Stretched(k - 1) <= Stretched(k) /\ Stretched(k) <= Stretched(k + 1)
          /\ Stretched(k - 1) \in Int /\ Stretched(k) \in Int /\ Stretched(k + 1) \in Int
      <4>1. k \in Int /\ k - 1 \in Int /\ k + 1 \in Int /\ (k + 1) - 1 = k
        OBVIOUS
      <4> QED BY <4>1, StretchedNext
    <3>4. (billed[v] + excused)' = k + 1
      BY <2>1, <3>1, <3>2
    <3>5. ASSUME NEW x, x = Stretched(billed[v] + excused - IF Doomed THEN 1 ELSE 0)
          PROVE  x \in {Stretched(k - 1), Stretched(k)}
      BY <1>a, <3>1, <3>2, <3>5
    <3>6. ASSUME NEW x, x = Stretched(billed[v] + excused - IF Doomed THEN 1 ELSE 0)'
          PROVE  x \in {Stretched(k), Stretched(k + 1)}
      <4>1. (billed[v] + excused - IF Doomed THEN 1 ELSE 0)' \in {k, k + 1}
        BY <1>a, <2>1, <3>1, <3>2
      <4> QED BY <3>6, <4>1 DEF Stretched
    <3>7. Stretched(billed[v] + excused - 1)' = Stretched(k)
      <4>1. (billed[v] + excused - 1)' = k
        BY <1>a, <2>1, <3>1, <3>2
      <4> QED BY <4>1 DEF Stretched
    <3>8. Stretched(billed[v] + excused - 1) = Stretched(k - 1)
      BY <1>a, <3>1, <3>2
    <3> QED BY <2>1, <3>1, <3>3, <3>5, <3>6, <3>7, <3>8 DEF Kept
  <2> QED BY <2>1, <2>2 DEF KeptOK
<1>11. CASE Tick
  <2>1. pc["meter"] # "head"
    BY <1>11 DEF Tick, Due
  <2> QED BY <1>11, <2>1 DEF Tick, KeptOK, Kept, Doomed
<1> QED
  BY <1>1, <1>2, <1>3, <1>4, <1>5, <1>6, <1>7, <1>8, <1>9, <1>10, <1>11
     DEF Next, Manager, Meter

LEMMA KeptEnough == KeptInv => NoLostInterval
<1> SUFFICES ASSUME KeptInv, life = "running", NEW v \in steady
             PROVE  billed[v] + excused >= (now - upSince) \div (MeterInterval + PassTicks)
  BY DEF NoLostInterval
<1>0. LoopInv /\ KeptOK /\ Kept(v)
  BY DEF KeptInv, KeptOK
<1> USE <1>0, LoopTypes
<1>1. /\ excused \in Nat /\ billed[v] \in Nat /\ upSince <= now
  BY DEF TypeOK, CountsOK, RowsOK, TimeOK
<1>2. PICK k \in Nat : k = billed[v] + excused
  BY <1>1
<1>g. Going("meter")
  BY DEF LoopsOK
<1>3. now - upSince < Stretched(k + 1)
  <2>1. /\ Stretched(k - 1) \in Int /\ Stretched(k) \in Int /\ Stretched(k + 1) \in Int
        /\ Stretched(k) = Stretched(k - 1) + MeterInterval + PassTicks
        /\ Stretched(k + 1) = Stretched(k) + MeterInterval + PassTicks
        /\ k - 0 = k
    <3>1. k \in Int /\ k + 1 \in Int /\ (k + 1) - 1 = k
      OBVIOUS
    <3> QED BY <3>1, StretchedNext
  <2>2. CASE pc["meter"] = "head"
    <3>1. now = upSince
      BY <2>2 DEF KeptOK
    <3>2. (MeterInterval + PassTicks) * (k + 1) > 0
      BY <1>2
    <3> QED BY <3>1, <3>2 DEF Stretched
  <2>3. CASE pc["meter"] = "pass"
    <3>1. /\ since["meter"] - upSince <= Stretched(k - IF Doomed THEN 1 ELSE 0)
          /\ now - since["meter"] <= PassTicks
      BY <1>1, <1>2, <1>g, <2>3 DEF Kept, Going
    <3>2. Stretched(k - IF Doomed THEN 1 ELSE 0) <= Stretched(k)
      BY <2>1
    <3>3. Stretched(k - IF Doomed THEN 1 ELSE 0) \in Int
      BY <2>1
    <3> QED BY <2>1, <3>1, <3>2, <3>3
  <2>4. CASE pc["meter"] = "wait"
    <3>1. /\ since["meter"] - upSince <= Stretched(k - 1) + PassTicks
          /\ now - since["meter"] <= MeterInterval
      BY <1>1, <1>2, <1>g, <2>4 DEF Kept, Going
    <3>2. Stretched(k) < Stretched(k + 1)
      BY <2>1
    <3>3. now - upSince <= Stretched(k)
      BY <1>1, <2>1, <3>1
    <3> QED BY <1>1, <2>1, <3>2, <3>3
  <2> QED BY <1>g, <2>2, <2>3, <2>4 DEF Going
<1>4. (now - upSince) \div (MeterInterval + PassTicks) <= k
  <2>1. now - upSince \in Nat /\ MeterInterval + PassTicks \in Nat \ {0} /\ k \in Int
    BY <1>1
  <2> QED BY <1>3, <2>1, QuotientBound DEF Stretched
<1> QED BY <1>2, <1>4

\* A VM that runs all the time is billed for every interval, stretched by the
\* time a pass takes, but for one per excuse: whatever the intervals, the passes
\* and the tenants deleted in the middle of one.
THEOREM IntervalsBilled == Spec => []NoLostInterval
<1>1. Init => KeptInv
  BY LoopInit DEF Init, KeptInv, KeptOK
<1> QED BY <1>1, KeptNext, KeptEnough, PTL DEF Spec

-----------------------------------------------------------------------------
(* Partitions *)

\* k passes of the manager, with their waits.
Rounds(k) == (ManagerInterval + PassTicks) * k

\* A pass that began at t has ensured its month and the next two; the passes
\* since then failed.
EnsuredAt(t) ==
    /\ \A k \in 0..2 : MonthOffset(MonthAt(t), k) \in partitions
    /\ pc["manager"] = "head" => now <= t + Rounds(fails) + PassTicks
    /\ pc["manager"] = "wait" => since["manager"] <= t + Rounds(fails) + PassTicks
    /\ pc["manager"] = "pass" => since["manager"] <= t + Rounds(fails + 1)

AheadOK ==
    /\ life \in {"down", "starting"} => lapsed
    /\ life = "running" => IF lapsed THEN fails > 0
                           ELSE \E t \in 0..now : EnsuredAt(t)

AheadInv == LoopInv /\ AheadOK

\* Offsets add up, over the end of a year too.
LEMMA MonthOffsetAdd ==
    ASSUME NEW m \in Months, NEW a \in Nat, NEW b \in Nat
    PROVE  MonthOffset(MonthOffset(m, a), b) = MonthOffset(m, a + b)
<1> DEFINE total == m[1] * 12 + (m[2] - 1) + a
<1>1. m[1] \in Nat /\ m[2] \in 1..12
  BY DEF Months
<1>2. total \in Nat /\ m[1] * 12 + (m[2] - 1) + (a + b) = total + b
  BY <1>1
<1> HIDE DEF total
<1>3. PICK y \in Nat, z \in 1..12 :
        y = total \div 12 /\ z = (total % 12) + 1 /\ y * 12 + (z - 1) = total
  BY <1>2
<1>4. MonthOffset(m, a) = <<y, z>>
  BY <1>3 DEF MonthOffset, total
<1>5. MonthOffset(<<y, z>>, b) = <<(total + b) \div 12, ((total + b) % 12) + 1>>
  <2>1. <<y, z>>[1] * 12 + (<<y, z>>[2] - 1) + b = total + b
    BY <1>3
  <2> QED BY <2>1 DEF MonthOffset
<1> QED BY <1>2, <1>4, <1>5 DEF MonthOffset, total

\* Two months and a tick later is the first tick of a month not ensured: until
\* then the month is one of three.
LEMMA MonthsEnsured ==
    ASSUME NEW t \in Nat, NEW u \in Nat, t <= u, u <= t + 2 * MonthTicks
    PROVE  \E k \in 0..2 : MonthAt(u) = MonthOffset(MonthAt(t), k)
<1> DEFINE a == t \div MonthTicks
           b == u \div MonthTicks
<1>0. MonthTicks \in Nat \ {0}
  BY Ticks
<1>1. /\ a \in Nat /\ MonthTicks * a <= t /\ t < MonthTicks * (a + 1)
      /\ b \in Nat /\ MonthTicks * b <= u /\ u < MonthTicks * (b + 1)
  BY <1>0
<1> HIDE DEF a, b
<1>2. a <= b
  <2>1. ASSUME b + 1 <= a PROVE FALSE
    <3>1. PICK d \in Nat : a = (b + 1) + d
      <4>1. a - (b + 1) \in Nat
        BY <1>1, <2>1
      <4> QED BY <1>1, <4>1
    <3>2. MonthTicks * a = MonthTicks * (b + 1) + MonthTicks * d /\ MonthTicks * d \in Nat
      BY <1>0, <1>1, <3>1
    <3>3. MonthTicks * (b + 1) \in Int /\ MonthTicks * a \in Int
      BY <1>0, <1>1
    <3> QED BY <1>1, <3>2, <3>3
  <2> QED BY <1>1, <2>1
<1>3. b <= a + 2
  <2>1. ASSUME a + 3 <= b PROVE FALSE
    <3>1. PICK d \in Nat : b = (a + 3) + d
      <4>1. b - (a + 3) \in Nat
        BY <1>1, <2>1
      <4> QED BY <1>1, <4>1
    <3>2. MonthTicks * b = MonthTicks * (a + 1) + 2 * MonthTicks + MonthTicks * d
          /\ MonthTicks * d \in Nat
      BY <1>0, <1>1, <3>1
    <3>3. MonthTicks * (a + 1) \in Int /\ MonthTicks * b \in Int
      BY <1>0, <1>1
    <3> QED BY <1>0, <1>1, <3>2, <3>3
  <2> QED BY <1>1, <2>1
<1>4. PICK k \in 0..2 : b = a + k
  <2>1. b - a \in 0..2 /\ b = a + (b - a)
    BY <1>1, <1>2, <1>3
  <2> QED BY <2>1
<1>5. MonthOffset(FirstMonth, a + k) = MonthOffset(MonthOffset(FirstMonth, a), k)
  BY <1>1, FirstMonthAssumption, MonthOffsetAdd
<1> QED BY <1>4, <1>5 DEF MonthAt, a, b

LEMMA RoundsNext ==
    ASSUME NEW k \in Nat
    PROVE  /\ Rounds(k) \in Nat /\ Rounds(k + 1) \in Nat
           /\ Rounds(k + 1) = Rounds(k) + ManagerInterval + PassTicks
           /\ Rounds(0) = 0
BY Ticks DEF Rounds

\* A step that the manager takes no part in, with time standing still.
LEMMA AheadUntouched ==
    ASSUME LoopInv, AheadOK, life' = life, UNCHANGED <<now, partitions, fails, lapsed>>,
           pc'["manager"] = pc["manager"], since'["manager"] = since["manager"]
    PROVE  AheadOK'
BY DEF AheadOK, EnsuredAt

LEMMA AheadNext == AheadInv /\ [Next]_vars => AheadInv'
<1> SUFFICES ASSUME AheadInv, [Next]_vars PROVE AheadOK'
  BY LoopNext DEF AheadInv
<1>0. LoopInv /\ LoopInv' /\ AheadOK
  BY LoopNext DEF AheadInv
<1>a. fails \in Nat /\ lapsed \in BOOLEAN
  BY <1>0, LoopTypes DEF TypeOK, CountsOK
<1>b. /\ Rounds(fails) \in Nat /\ Rounds(fails + 1) \in Nat
      /\ Rounds(fails + 1) = Rounds(fails) + ManagerInterval + PassTicks
  BY <1>a, RoundsNext
<1> USE <1>0, LoopTypes DEF taskVars, dbVars, billVars, failVars
<1>1. CASE UNCHANGED vars
  BY <1>1, AheadUntouched DEF vars
<1>2. CASE Boot \/ StopManager \/ StopMeter
  BY <1>2 DEF Boot, StopManager, StopMeter, AheadOK
<1>3. CASE ShutDown \/ Crash
  BY <1>3 DEF ShutDown, Crash, Over, AheadOK
<1>4. ASSUME NEW s \in Services, Exit(s) PROVE AheadOK'
  BY <1>4 DEF Exit, LoopsOK, AheadOK
<1>5. CASE MeterTurn
  BY <1>5, AheadUntouched DEF MeterTurn, Turn
<1>6. CASE ManagerTurn
  <2>1. /\ pc["manager"] \in {"head", "wait"} /\ pc'["manager"] = "pass"
        /\ since'["manager"] = now
        /\ UNCHANGED <<now, life, partitions, fails, lapsed>>
    BY <1>6 DEF ManagerTurn, Turn, Due
  <2>2. CASE lapsed \/ life # "running"
    BY <2>1, <2>2 DEF AheadOK
  <2>3. CASE ~lapsed /\ life = "running"
    <3>1. PICK t \in 0..now : EnsuredAt(t)
      BY <2>1, <2>3 DEF AheadOK
    <3>2. CASE pc["manager"] = "head"
      <4>1. now <= t + Rounds(fails + 1)
        BY <1>b, <3>1, <3>2 DEF EnsuredAt
      <4> QED BY <2>1, <2>3, <3>1, <4>1 DEF AheadOK, EnsuredAt
    <3>3. CASE pc["manager"] = "wait"
      <4>1. Going("manager")
        BY <2>3 DEF LoopsOK
      <4>2. now - since["manager"] <= ManagerInterval
        BY <3>3, <4>1 DEF Going
      <4>3. now <= t + Rounds(fails + 1)
        BY <1>b, <3>1, <3>3, <4>2 DEF EnsuredAt
      <4> QED BY <2>1, <2>3, <3>1, <4>3 DEF AheadOK, EnsuredAt
    <3> QED BY <2>1, <3>2, <3>3
  <2> QED BY <2>2, <2>3
<1>7. ASSUME ManagerCommit \/ ManagerError
      PROVE  /\ UNCHANGED now /\ life' \notin {"down", "starting"}
             /\ \/ pc["manager"] = "first" /\ pc'["manager"] = "head" /\ life = "starting"
                \/ /\ pc["manager"] = "pass" /\ pc'["manager"] = "wait"
                   /\ since'["manager"] = now /\ life' = life
             /\ life' = "running" => now - since["manager"] <= PassTicks
  <2>1. ManagerDone /\ UNCHANGED now
    BY <1>7 DEF ManagerCommit, ManagerError
  <2>2. CASE pc["manager"] = "first" /\ Up
    BY <2>1, <2>2 DEF Up, LoopsOK, StopInv
  <2>3. CASE pc["manager"] = "pass" /\ Wait("manager") /\ UNCHANGED life
    <3>1. life \notin {"down", "starting"}
      BY <2>3 DEF LoopsOK
    <3>2. life = "running" => now - since["manager"] <= PassTicks
      BY <2>3 DEF LoopsOK, Going
    <3> QED BY <2>1, <2>3, <3>1, <3>2 DEF Wait
  <2> QED BY <2>1, <2>2, <2>3 DEF ManagerDone
<1>8. CASE ManagerCommit
  <2>1. fails' = 0 /\ lapsed' = FALSE /\ partitions' = partitions \cup Ensured
    BY <1>8 DEF ManagerCommit
  <2>2. PICK t \in 0..now : t = since["manager"]
    OBVIOUS
  <2>3. \A k \in 0..2 : MonthOffset(MonthAt(t), k) \in partitions'
    BY <2>1, <2>2 DEF Ensured, Stamp
  <2>4. ASSUME life' = "running" PROVE EnsuredAt(t)'
    <3>1. now <= t + 0 + PassTicks /\ Rounds(0) = 0
      BY <1>7, <1>8, <2>2, <2>4, RoundsNext
    <3> QED BY <1>7, <1>8, <2>1, <2>3, <3>1 DEF EnsuredAt, Rounds
  <2> QED BY <1>7, <1>8, <2>1, <2>4 DEF AheadOK
<1>9. CASE ManagerError
  <2>1. fails' = fails + 1 /\ UNCHANGED <<lapsed, partitions>>
    BY <1>9 DEF ManagerError
  <2>2. CASE lapsed \/ life' # "running"
    BY <1>a, <1>7, <1>9, <2>1, <2>2 DEF AheadOK
  <2>3. CASE ~lapsed /\ life' = "running"
    <3>1. pc["manager"] = "pass" /\ pc'["manager"] = "wait" /\ since'["manager"] = now
          /\ life = "running"
      BY <1>7, <1>9, <2>3 DEF AheadOK
    <3>2. PICK t \in 0..now : EnsuredAt(t)
      BY <2>3, <3>1 DEF AheadOK
    <3>3. now <= t + Rounds(fails + 1) + PassTicks
      BY <1>7, <1>9, <1>b, <2>3, <3>1, <3>2 DEF EnsuredAt
    <3>4. EnsuredAt(t)'
      BY <2>1, <3>1, <3>2, <3>3, <1>7, <1>9 DEF EnsuredAt, Rounds
    <3> QED BY <1>7, <1>9, <2>1, <2>3, <3>4 DEF AheadOK
  <2> QED BY <2>2, <2>3
<1>10. CASE MeterCommit \/ MeterError
  BY <1>10, AheadUntouched DEF MeterCommit, MeterError, Wait
<1>11. CASE \/ \E v \in VMs : VMStarts(v) \/ VMStops(v)
            \/ \E t \in Tenants : DeleteTenant(t)
  BY <1>11, AheadUntouched DEF VMStarts, VMStops, DeleteTenant
<1>12. CASE Tick
  <2>1. /\ pc["manager"] # "head" /\ now' = now + 1
        /\ UNCHANGED <<life, pc, since, partitions, fails, lapsed>>
    BY <1>12 DEF Tick, Due
  <2>2. \A t \in 0..now : EnsuredAt(t) => EnsuredAt(t)' /\ t \in 0..now'
    BY <2>1 DEF EnsuredAt
  <2> QED BY <2>1, <2>2 DEF AheadOK
<1> QED
  BY <1>1, <1>2, <1>3, <1>4, <1>5, <1>6, <1>8, <1>9, <1>10, <1>11, <1>12
     DEF Next, Manager, Meter

\* Tolerated counts the rounds that fit into the two months, but for the one
\* whose pass succeeded.
LEMMA ToleratedBound ==
    ASSUME NEW f \in Nat, 2 * MonthTicks + 1 < Rounds(f + 2) PROVE f >= Tolerated
<1> DEFINE q == ManagerInterval + PassTicks
           x == 2 * MonthTicks + 1
<1>1. /\ q \in Nat \ {0} /\ x \in Nat /\ f + 1 \in Int /\ x < q * ((f + 1) + 1)
      /\ Tolerated = x \div q - 1
  <2>1. q \in Nat \ {0} /\ x \in Nat
    BY TicksAssumption
  <2>2. (f + 1) + 1 = f + 2
    OBVIOUS
  <2> QED BY <2>1, <2>2 DEF Rounds, Tolerated
<1> HIDE DEF q, x
<1>2. x \div q <= f + 1
  BY <1>1, QuotientBound
<1>3. x \div q \in Int
  BY <1>1
<1> QED BY <1>1, <1>2, <1>3

LEMMA AheadEnough == AheadInv => PartitionsAhead
<1> SUFFICES ASSUME AheadInv, life = "running", MonthAt(now) \notin partitions, ~lapsed
             PROVE  fails >= Tolerated
  BY DEF PartitionsAhead, AheadInv, AheadOK
<1>0. LoopInv /\ AheadOK
  BY DEF AheadInv
<1> USE <1>0, LoopTypes
<1>1. PICK t \in 0..now : EnsuredAt(t)
  BY DEF AheadOK
<1>2. fails \in Nat /\ fails + 1 \in Nat
  BY DEF TypeOK, CountsOK
<1>3. now > t + 2 * MonthTicks
  <2>1. ASSUME now <= t + 2 * MonthTicks PROVE FALSE
    <3>1. PICK k \in 0..2 : MonthAt(now) = MonthOffset(MonthAt(t), k)
      BY <2>1, MonthsEnsured
    <3> QED BY <1>1, <3>1 DEF EnsuredAt
  <2> QED BY <2>1, Ticks
<1>4. /\ Rounds(fails) \in Nat /\ Rounds(fails + 1) \in Nat /\ Rounds(fails + 2) \in Nat
      /\ Rounds(fails + 1) = Rounds(fails) + ManagerInterval + PassTicks
      /\ Rounds(fails + 2) = Rounds(fails + 1) + ManagerInterval + PassTicks
  <2>1. (fails + 1) + 1 = fails + 2
    BY <1>2
  <2> QED BY <1>2, <2>1, RoundsNext
<1>5. now < t + Rounds(fails + 2)
  <2>1. Going("manager")
    BY DEF LoopsOK
  <2>5. now \in Nat /\ t \in Nat /\ since["manager"] \in Nat /\ fails + 1 \in Nat
        /\ ManagerInterval \in Nat \ {0} /\ PassTicks \in Nat \ {0}
    BY <1>2
  <2>2. CASE pc["manager"] = "head"
    <3>1. now <= t + Rounds(fails) + PassTicks
      BY <1>1, <2>2 DEF EnsuredAt
    <3> QED BY <1>4, <2>5, <3>1
  <2>3. CASE pc["manager"] = "wait"
    <3>1. now - since["manager"] <= ManagerInterval
      BY <2>1, <2>3 DEF Going
    <3>2. since["manager"] <= t + Rounds(fails) + PassTicks
      BY <1>1, <2>3 DEF EnsuredAt
    <3> QED BY <1>4, <2>5, <3>1, <3>2
  <2>4. CASE pc["manager"] = "pass"
    <3>1. now - since["manager"] <= PassTicks
      BY <2>1, <2>4 DEF Going
    <3>2. since["manager"] <= t + Rounds(fails + 1)
      BY <1>1, <2>4 DEF EnsuredAt
    <3> QED BY <1>4, <2>5, <3>1, <3>2
  <2> QED BY <2>1, <2>2, <2>3, <2>4 DEF Going
<1>6. 2 * MonthTicks + 1 < Rounds(fails + 2)
  BY <1>3, <1>4, <1>5, Ticks
<1> QED BY <1>2, <1>6, ToleratedBound

\* While metering runs the current month has a partition, unless the manager's
\* first pass failed or every pass since its last success, for two months, did:
\* whatever the intervals, the length of a month and where the year ends.
THEOREM PartitionsStayAhead == Spec => []PartitionsAhead
<1>1. Init => AheadInv
  BY LoopInit DEF Init, AheadInv, AheadOK
<1> QED BY <1>1, AheadNext, AheadEnough, PTL DEF Spec

=============================================================================
