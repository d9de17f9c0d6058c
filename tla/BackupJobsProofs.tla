--------------------------- MODULE BackupJobsProofs ---------------------------
(* Theorems of BackupJobs, for all values of its constants. *)
EXTENDS BackupJobs, TLAPS

-----------------------------------------------------------------------------
(* Types *)

\* A deliverable message has deliveries left; no message exists, and no worker
\* has it, before its request has published it.
BrokerOK ==
    /\ \A j \in Jobs :
        /\ msg[j] \in {"ready", "delayed"} => delivered[j] < MaxDeliver
        /\ request[j] # "done" => msg[j] = "unsent" /\ delivered[j] = 0
    /\ \A w \in Workers : wjob[w] # NoJob => request[wjob[w]] = "done"

TypeInv == TypeOK /\ BrokerOK

LEMMA TypeInit == Init => TypeInv
<1> SUFFICES ASSUME Init PROVE TypeInv
  OBVIOUS
<1>1. catalog \in Seq(Jobs) /\ delivered \in [Jobs -> 0..MaxDeliver]
  BY MaxDeliverAssumption DEF Init
<1>2. BrokerOK
  BY DEF Init, BrokerOK
<1> QED BY <1>1, <1>2 DEF Init, TypeInv, TypeOK, Types, Statuses

\* A step of worker w that tells the broker nothing.
LEMMA TypeWorker ==
    ASSUME TypeInv, NEW w \in Workers, wpc[w] # "idle",
           NEW s \in {"fetched", "loaded", "disks", "link", "save", "failing",
                      "raised", "ack"},
           Goto(w, s), UNCHANGED <<jobType, gone, apiVars, brokerVars, wjob>>,
           status' \in [Jobs -> Statuses], catalog' \in Seq(Jobs),
           parent' \in [Jobs -> Jobs \cup {NoJob}],
           wseen' \in [Workers -> Statuses],
           wparent' \in [Workers -> Jobs \cup {NoJob}]
    PROVE  TypeInv'
BY DEF Goto, apiVars, brokerVars, TypeInv, TypeOK, BrokerOK

\* A step of worker w that answers the broker, or the end of w.
LEMMA TypeFinish ==
    ASSUME TypeInv, NEW w \in Workers, wpc[w] # "idle", Finish(w),
           UNCHANGED <<dbVars, apiVars, delivered>>,
           NEW s \in {"pending", "delayed", "spent", "acked", "unsent", "ready"},
           msg' = [msg EXCEPT ![wjob[w]] = s],
           s \in {"delayed", "ready"} => delivered[wjob[w]] < MaxDeliver
    PROVE  TypeInv'
<1>1. PICK j \in Jobs : j = wjob[w] /\ request[j] = "done"
  BY DEF TypeInv, TypeOK, BrokerOK
<1>2. TypeOK'
  BY <1>1, NoJobAssumption DEF Finish, Goto, dbVars, apiVars, TypeInv, TypeOK, Statuses
<1>3. BrokerOK'
  BY <1>1, NoJobAssumption DEF Finish, dbVars, apiVars, TypeInv, TypeOK, BrokerOK
<1> QED BY <1>2, <1>3 DEF TypeInv

LEMMA TypeStep == TypeInv /\ [Next]_vars => TypeInv'
<1> SUFFICES ASSUME TypeInv, [Next]_vars PROVE TypeInv'
  OBVIOUS
<1>a. /\ status \in [Jobs -> Statuses]
      /\ catalog \in Seq(Jobs)
      /\ parent \in [Jobs -> Jobs \cup {NoJob}]
      /\ msg \in [Jobs -> {"unsent", "ready", "pending", "delayed", "acked", "spent"}]
      /\ delivered \in [Jobs -> 0..MaxDeliver]
      /\ wseen \in [Workers -> Statuses]
      /\ wparent \in [Workers -> Jobs \cup {NoJob}]
      /\ \A w \in Workers : wpc[w] # "idle" => wjob[w] \in Jobs
  BY DEF TypeInv, TypeOK
<1>1. ASSUME NEW j \in Jobs, CreateCheck(j) PROVE TypeInv'
  BY <1>1 DEF CreateCheck, brokerVars, workerVars, TypeInv, TypeOK, BrokerOK, Types
<1>2. ASSUME NEW j \in Jobs, CreateCommit(j) \/ CreateFails(j) PROVE TypeInv'
  <2>1. PICK q \in {"committed", "done"} : request' = [request EXCEPT ![j] = q]
    BY <1>2 DEF CreateCommit, CreateFails
  <2>2. /\ status' \in [Jobs -> Statuses] /\ request[j] = "checked"
        /\ UNCHANGED <<jobType, catalog, parent, gone, scoped, foreign, cancelling,
                       brokerVars, workerVars>>
    BY <1>2, <1>a DEF CreateCommit, CreateFails, dbVars, Statuses
  <2> QED BY <2>1, <2>2 DEF brokerVars, workerVars, TypeInv, TypeOK, BrokerOK
<1>3. ASSUME NEW j \in Jobs, Publish(j) PROVE TypeInv'
  BY <1>3, MaxDeliverAssumption
     DEF Publish, dbVars, workerVars, TypeInv, TypeOK, BrokerOK
<1>4. ASSUME NEW j \in Jobs, PublishLost(j) PROVE TypeInv'
  BY <1>4 DEF PublishLost, dbVars, brokerVars, workerVars, TypeInv, TypeOK, BrokerOK
<1>5. ASSUME NEW j \in Jobs, CancelCheck(j) PROVE TypeInv'
  BY <1>5 DEF CancelCheck, dbVars, brokerVars, workerVars, TypeInv, TypeOK, BrokerOK
<1>6. ASSUME NEW j \in Jobs, CancelCommit(j) PROVE TypeInv'
  BY <1>6 DEF CancelCommit, brokerVars, workerVars, TypeInv, TypeOK, BrokerOK,
              Statuses, Terminal
<1>7. ASSUME NEW w \in Workers, NEW j \in Jobs, Deliver(w, j) PROVE TypeInv'
  <2>1. request[j] = "done" /\ delivered[j] < MaxDeliver
    BY <1>7 DEF Deliver, TypeInv, TypeOK, BrokerOK
  <2>2. delivered' \in [Jobs -> 0..MaxDeliver]
    BY <1>7, <1>a, <2>1, MaxDeliverAssumption DEF Deliver
  <2>3. TypeOK'
    BY <1>7, <2>2, NoJobAssumption DEF Deliver, Goto, dbVars, apiVars, TypeInv, TypeOK
  <2>4. BrokerOK'
    BY <1>7, <2>1 DEF Deliver, apiVars, TypeInv, TypeOK, BrokerOK
  <2> QED BY <2>3, <2>4 DEF TypeInv
<1>8. ASSUME NEW j \in Jobs, AckWaitExpires(j) PROVE TypeInv'
  <2>1. Returned(j, "ready") \in {"ready", "spent"}
        /\ (Returned(j, "ready") = "ready" => delivered[j] < MaxDeliver)
    BY DEF Returned
  <2> QED BY <1>8, <2>1 DEF AckWaitExpires, dbVars, apiVars, workerVars, TypeInv, TypeOK, BrokerOK
<1>9. ASSUME NEW w \in Workers, Load(w) PROVE TypeInv'
  BY <1>9, <1>a, TypeWorker DEF Load, dbVars, apiVars, brokerVars
<1>10. ASSUME NEW w \in Workers, MarkRunning(w) PROVE TypeInv'
  <2>1. /\ status' \in [Jobs -> Statuses] /\ wseen' \in [Workers -> Statuses]
        /\ wpc[w] # "idle"
    BY <1>10, <1>a DEF MarkRunning, Statuses
  <2> QED BY <1>10, <1>a, <2>1, TypeWorker DEF MarkRunning, apiVars, brokerVars
<1>11. ASSUME NEW w \in Workers, BackUpDisks(w) \/ DiskError(w) PROVE TypeInv'
  BY <1>11, <1>a, TypeWorker DEF BackUpDisks, DiskError, dbVars, apiVars, brokerVars
<1>12. ASSUME NEW w \in Workers, FindParent(w) PROVE TypeInv'
  <2>1. wparent' \in [Workers -> Jobs \cup {NoJob}] /\ wpc[w] # "idle"
    BY <1>12, <1>a DEF FindParent, Parents
  <2> QED BY <1>12, <1>a, <2>1, TypeWorker DEF FindParent, dbVars, apiVars, brokerVars
<1>13. ASSUME NEW w \in Workers, SaveSuccess(w) PROVE TypeInv'
  <2>1. /\ status' \in [Jobs -> Statuses] /\ catalog' \in Seq(Jobs)
        /\ parent' \in [Jobs -> Jobs \cup {NoJob}] /\ wpc[w] # "idle"
    BY <1>13, <1>a DEF SaveSuccess, Statuses, Terminal
  <2> QED BY <1>13, <1>a, <2>1, TypeWorker DEF SaveSuccess, apiVars, brokerVars
<1>14. ASSUME NEW w \in Workers, SaveDuplicate(w) PROVE TypeInv'
  BY <1>14, <1>a, TypeWorker DEF SaveDuplicate, dbVars, apiVars, brokerVars
<1>15. ASSUME NEW w \in Workers, SaveFailed(w) PROVE TypeInv'
  <2>1. status' \in [Jobs -> Statuses] /\ wpc[w] # "idle"
    BY <1>15, <1>a DEF SaveFailed, Statuses, Terminal
  <2> QED BY <1>15, <1>a, <2>1, TypeWorker DEF SaveFailed, apiVars, brokerVars
<1>16. ASSUME NEW w \in Workers, Ack(w) PROVE TypeInv'
  BY <1>16, TypeFinish DEF Ack
<1>17. ASSUME NEW w \in Workers, Nak(w) PROVE TypeInv'
  <2>1. PICK j \in Jobs : j = wjob[w]
    BY <1>17, <1>a DEF Nak
  <2>2. PICK s : s = IF msg[j] = "pending" THEN Returned(j, "delayed") ELSE msg[j]
    OBVIOUS
  <2>3. /\ s \in {"pending", "delayed", "spent", "acked", "unsent", "ready"}
        /\ s \in {"delayed", "ready"} => delivered[j] < MaxDeliver
    BY <1>a, <2>2 DEF Returned, TypeInv, BrokerOK
  <2>4. msg' = [msg EXCEPT ![j] = s]
    BY <1>17, <2>1, <2>2 DEF Nak
  <2> QED BY <1>17, <2>1, <2>3, <2>4, TypeFinish DEF Nak
<1>20. ASSUME NEW j \in Jobs, RemoveTenant(j) PROVE TypeInv'
  BY <1>20 DEF RemoveTenant, apiVars, brokerVars, workerVars, TypeInv, TypeOK, BrokerOK
<1>21. ASSUME NEW w \in Workers, DbError(w) PROVE TypeInv'
  BY <1>21, <1>a, TypeWorker DEF DbError, dbVars, apiVars, brokerVars
<1>18. ASSUME NEW w \in Workers, Crash(w) PROVE TypeInv'
  <2>1. TypeOK'
    BY <1>18 DEF Crash, Finish, Goto, dbVars, apiVars, brokerVars, TypeInv, TypeOK, Statuses
  <2>2. BrokerOK'
    BY <1>18 DEF Crash, Finish, apiVars, brokerVars, TypeInv, TypeOK, BrokerOK
  <2> QED BY <2>1, <2>2 DEF TypeInv
<1>19. CASE UNCHANGED vars
  BY <1>19 DEF vars, TypeInv, TypeOK, BrokerOK
<1> QED
  BY <1>1, <1>2, <1>3, <1>4, <1>5, <1>6, <1>7, <1>8, <1>9, <1>10, <1>11, <1>12,
     <1>13, <1>14, <1>15, <1>16, <1>17, <1>18, <1>19, <1>20, <1>21
     DEF Next, Create, Cancel, Handle

LEMMA TypeInvariant == Spec => []TypeInv
BY TypeInit, TypeStep, PTL DEF Spec

\* Every variable keeps its type, in every circumstance; in particular no
\* message is handed out more than MaxDeliver times.
THEOREM TypeCorrect == Spec => []TypeOK
BY TypeInvariant, PTL DEF TypeInv

-----------------------------------------------------------------------------
(* Manifests *)

\* All steps but SaveSuccess: the catalog stays, and no job becomes a success.
LEMMA OtherSteps ==
    ASSUME TypeInv, [Next]_vars, \A w \in Workers : ~SaveSuccess(w)
    PROVE  /\ UNCHANGED <<catalog, parent>>
           /\ \A j \in Jobs : status'[j] = "success" => status[j] = "success"
<1> USE DEF dbVars
<1>a. status \in [Jobs -> Statuses] /\ \A w \in Workers : wpc[w] # "idle" => wjob[w] \in Jobs
  BY DEF TypeInv, TypeOK
<1>1. ASSUME NEW j \in Jobs, Create(j) \/ Cancel(j) \/ RemoveTenant(j) \/ AckWaitExpires(j)
      PROVE  /\ UNCHANGED <<catalog, parent>>
             /\ \A k \in Jobs : status'[k] = "success" => status[k] = "success"
  BY <1>1, <1>a DEF Create, CreateCheck, CreateCommit, CreateFails, Publish, PublishLost, Cancel,
                    CancelCheck, CancelCommit, RemoveTenant, AckWaitExpires
<1>2. ASSUME NEW w \in Workers, Handle(w)
      PROVE  /\ UNCHANGED <<catalog, parent>>
             /\ \A k \in Jobs : status'[k] = "success" => status[k] = "success"
  BY <1>2, <1>a DEF Handle, Load, MarkRunning, BackUpDisks, DiskError, FindParent,
                    SaveDuplicate, SaveFailed, DbError, Ack, Nak
<1>3. ASSUME NEW w \in Workers, Crash(w) \/ \E j \in Jobs : Deliver(w, j)
      PROVE  /\ UNCHANGED <<catalog, parent>>
             /\ \A k \in Jobs : status'[k] = "success" => status[k] = "success"
  BY <1>3 DEF Crash, Deliver
<1>4. CASE UNCHANGED vars
  BY <1>4 DEF vars
<1> QED BY <1>1, <1>2, <1>3, <1>4 DEF Next

\* What SaveSuccess adds at the end of the catalog.
LEMMA SavedManifest ==
    ASSUME TypeInv, NEW w \in Workers, SaveSuccess(w)
    PROVE  /\ wjob[w] \in Jobs
           /\ Len(catalog) \in Nat
           /\ Len(catalog') = Len(catalog) + 1
           /\ catalog'[Len(catalog) + 1] = wjob[w]
           /\ \A i \in 1..Len(catalog) :
                catalog'[i] = catalog[i] /\ catalog[i] \in Jobs /\ catalog[i] # wjob[w]
<1>1. catalog \in Seq(Jobs) /\ wjob[w] \in Jobs
  BY DEF SaveSuccess, TypeInv, TypeOK
<1>2. catalog' = Append(catalog, wjob[w]) /\ ~HasManifest(wjob[w])
  BY DEF SaveSuccess
<1> QED BY <1>1, <1>2 DEF HasManifest

LEMMA SuccessStep == TypeInv /\ SuccessHasManifest /\ [Next]_vars => SuccessHasManifest'
<1> SUFFICES ASSUME TypeInv, SuccessHasManifest, [Next]_vars PROVE SuccessHasManifest'
  OBVIOUS
<1>1. ASSUME NEW w \in Workers, SaveSuccess(w) PROVE SuccessHasManifest'
  <2>1. status' = [status EXCEPT ![wjob[w]] = "success"]
    BY <1>1 DEF SaveSuccess
  <2>2. \A j \in Jobs : HasManifest(j) \/ j = wjob[w] => HasManifest(j)'
    BY <1>1, SavedManifest DEF HasManifest
  <2>3. \A j \in Jobs : status'[j] = "success" => HasManifest(j)'
    BY <2>1, <2>2 DEF SuccessHasManifest, TypeInv, TypeOK
  <2>4. \A i, k \in 1..Len(catalog') : catalog'[i] = catalog'[k] => i = k
    <3> SUFFICES ASSUME NEW i \in 1..Len(catalog'), NEW k \in 1..Len(catalog'),
                        catalog'[i] = catalog'[k]
                 PROVE  i = k
      OBVIOUS
    <3>1. i \in 1..Len(catalog) \/ i = Len(catalog) + 1
      BY <1>1, SavedManifest
    <3>2. k \in 1..Len(catalog) \/ k = Len(catalog) + 1
      BY <1>1, SavedManifest
    <3> QED BY <1>1, <3>1, <3>2, SavedManifest DEF SuccessHasManifest
  <2> QED BY <2>3, <2>4 DEF SuccessHasManifest
<1>2. ASSUME \A w \in Workers : ~SaveSuccess(w) PROVE SuccessHasManifest'
  BY <1>2, OtherSteps DEF SuccessHasManifest, HasManifest
<1> QED BY <1>1, <1>2

\* A job shown as a success has exactly one manifest, however often its
\* message is delivered and whoever runs, cancels or crashes.
THEOREM SuccessesHaveManifests == Spec => []SuccessHasManifest
<1>1. Init => SuccessHasManifest
  BY DEF Init, SuccessHasManifest
<1> QED BY <1>1, TypeInvariant, SuccessStep, PTL DEF Spec

-----------------------------------------------------------------------------
(* Chains *)

\* p may be the parent of a manifest of j.
ParentFor(p, j) == VmOf[p] = VmOf[j] /\ HasManifest(p)

\* A worker that is about to save holds a parent it has seen in the catalog.
Linked == \A w \in Workers :
    wpc[w] = "save" /\ wparent[w] # NoJob => ParentFor(wparent[w], wjob[w])

ChainInv == ParentsPrecede /\ Linked

LEMMA LinkedStep == TypeInv /\ Linked /\ [Next]_vars => Linked'
<1> SUFFICES ASSUME TypeInv, Linked, [Next]_vars,
                    NEW v \in Workers, wpc'[v] = "save", wparent'[v] # NoJob
             PROVE  ParentFor(wparent[v], wjob[v])'
  BY DEF Linked
<1>1. \A j : HasManifest(j) => HasManifest(j)'
  <2>1. ASSUME NEW w \in Workers, SaveSuccess(w) PROVE \A j : HasManifest(j) => HasManifest(j)'
    BY <2>1, SavedManifest DEF HasManifest
  <2>2. ASSUME \A w \in Workers : ~SaveSuccess(w) PROVE \A j : HasManifest(j) => HasManifest(j)'
    BY <2>2, OtherSteps DEF HasManifest
  <2> QED BY <2>1, <2>2
<1>2. ASSUME wpc[v] = "save", UNCHANGED <<wjob[v], wparent[v]>>
      PROVE  ParentFor(wparent[v], wjob[v])'
  BY <1>1, <1>2 DEF Linked, ParentFor
<1>3. ASSUME FindParent(v) PROVE ParentFor(wparent[v], wjob[v])'
  <2>1. wjob' = wjob /\ catalog' = catalog
    BY <1>3 DEF FindParent, dbVars
  <2>2. PICK i \in Parents(wjob[v]) : wparent'[v] = catalog[i]
    BY <1>3 DEF FindParent, TypeInv, TypeOK
  <2> QED BY <2>1, <2>2 DEF ParentFor, HasManifest, Parents
<1>4. CASE UNCHANGED vars
  BY <1>2, <1>4 DEF vars
<1>5. ASSUME NEW j \in Jobs, Create(j) \/ Cancel(j) \/ RemoveTenant(j) \/ AckWaitExpires(j)
      PROVE  wpc[v] = "save" /\ UNCHANGED <<wjob[v], wparent[v]>>
  BY <1>5 DEF Create, CreateCheck, CreateCommit, CreateFails, Publish, PublishLost, Cancel,
              CancelCheck, CancelCommit, RemoveTenant, AckWaitExpires, workerVars
<1>6. ASSUME NEW w \in Workers,
             Handle(w) \/ Crash(w) \/ \E j \in Jobs : Deliver(w, j), ~FindParent(v)
      PROVE  wpc[v] = "save" /\ UNCHANGED <<wjob[v], wparent[v]>>
  <2>1. /\ wpc \in [Workers -> {"idle", "fetched", "loaded", "disks", "link", "save",
                            "failing", "raised", "ack"}]
        /\ wjob \in [Workers -> Jobs \cup {NoJob}]
        /\ wparent \in [Workers -> Jobs \cup {NoJob}]
    BY DEF TypeInv, TypeOK
  <2>2. CASE Handle(w)
    BY <1>6, <2>1, <2>2
       DEF Handle, Load, MarkRunning, BackUpDisks, DiskError, FindParent, SaveSuccess,
           SaveDuplicate, SaveFailed, DbError, Ack, Nak, Goto, Finish
  <2>3. CASE Crash(w) \/ \E j \in Jobs : Deliver(w, j)
    BY <2>1, <2>3 DEF Crash, Deliver, Goto, Finish
  <2> QED BY <1>6, <2>2, <2>3
<1> QED BY <1>2, <1>3, <1>4, <1>5, <1>6 DEF Next

LEMMA ChainStep == TypeInv /\ ChainInv /\ [Next]_vars => ChainInv'
<1> SUFFICES ASSUME TypeInv, ChainInv, [Next]_vars PROVE ParentsPrecede'
  BY LinkedStep DEF ChainInv
<1>1. ASSUME NEW w \in Workers, SaveSuccess(w) PROVE ParentsPrecede'
  <2> SUFFICES ASSUME NEW i \in 1..Len(catalog'), parent'[catalog'[i]] # NoJob
               PROVE  /\ VmOf[parent'[catalog'[i]]] = VmOf[catalog'[i]]
                      /\ \E k \in 1..(i - 1) : catalog'[k] = parent'[catalog'[i]]
    BY DEF ParentsPrecede
  <2>1. /\ parent \in [Jobs -> Jobs \cup {NoJob}]
        /\ parent' = [parent EXCEPT ![wjob[w]] = wparent[w]]
    BY <1>1 DEF SaveSuccess, TypeInv, TypeOK
  <2>2. CASE i = Len(catalog) + 1
    <3>1. catalog'[i] = wjob[w] /\ parent'[catalog'[i]] = wparent[w]
      BY <1>1, <2>1, <2>2, SavedManifest
    <3>2. ParentFor(wparent[w], wjob[w])
      BY <1>1, <3>1 DEF ChainInv, Linked, SaveSuccess
    <3> QED BY <1>1, <2>2, <3>1, <3>2, SavedManifest DEF ParentFor, HasManifest
  <2>3. CASE i \in 1..Len(catalog)
    <3>1. catalog'[i] = catalog[i] /\ parent'[catalog'[i]] = parent[catalog[i]]
      BY <1>1, <2>1, <2>3, SavedManifest
    <3>2. PICK k \in 1..(i - 1) : catalog[k] = parent[catalog[i]]
      BY <2>3, <3>1 DEF ChainInv, ParentsPrecede
    <3>3. catalog'[k] = catalog[k]
      BY <1>1, <2>3, <3>2, SavedManifest
    <3> QED BY <2>3, <3>1, <3>2, <3>3 DEF ChainInv, ParentsPrecede
  <2> QED BY <1>1, <2>2, <2>3, SavedManifest
<1>2. ASSUME \A w \in Workers : ~SaveSuccess(w) PROVE ParentsPrecede'
  BY <1>2, OtherSteps DEF ChainInv, ParentsPrecede
<1> QED BY <1>1, <1>2

\* The parent of a manifest is an earlier manifest of the same VM, so every
\* chain the restore engine walks is finite and stays within the VM.
THEOREM ChainsEnd == Spec => []ParentsPrecede
<1>1. Init => ChainInv
  BY DEF Init, ChainInv, ParentsPrecede, Linked
<1>2. Spec => []ChainInv
  BY <1>1, TypeInvariant, ChainStep, PTL DEF Spec
<1> QED BY <1>2, PTL DEF ChainInv

-----------------------------------------------------------------------------
(* Cancellation *)

\* A job without a row has not been committed, and nobody cancels it.
RowsOK == \A j \in Jobs :
    request[j] \in {"none", "checked"} => status[j] = "absent" /\ j \notin cancelling

CancelInv == TypeInv /\ RowsOK

LEMMA CancelStep == CancelInv /\ [Next]_vars => CancelInv'
<1> SUFFICES ASSUME CancelInv, [Next]_vars PROVE RowsOK'
  BY TypeStep DEF CancelInv
<1>a. /\ status \in [Jobs -> Statuses]
      /\ request \in [Jobs -> {"none", "checked", "committed", "done"}]
      /\ \A w \in Workers : wpc[w] # "idle" =>
            wjob[w] \in Jobs /\ request[wjob[w]] = "done"
  BY DEF CancelInv, TypeInv, TypeOK, BrokerOK
<1> USE DEF dbVars, apiVars
<1>1. ASSUME NEW j \in Jobs, Create(j) \/ RemoveTenant(j) \/ AckWaitExpires(j) PROVE RowsOK'
  BY <1>1, <1>a DEF Create, CreateCheck, CreateCommit, CreateFails, Publish, PublishLost,
                    RemoveTenant, AckWaitExpires, CancelInv, RowsOK
<1>2. ASSUME NEW j \in Jobs, Cancel(j) PROVE RowsOK'
  BY <1>2, <1>a DEF Cancel, CancelCheck, CancelCommit, CancelInv, RowsOK
<1>3. ASSUME NEW w \in Workers, Handle(w) PROVE RowsOK'
  BY <1>3, <1>a DEF Handle, Load, MarkRunning, BackUpDisks, DiskError, FindParent,
                    SaveSuccess, SaveDuplicate, SaveFailed, DbError, Ack, Nak, CancelInv, RowsOK
<1>4. ASSUME NEW w \in Workers, Crash(w) \/ \E j \in Jobs : Deliver(w, j) PROVE RowsOK'
  BY <1>4 DEF Crash, Deliver, CancelInv, RowsOK
<1>5. CASE UNCHANGED vars
  BY <1>5 DEF vars, CancelInv, RowsOK
<1> QED BY <1>1, <1>2, <1>3, <1>4, <1>5 DEF Next

\* Once a job is cancelled and no pass has it, nothing brings it back: Load
\* drops it, and every write of its status by a worker is part of a pass.
THEOREM CancellationsStand == Spec => CancelStands
<1>1. Init => CancelInv
  BY TypeInit DEF Init, CancelInv, RowsOK
<1>2. ASSUME CancelInv, Next, NEW j \in Jobs, Dropped(j) PROVE Dropped(j)'
  <2>a. /\ status[j] = "cancelled" /\ \A w \in Workers : ~InPass(w, j)
        /\ status \in [Jobs -> Statuses]
        /\ request[j] \notin {"none", "checked"}
        /\ wpc \in [Workers -> {"idle", "fetched", "loaded", "disks", "link", "save",
                                "failing", "raised", "ack"}]
        /\ wjob \in [Workers -> Jobs \cup {NoJob}]
    BY <1>2 DEF Dropped, CancelInv, RowsOK, TypeInv, TypeOK
  <2> USE DEF dbVars, workerVars
  <2>1. ASSUME NEW k \in Jobs, Create(k) \/ Cancel(k) \/ RemoveTenant(k) \/ AckWaitExpires(k)
        PROVE  Dropped(j)'
    <3>1. status'[j] = "cancelled"
      BY <2>1, <2>a DEF Create, CreateCheck, CreateCommit, CreateFails, Publish, PublishLost, Cancel,
                        CancelCheck, CancelCommit, RemoveTenant, AckWaitExpires
    <3>2. wpc' = wpc /\ wjob' = wjob
      BY <2>1 DEF Create, CreateCheck, CreateCommit, CreateFails, Publish, PublishLost, Cancel,
                  CancelCheck, CancelCommit, RemoveTenant, AckWaitExpires
    <3> QED BY <2>a, <3>1, <3>2 DEF Dropped, InPass
  <2>2. ASSUME NEW w \in Workers, Handle(w) PROVE Dropped(j)'
    <3>1. status'[j] = "cancelled"
      BY <2>2, <2>a DEF InPass, Handle, Load, MarkRunning, BackUpDisks, DiskError,
                        FindParent, SaveSuccess, SaveDuplicate, SaveFailed, DbError, Ack, Nak
    <3>2. \A v \in Workers : v # w => wpc'[v] = wpc[v] /\ wjob'[v] = wjob[v]
      BY <2>2, <2>a DEF Handle, Load, MarkRunning, BackUpDisks, DiskError, FindParent,
                        SaveSuccess, SaveDuplicate, SaveFailed, DbError, Ack, Nak, Goto, Finish
    <3>3. ~InPass(w, j)'
      BY <2>2, <2>a, NoJobAssumption
         DEF InPass, Handle, Load, MarkRunning, BackUpDisks, DiskError, FindParent,
             SaveSuccess, SaveDuplicate, SaveFailed, DbError, Ack, Nak, Goto, Finish
    <3> QED BY <2>a, <3>1, <3>2, <3>3 DEF Dropped, InPass
  <2>3. ASSUME NEW w \in Workers, Crash(w) \/ \E k \in Jobs : Deliver(w, k)
        PROVE  Dropped(j)'
    <3>1. status'[j] = "cancelled"
      BY <2>3, <2>a DEF Crash, Deliver
    <3>2. \A v \in Workers : v # w => wpc'[v] = wpc[v] /\ wjob'[v] = wjob[v]
      BY <2>3, <2>a DEF Crash, Deliver, Goto, Finish
    <3>3. wpc'[w] \in {"idle", "fetched"}
      BY <2>3, <2>a DEF Crash, Deliver, Goto, Finish
    <3> QED BY <2>a, <3>1, <3>2, <3>3 DEF Dropped, InPass
  <2> QED BY <1>2, <2>1, <2>2, <2>3 DEF Next
<1>3. ASSUME CancelInv, UNCHANGED vars, NEW j \in Jobs, Dropped(j) PROVE Dropped(j)'
  BY <1>3 DEF vars, Dropped, InPass
<1>4. CancelInv /\ [Next]_vars => [\A j \in Jobs : Dropped(j) => Dropped(j)']_vars
  BY <1>2, <1>3
<1> QED BY <1>1, <1>4, CancelStep, PTL DEF Spec, CancelStands

-----------------------------------------------------------------------------
(* The promised lifecycle *)

\* Nothing is cancelled, no worker is killed and none outlasts ack_wait.  A lost
\* publish leaves a job queued, and a failing query or a scoped session has a job
\* redelivered that is still running: both are admitted.
Undisturbed == Env \cap {"cancel", "crash", "slow"} = {}

\* A message that is handed out is with exactly one worker.
Held ==
    /\ \A w \in Workers : wpc[w] = "idle" <=> wjob[w] = NoJob
    /\ \A w \in Workers : wjob[w] # NoJob => msg[wjob[w]] = "pending"
    /\ \A v, w \in Workers : wjob[v] = wjob[w] /\ v # w => wjob[v] = NoJob
    /\ \A j \in Jobs : msg[j] = "pending" => \E w \in Workers : wjob[w] = j

\* The statuses a job may have while its worker is at s.
StatusAt(s) ==
    CASE s \in {"fetched", "loaded", "raised"} -> {"queued", "running"}
      [] s \in {"disks", "link", "save", "failing"} -> {"running"}
      [] OTHER -> {"queued", "running", "success", "failed"}

\* A job's status goes with its request, its message and its worker.
InStep ==
    /\ cancelling = {}
    /\ \A j \in Jobs :
        /\ request[j] \in {"none", "checked"} => status[j] = "absent"
        /\ request[j] = "committed" => status[j] = "queued"
        /\ msg[j] \in {"ready", "delayed"} => status[j] \in {"queued", "running"}
        /\ HasManifest(j) => status[j] = "success"
        /\ status[j] = "success" => request[j] = "done"
    /\ \A w \in Workers :
        /\ wpc[w] # "idle" => status[wjob[w]] \in StatusAt(wpc[w])
        /\ wpc[w] = "loaded" => wseen[w] = status[wjob[w]]

\* An incremental job was asked for when its VM had a full backup to start from,
\* and its worker, once it has looked, holds a parent.
Based ==
    /\ \A j \in Jobs : jobType[j] = "incremental" => FullExists(j)
    /\ \A w \in Workers :
        wpc[w] = "save" /\ jobType[wjob[w]] = "incremental" /\ ~Gone(wjob[w]) =>
            wparent[w] # NoJob

LifeInv ==
    /\ TypeInv
    /\ SuccessHasManifest
    /\ Held
    /\ InStep
    /\ Based
    /\ IncrementalHasParent

LEMMA HeldStep ==
    ASSUME Env \cap {"crash", "slow"} = {}, TypeInv, Held, [Next]_vars PROVE Held'
<1>a. /\ msg \in [Jobs -> {"unsent", "ready", "pending", "delayed", "acked", "spent"}]
      /\ request \in [Jobs -> {"none", "checked", "committed", "done"}]
      /\ wpc \in [Workers -> {"idle", "fetched", "loaded", "disks", "link", "save",
                              "failing", "raised", "ack"}]
      /\ wjob \in [Workers -> Jobs \cup {NoJob}]
      /\ \A w \in Workers : wpc[w] # "idle" => wjob[w] \in Jobs
      /\ \A w \in Workers : wjob[w] # NoJob => request[wjob[w]] = "done"
  BY DEF TypeInv, TypeOK, BrokerOK
<1> USE NoJobAssumption DEF dbVars, apiVars, brokerVars, workerVars, Goto
<1>1. ASSUME NEW j \in Jobs, Create(j) \/ Cancel(j) \/ RemoveTenant(j) PROVE Held'
  <2>1. UNCHANGED <<wpc, wjob>>
    BY <1>1 DEF Create, CreateCheck, CreateCommit, CreateFails, Publish, PublishLost, Cancel,
                CancelCheck, CancelCommit, RemoveTenant
  <2>2. msg' = msg \/ (msg' = [msg EXCEPT ![j] = "ready"] /\ request[j] = "committed")
    BY <1>1 DEF Create, CreateCheck, CreateCommit, CreateFails, Publish, PublishLost, Cancel,
                CancelCheck, CancelCommit, RemoveTenant
  <2>3. request[j] = "committed" => msg[j] # "pending"
    BY DEF TypeInv, BrokerOK
  <2> QED BY <1>a, <2>1, <2>2, <2>3 DEF Held
<1>2. ASSUME NEW j \in Jobs, AckWaitExpires(j) PROVE Held'
  BY <1>2 DEF AckWaitExpires, Held
<1>3. ASSUME NEW w \in Workers, NEW j \in Jobs, Deliver(w, j) PROVE Held'
  <2>1. /\ wpc[w] = "idle" /\ msg[j] # "pending"
        /\ msg' = [msg EXCEPT ![j] = "pending"]
        /\ wpc' = [wpc EXCEPT ![w] = "fetched"]
        /\ wjob' = [wjob EXCEPT ![w] = j]
    BY <1>3 DEF Deliver
  <2>2. \A v \in Workers : wjob[v] # j
    BY <2>1, <1>a DEF Held
  <2> QED BY <1>a, <2>1, <2>2 DEF Held
<1>4. ASSUME NEW w \in Workers, wpc[w] # "idle", NEW s, s # "idle",
             Goto(w, s), UNCHANGED <<msg, wjob>>
      PROVE  Held'
  BY <1>4, <1>a DEF Held
<1>5. ASSUME NEW w \in Workers, wpc[w] # "idle", Finish(w), NEW s, s # "pending",
             msg' = [msg EXCEPT ![wjob[w]] = s]
      PROVE  Held'
  BY <1>5, <1>a DEF Held, Finish
<1>6. ASSUME NEW w \in Workers, Handle(w) PROVE Held'
  <2>1. CASE Ack(w)
    BY <1>5, <2>1 DEF Ack
  <2>2. CASE Nak(w)
    <3>1. PICK s : s = IF msg[wjob[w]] = "pending" THEN Returned(wjob[w], "delayed")
                       ELSE msg[wjob[w]]
      OBVIOUS
    <3>2. s # "pending" /\ msg' = [msg EXCEPT ![wjob[w]] = s]
      BY <2>2, <3>1, <1>a DEF Nak, Returned
    <3> QED BY <1>5, <2>2, <3>2 DEF Nak
  <2>3. ASSUME ~Ack(w), ~Nak(w)
        PROVE  \E s : s # "idle" /\ Goto(w, s) /\ wpc[w] # "idle" /\ UNCHANGED <<msg, wjob>>
    BY <1>6, <2>3 DEF Handle, Load, MarkRunning, BackUpDisks, DiskError, FindParent,
                      SaveSuccess, SaveDuplicate, SaveFailed, DbError
  <2> QED BY <1>4, <2>1, <2>2, <2>3
<1>7. ASSUME NEW w \in Workers, Crash(w) PROVE Held'
  BY <1>7 DEF Crash
<1>8. CASE UNCHANGED vars
  BY <1>8 DEF vars, Held
<1> QED BY <1>1, <1>2, <1>3, <1>6, <1>7, <1>8 DEF Next

\* A step of worker w on its job, which gets status t.
LEMMA InStepWorker ==
    ASSUME TypeInv, Held, InStep, NEW w \in Workers, wpc[w] # "idle",
           NEW s, s # "idle", Goto(w, s), UNCHANGED <<request, cancelling, msg, wjob>>,
           NEW t \in StatusAt(s), t # "absent",
           status' = [status EXCEPT ![wjob[w]] = t],
           \A j \in Jobs : HasManifest(j)' <=>
                HasManifest(j) \/ (j = wjob[w] /\ t = "success"),
           \A v \in Workers : v # w => wseen'[v] = wseen[v],
           status[wjob[w]] = "success" => t = "success",
           s = "loaded" => wseen'[w] = t
    PROVE  InStep'
<1>a. /\ status \in [Jobs -> Statuses]
      /\ wpc \in [Workers -> {"idle", "fetched", "loaded", "disks", "link", "save",
                              "failing", "raised", "ack"}]
      /\ wjob[w] \in Jobs /\ request[wjob[w]] = "done" /\ msg[wjob[w]] = "pending"
      /\ \A v \in Workers : wpc[v] # "idle" => wjob[v] \in Jobs
      /\ \A v \in Workers : v # w /\ wpc[v] # "idle" => wjob[v] # wjob[w]
  BY NoJobAssumption DEF TypeInv, TypeOK, BrokerOK, Held
<1>1. ASSUME NEW j \in Jobs
      PROVE  /\ request'[j] \in {"none", "checked"} => status'[j] = "absent"
             /\ request'[j] = "committed" => status'[j] = "queued"
             /\ msg'[j] \in {"ready", "delayed"} => status'[j] \in {"queued", "running"}
             /\ HasManifest(j)' => status'[j] = "success"
             /\ status'[j] = "success" => request'[j] = "done"
  BY <1>a DEF InStep
<1>2. ASSUME NEW v \in Workers, wpc'[v] # "idle"
      PROVE  /\ status'[wjob'[v]] \in StatusAt(wpc'[v])
             /\ wpc'[v] = "loaded" => wseen'[v] = status'[wjob'[v]]
  <2>1. CASE v = w
    BY <2>1, <1>a DEF Goto
  <2>2. CASE v # w
    BY <1>2, <2>2, <1>a DEF Goto, InStep
  <2> QED BY <2>1, <2>2
<1> QED BY <1>1, <1>2 DEF InStep

LEMMA InStepStep ==
    ASSUME Undisturbed, TypeInv, SuccessHasManifest, Held, InStep, [Next]_vars PROVE InStep'
<1>a. /\ status \in [Jobs -> Statuses]
      /\ msg \in [Jobs -> {"unsent", "ready", "pending", "delayed", "acked", "spent"}]
      /\ request \in [Jobs -> {"none", "checked", "committed", "done"}]
      /\ wpc \in [Workers -> {"idle", "fetched", "loaded", "disks", "link", "save",
                              "failing", "raised", "ack"}]
      /\ wjob \in [Workers -> Jobs \cup {NoJob}] /\ wseen \in [Workers -> Statuses]
      /\ \A w \in Workers : wpc[w] # "idle" => wjob[w] \in Jobs /\ request[wjob[w]] = "done"
      /\ \A j \in Jobs : request[j] # "done" => msg[j] = "unsent"
  BY NoJobAssumption DEF TypeInv, TypeOK, BrokerOK
<1>b. \A w \in Workers : wpc[w] # "idle" => status[wjob[w]] \in StatusAt(wpc[w])
  BY DEF InStep
<1>c. /\ \A s \in {"fetched", "loaded", "raised"} : StatusAt(s) = {"queued", "running"}
      /\ \A s \in {"disks", "link", "save", "failing"} : StatusAt(s) = {"running"}
      /\ StatusAt("ack") = {"queued", "running", "success", "failed"}
  BY DEF StatusAt
<1> USE DEF dbVars, apiVars, brokerVars, workerVars
<1>1. ASSUME NEW j \in Jobs,
             CreateCheck(j) \/ CreateFails(j) \/ PublishLost(j) \/ RemoveTenant(j)
      PROVE  InStep'
  BY <1>1, <1>a DEF CreateCheck, CreateFails, PublishLost, RemoveTenant, InStep, HasManifest
<1>2. ASSUME NEW j \in Jobs, CreateCommit(j) PROVE InStep'
  <2>1. /\ request[j] = "checked" /\ status[j] = "absent" /\ msg[j] = "unsent"
        /\ status' = [status EXCEPT ![j] = "queued"]
        /\ \E q \in {"committed", "done"} : request' = [request EXCEPT ![j] = q]
        /\ UNCHANGED <<catalog, cancelling, msg, wpc, wjob, wseen>>
        /\ \A w \in Workers : wpc[w] # "idle" => wjob[w] # j
    BY <1>2, <1>a DEF CreateCommit, InStep
  <2>2. ~HasManifest(j) /\ \A k \in Jobs : HasManifest(k)' <=> HasManifest(k)
    BY <2>1 DEF InStep, HasManifest
  <2> QED BY <1>a, <2>1, <2>2 DEF InStep
<1>3. ASSUME NEW j \in Jobs, Publish(j) PROVE InStep'
  BY <1>3, <1>a DEF Publish, InStep, HasManifest
<1>4. ASSUME NEW j \in Jobs, Cancel(j) PROVE InStep'
  BY <1>4 DEF Cancel, CancelCheck, CancelCommit, Undisturbed, InStep
<1>5. ASSUME NEW j \in Jobs, AckWaitExpires(j) PROVE InStep'
  BY <1>5 DEF AckWaitExpires, Undisturbed, Held
<1>6. ASSUME NEW w \in Workers, NEW j \in Jobs, Deliver(w, j) PROVE InStep'
  <2>1. /\ wpc[w] = "idle" /\ status[j] \in {"queued", "running"}
        /\ msg' = [msg EXCEPT ![j] = "pending"]
        /\ wpc' = [wpc EXCEPT ![w] = "fetched"]
        /\ wjob' = [wjob EXCEPT ![w] = j]
        /\ UNCHANGED <<status, catalog, request, cancelling, wseen>>
    BY <1>6 DEF Deliver, Goto, InStep
  <2>2. \A v \in Workers : wpc'[v] # "idle" => status'[wjob'[v]] \in StatusAt(wpc'[v])
    BY <1>a, <1>b, <1>c, <2>1
  <2>3. \A v \in Workers : wpc'[v] = "loaded" => wseen'[v] = status'[wjob'[v]]
    BY <1>a, <2>1 DEF InStep
  <2>4. \A k \in Jobs : HasManifest(k)' <=> HasManifest(k)
    BY <2>1 DEF HasManifest
  <2> QED BY <1>a, <2>1, <2>2, <2>3, <2>4 DEF InStep
<1>7. ASSUME NEW w \in Workers, NEW s, s # "idle", wpc[w] # "idle", Goto(w, s),
             status[wjob[w]] \in StatusAt(s),
             UNCHANGED <<status, catalog, request, cancelling, msg, wjob>>,
             \A v \in Workers : v # w => wseen'[v] = wseen[v],
             s = "loaded" => wseen'[w] = status[wjob[w]]
      PROVE  InStep'
  <2>1. \A j \in Jobs : HasManifest(j)' <=> HasManifest(j)
    BY <1>7 DEF HasManifest
  <2>2. status[wjob[w]] = "success" => HasManifest(wjob[w])
    BY <1>7, <1>a DEF SuccessHasManifest
  <2>3. status' = [status EXCEPT ![wjob[w]] = status[wjob[w]]] /\ status[wjob[w]] # "absent"
    BY <1>7, <1>a, <1>b, <1>c
  <2>4. PICK t : t = status[wjob[w]]
    OBVIOUS
  <2>5. /\ t \in StatusAt(s) /\ t # "absent" /\ status' = [status EXCEPT ![wjob[w]] = t]
        /\ \A j \in Jobs : HasManifest(j)' <=> HasManifest(j) \/ (j = wjob[w] /\ t = "success")
        /\ status[wjob[w]] = "success" => t = "success"
        /\ s = "loaded" => wseen'[w] = t
    BY <1>7, <1>a, <2>1, <2>2, <2>3, <2>4
  <2>6. UNCHANGED <<request, cancelling, msg, wjob>>
    BY <1>7
  <2> QED BY <1>7, <2>5, <2>6, InStepWorker
<1>8. ASSUME NEW w \in Workers, Load(w) PROVE InStep'
  <2>1. /\ wpc[w] = "fetched" /\ status[wjob[w]] \in {"queued", "running"}
        /\ UNCHANGED <<status, catalog, request, cancelling, msg, wjob>>
    BY <1>8, <1>b, <1>c DEF Load
  <2>2. PICK s \in {"ack", "loaded"} :
            /\ Goto(w, s)
            /\ wseen' = IF s = "ack" THEN wseen ELSE [wseen EXCEPT ![w] = status[wjob[w]]]
    BY <1>8 DEF Load
  <2>3. /\ s # "idle" /\ wpc[w] # "idle" /\ status[wjob[w]] \in StatusAt(s)
        /\ \A v \in Workers : v # w => wseen'[v] = wseen[v]
        /\ s = "loaded" => wseen'[w] = status[wjob[w]]
    BY <1>a, <1>c, <2>1, <2>2
  <2> QED BY <1>7, <2>1, <2>2, <2>3
<1>9. ASSUME NEW w \in Workers, MarkRunning(w) PROVE InStep'
  <2>1. /\ wpc[w] = "loaded" /\ wseen[w] = status[wjob[w]]
        /\ status[wjob[w]] \in {"queued", "running"} /\ wjob[w] \in Jobs
    BY <1>9, <1>a, <1>b, <1>c DEF MarkRunning, InStep
  <2>2. status' = [status EXCEPT ![wjob[w]] = "running"]
    BY <1>9, <1>a, <2>1 DEF MarkRunning
  <2>3. PICK s \in {"disks", "raised"} : Goto(w, s)
    BY <1>9 DEF MarkRunning
  <2>4. \A j \in Jobs : HasManifest(j)' <=> HasManifest(j) \/ (j = wjob[w] /\ "running" = "success")
    BY <1>9 DEF MarkRunning, HasManifest
  <2>5. /\ wpc[w] # "idle" /\ s # "idle" /\ s # "loaded" /\ "running" \in StatusAt(s)
        /\ UNCHANGED <<request, cancelling, msg, wjob>>
        /\ \A v \in Workers : v # w => wseen'[v] = wseen[v]
    BY <1>9, <1>c, <2>3 DEF MarkRunning
  <2> QED BY <2>1, <2>2, <2>3, <2>4, <2>5, InStepWorker
<1>10. ASSUME NEW w \in Workers, BackUpDisks(w) \/ DiskError(w) \/ FindParent(w)
       PROVE  InStep'
  <2>1. PICK s \in {"link", "failing", "save"} : Goto(w, s)
    BY <1>10 DEF BackUpDisks, DiskError, FindParent
  <2>2. wpc[w] \in {"disks", "link"} /\ UNCHANGED <<status, catalog, request, cancelling, msg, wjob, wseen>>
    BY <1>10 DEF BackUpDisks, DiskError, FindParent
  <2> QED BY <1>7, <1>b, <1>c, <2>1, <2>2
<1>11. ASSUME NEW w \in Workers, SaveSuccess(w) PROVE InStep'
  <2>1. \A j \in Jobs : HasManifest(j)' <=> HasManifest(j) \/ j = wjob[w]
    BY <1>11, SavedManifest DEF HasManifest
  <2>2. "success" \in StatusAt("ack")
    BY <1>c
  <2>3. /\ wpc[w] # "idle" /\ Goto(w, "ack")
        /\ status' = [status EXCEPT ![wjob[w]] = "success"]
        /\ UNCHANGED <<request, cancelling, msg, wjob>>
        /\ \A v \in Workers : v # w => wseen'[v] = wseen[v]
    BY <1>11 DEF SaveSuccess
  <2>4. \A j \in Jobs : HasManifest(j)' <=> HasManifest(j) \/ (j = wjob[w] /\ "success" = "success")
    BY <2>1
  <2> QED BY <2>2, <2>3, <2>4, InStepWorker
<1>12. ASSUME NEW w \in Workers, SaveDuplicate(w) PROVE InStep'
  BY <1>12, <1>a, <1>b, <1>c DEF SaveDuplicate, InStep
<1>17. ASSUME NEW w \in Workers, DbError(w) PROVE InStep'
  <2>1. /\ wpc[w] \in {"fetched", "loaded", "link", "save", "failing"} /\ Goto(w, "raised")
        /\ UNCHANGED <<status, catalog, request, cancelling, msg, wjob, wseen>>
    BY <1>17 DEF DbError
  <2>2. status[wjob[w]] \in StatusAt("raised")
    BY <1>b, <1>c, <2>1
  <2> QED BY <1>7, <2>1, <2>2
<1>13. ASSUME NEW w \in Workers, SaveFailed(w) PROVE InStep'
  <2>1. status[wjob[w]] = "running"
    BY <1>13, <1>b, <1>c DEF SaveFailed
  <2>2. \A j \in Jobs : HasManifest(j)' <=> HasManifest(j)
    BY <1>13 DEF SaveFailed, HasManifest
  <2>3. /\ wpc[w] # "idle" /\ Goto(w, "ack") /\ "failed" \in StatusAt("ack")
        /\ status' = [status EXCEPT ![wjob[w]] = "failed"]
        /\ UNCHANGED <<request, cancelling, msg, wjob>>
        /\ \A v \in Workers : v # w => wseen'[v] = wseen[v]
    BY <1>13, <1>c DEF SaveFailed
  <2>4. \A j \in Jobs : HasManifest(j)' <=> HasManifest(j) \/ (j = wjob[w] /\ "failed" = "success")
    BY <2>2
  <2> QED BY <2>1, <2>3, <2>4, InStepWorker
<1>14. ASSUME NEW w \in Workers, Ack(w) \/ Nak(w) PROVE InStep'
  <2>1. /\ wpc[w] # "idle" /\ Finish(w) /\ wjob[w] \in Jobs
        /\ UNCHANGED <<status, catalog, request, cancelling>>
    BY <1>14, <1>a DEF Ack, Nak
  <2>2. \E s : /\ msg' = [msg EXCEPT ![wjob[w]] = s]
               /\ s \in {"ready", "delayed"} => status[wjob[w]] \in {"queued", "running"}
    <3>1. CASE Ack(w)
      <4>1. msg' = [msg EXCEPT ![wjob[w]] = "acked"] /\ "acked" \notin {"ready", "delayed"}
        BY <3>1 DEF Ack
      <4> QED BY <4>1
    <3>2. CASE Nak(w)
      <4>1. status[wjob[w]] \in {"queued", "running"}
        BY <3>2, <1>b, <1>c DEF Nak
      <4> QED BY <3>2, <4>1 DEF Nak
    <3> QED BY <1>14, <3>1, <3>2
  <2>3. \A v \in Workers : v # w => wpc'[v] = wpc[v] /\ wjob'[v] = wjob[v] /\ wseen'[v] = wseen[v]
    BY <2>1, <1>a DEF Finish, Goto
  <2>4. wpc'[w] = "idle"
    BY <2>1, <1>a DEF Finish, Goto
  <2>5. \A j \in Jobs : HasManifest(j)' <=> HasManifest(j)
    BY <2>1 DEF HasManifest
  <2> QED BY <1>a, <2>1, <2>2, <2>3, <2>4, <2>5 DEF InStep
<1>15. ASSUME NEW w \in Workers, Crash(w) PROVE InStep'
  BY <1>15 DEF Crash, Undisturbed
<1>16. CASE UNCHANGED vars
  BY <1>16 DEF vars, InStep, HasManifest
<1> QED
  BY <1>1, <1>2, <1>3, <1>4, <1>5, <1>6, <1>8, <1>9, <1>10, <1>11, <1>12, <1>13,
     <1>14, <1>15, <1>16, <1>17
     DEF Next, Create, Handle

\* A success stays one, a type once checked stays, and so does a full backup.
LEMMA FullStays ==
    ASSUME Undisturbed, TypeInv, Held, InStep, [Next]_vars, NEW f \in Jobs, status[f] = "success"
    PROVE  status'[f] = "success" /\ jobType'[f] = jobType[f]
<1>a. /\ status \in [Jobs -> Statuses] /\ jobType \in [Jobs -> Types]
      /\ cancelling = {} /\ request[f] = "done"
      /\ \A w \in Workers : wpc[w] # "idle" => wjob[w] \in Jobs
  BY DEF TypeInv, TypeOK, InStep
<1>b. "success" \notin StatusAt("loaded") /\ "success" \notin StatusAt("failing")
  BY DEF StatusAt
<1>c. \A w \in Workers : wpc[w] \in {"loaded", "failing"} => wjob[w] # f
  BY <1>b DEF InStep
<1> USE DEF dbVars
<1>1. ASSUME NEW j \in Jobs, Create(j) \/ Cancel(j) \/ RemoveTenant(j) \/ AckWaitExpires(j)
      PROVE  status'[f] = "success" /\ jobType'[f] = jobType[f]
  BY <1>1, <1>a DEF Create, CreateCheck, CreateCommit, CreateFails, Publish, PublishLost, Cancel,
                    CancelCheck, CancelCommit, RemoveTenant, AckWaitExpires
<1>2. ASSUME NEW w \in Workers, Handle(w)
      PROVE  status'[f] = "success" /\ jobType'[f] = jobType[f]
  BY <1>2, <1>a, <1>c DEF Handle, Load, MarkRunning, BackUpDisks, DiskError, FindParent,
                    SaveSuccess, SaveDuplicate, SaveFailed, DbError, Ack, Nak
<1>3. ASSUME NEW w \in Workers, Crash(w) \/ \E j \in Jobs : Deliver(w, j)
      PROVE  status'[f] = "success" /\ jobType'[f] = jobType[f]
  BY <1>3 DEF Crash, Deliver
<1>4. CASE UNCHANGED vars
  BY <1>4 DEF vars
<1> QED BY <1>1, <1>2, <1>3, <1>4 DEF Next

\* The worker of an incremental job finds a parent: the full backup there was
\* when the job was asked for has a manifest.
LEMMA ParentFound ==
    ASSUME TypeInv, SuccessHasManifest, Based, NEW w \in Workers, FindParent(w),
           jobType[wjob[w]] = "incremental", ~Gone(wjob[w])
    PROVE  wparent'[w] # NoJob
<1>1. wjob[w] \in Jobs /\ wparent \in [Workers -> Jobs \cup {NoJob}] /\ catalog \in Seq(Jobs)
  BY DEF FindParent, TypeInv, TypeOK
<1>2. PICK f \in Jobs : VmOf[f] = VmOf[wjob[w]] /\ status[f] = "success"
  BY <1>1 DEF Based, FullExists
<1>3. PICK i \in 1..Len(catalog) : catalog[i] = f
  BY <1>2 DEF SuccessHasManifest, HasManifest
<1>4. Parents(wjob[w]) # {}
  BY <1>2, <1>3 DEF Parents
<1>5. PICK k \in Parents(wjob[w]) : wparent' = [wparent EXCEPT ![w] = catalog[k]]
  BY <1>4 DEF FindParent
<1> QED BY <1>1, <1>5, NoJobAssumption DEF Parents

\* What is gone stays gone.
LEMMA GoneStays == ASSUME [Next]_vars, NEW j \in Jobs, Gone(j) PROVE Gone(j)'
<1>1. ASSUME NEW k \in Jobs, RemoveTenant(k) PROVE Gone(j)'
  BY <1>1 DEF RemoveTenant, Gone
<1>2. ASSUME NEW k \in Jobs, Create(k) \/ Cancel(k) \/ AckWaitExpires(k) PROVE gone' = gone
  BY <1>2 DEF Create, CreateCheck, CreateCommit, CreateFails, Publish, PublishLost, Cancel,
              CancelCheck, CancelCommit, AckWaitExpires, dbVars
<1>3. ASSUME NEW w \in Workers, Handle(w) PROVE gone' = gone
  BY <1>3 DEF Handle, Load, MarkRunning, BackUpDisks, DiskError, FindParent, SaveSuccess,
              SaveDuplicate, SaveFailed, DbError, Ack, Nak, dbVars
<1>4. ASSUME NEW w \in Workers, Crash(w) \/ \E k \in Jobs : Deliver(w, k) PROVE gone' = gone
  BY <1>4 DEF Crash, Deliver, dbVars
<1>5. CASE UNCHANGED vars
  BY <1>5 DEF vars, Gone
<1> QED BY <1>1, <1>2, <1>3, <1>4, <1>5 DEF Next, Gone

\* The type of a job changes only when it is checked, to what the check allows.
LEMMA TypeStays ==
    ASSUME TypeInv, [Next]_vars
    PROVE  \A j \in Jobs : jobType'[j] # jobType[j] =>
             request[j] = "none" /\ (jobType'[j] = "incremental" => FullExists(j))
<1>a. jobType \in [Jobs -> Types]
  BY DEF TypeInv, TypeOK
<1> USE DEF dbVars
<1>1. ASSUME NEW k \in Jobs, CreateCheck(k)
      PROVE  \A j \in Jobs : jobType'[j] # jobType[j] =>
               request[j] = "none" /\ (jobType'[j] = "incremental" => FullExists(j))
  BY <1>1, <1>a DEF CreateCheck
<1>2. ASSUME \A k \in Jobs : ~CreateCheck(k) PROVE jobType' = jobType
  <2>1. ASSUME NEW j \in Jobs, Create(j) \/ Cancel(j) \/ RemoveTenant(j) \/ AckWaitExpires(j)
        PROVE  jobType' = jobType
    BY <1>2, <2>1 DEF Create, CreateCommit, CreateFails, Publish, PublishLost, Cancel,
                      CancelCheck, CancelCommit, RemoveTenant, AckWaitExpires
  <2>2. ASSUME NEW w \in Workers, Handle(w) PROVE jobType' = jobType
    BY <2>2 DEF Handle, Load, MarkRunning, BackUpDisks, DiskError, FindParent,
                SaveSuccess, SaveDuplicate, SaveFailed, DbError, Ack, Nak
  <2>3. ASSUME NEW w \in Workers, Crash(w) \/ \E j \in Jobs : Deliver(w, j)
        PROVE  jobType' = jobType
    BY <2>3 DEF Crash, Deliver
  <2> QED BY <2>1, <2>2, <2>3 DEF Next, vars
<1> QED BY <1>1, <1>2

LEMMA BasedStep ==
    ASSUME Undisturbed, TypeInv, SuccessHasManifest, Held, InStep, Based, [Next]_vars
    PROVE  Based'
<1>a. /\ jobType \in [Jobs -> Types]
      /\ wpc \in [Workers -> {"idle", "fetched", "loaded", "disks", "link", "save",
                              "failing", "raised", "ack"}]
      /\ wjob \in [Workers -> Jobs \cup {NoJob}]
      /\ wparent \in [Workers -> Jobs \cup {NoJob}]
      /\ \A w \in Workers : wpc[w] # "idle" => wjob[w] \in Jobs /\ request[wjob[w]] = "done"
  BY NoJobAssumption DEF TypeInv, TypeOK, BrokerOK
<1> USE DEF dbVars
<1>1. \A j \in Jobs : FullExists(j) => FullExists(j)'
  BY FullStays DEF FullExists
<1>2. \A j \in Jobs : jobType'[j] # jobType[j] =>
        request[j] = "none" /\ (jobType'[j] = "incremental" => FullExists(j))
  BY TypeStays
<1>3. \A j \in Jobs : jobType'[j] = "incremental" => FullExists(j)'
  BY <1>1, <1>2 DEF Based
<1>5. \A j \in Jobs : Gone(j) => Gone(j)'
  BY GoneStays
<1>4. ASSUME NEW v \in Workers, wpc'[v] = "save", jobType'[wjob'[v]] = "incremental",
             ~Gone(wjob[v])'
      PROVE  wparent'[v] # NoJob
  <2>1. CASE wpc[v] = "save" /\ UNCHANGED <<wjob[v], wparent[v]>>
    <3>1. wjob[v] \in Jobs /\ jobType[wjob[v]] = "incremental" /\ ~Gone(wjob[v])
      BY <1>4, <2>1, <1>2, <1>5, <1>a DEF Gone
    <3> QED BY <2>1, <3>1 DEF Based
  <2>2. CASE FindParent(v)
    <3>1. jobType[wjob[v]] = "incremental" /\ ~Gone(wjob[v])
      BY <1>4, <2>2 DEF FindParent, Gone
    <3> QED BY <2>2, <3>1, ParentFound
  <2>3. ASSUME NEW j \in Jobs, Create(j) \/ Cancel(j) \/ RemoveTenant(j) \/ AckWaitExpires(j)
        PROVE  wpc[v] = "save" /\ UNCHANGED <<wjob[v], wparent[v]>>
    BY <1>4, <2>3 DEF Create, CreateCheck, CreateCommit, CreateFails, Publish, PublishLost, Cancel,
                CancelCheck, CancelCommit, RemoveTenant, AckWaitExpires, workerVars
  <2>4. ASSUME NEW w \in Workers,
               Handle(w) \/ Crash(w) \/ \E j \in Jobs : Deliver(w, j), ~FindParent(v)
        PROVE  wpc[v] = "save" /\ UNCHANGED <<wjob[v], wparent[v]>>
    <3>1. CASE Handle(w)
      BY <1>4, <1>a, <2>4, <3>1
         DEF Handle, Load, MarkRunning, BackUpDisks, DiskError, FindParent, SaveSuccess,
             SaveDuplicate, SaveFailed, DbError, Ack, Nak, Goto, Finish
    <3>2. CASE Crash(w) \/ \E j \in Jobs : Deliver(w, j)
      BY <1>4, <1>a, <3>2 DEF Crash, Deliver, Goto, Finish
    <3> QED BY <2>4, <3>1, <3>2
  <2>5. CASE UNCHANGED vars
    BY <1>4, <2>5 DEF vars, Based, Gone
  <2> QED BY <2>1, <2>2, <2>3, <2>4, <2>5 DEF Next
<1> QED BY <1>3, <1>4 DEF Based

LEMMA ParentStep ==
    ASSUME Undisturbed, LifeInv, [Next]_vars PROVE IncrementalHasParent'
<1>a. /\ TypeInv /\ InStep /\ Held /\ Based /\ IncrementalHasParent /\ SuccessHasManifest
      /\ parent \in [Jobs -> Jobs \cup {NoJob}]
  BY DEF LifeInv, TypeInv, TypeOK
<1>1. ASSUME NEW w \in Workers, SaveSuccess(w) PROVE IncrementalHasParent'
  <2>1. /\ \A j \in Jobs : HasManifest(j)' => HasManifest(j) \/ j = wjob[w]
        /\ parent' = [parent EXCEPT ![wjob[w]] = wparent[w]]
        /\ jobType' = jobType /\ wpc[w] = "save" /\ ~Gone(wjob[w])
    BY <1>1, <1>a, SavedManifest DEF SaveSuccess, HasManifest
  <2> QED BY <2>1, <1>a DEF IncrementalHasParent, Based
<1>2. ASSUME \A w \in Workers : ~SaveSuccess(w) PROVE IncrementalHasParent'
  <2>1. UNCHANGED <<catalog, parent>>
    BY <1>2, <1>a, OtherSteps
  <2>2. \A j \in Jobs : HasManifest(j)' <=> HasManifest(j)
    BY <2>1 DEF HasManifest
  <2>3. \A j \in Jobs : HasManifest(j) => jobType'[j] = jobType[j]
    BY <1>a, FullStays DEF InStep
  <2> QED BY <1>a, <2>1, <2>2, <2>3 DEF IncrementalHasParent
<1> QED BY <1>1, <1>2

LEMMA LifeStep ==
    ASSUME Undisturbed PROVE LifeInv /\ [Next]_vars => LifeInv'
BY TypeStep, SuccessStep, HeldStep, InStepStep, BasedStep, ParentStep
   DEF LifeInv, Undisturbed

LEMMA LifeInit == Init => LifeInv
<1> SUFFICES ASSUME Init PROVE LifeInv
  OBVIOUS
<1>1. TypeInv
  BY TypeInit
<1>2. \A j \in Jobs : ~HasManifest(j)
  BY DEF Init, HasManifest
<1>3. SuccessHasManifest /\ IncrementalHasParent /\ Held /\ Based
  BY <1>2, NoJobAssumption DEF Init, SuccessHasManifest, IncrementalHasParent, Held, Based
<1>4. InStep
  BY <1>2 DEF Init, InStep
<1> QED BY <1>1, <1>3, <1>4 DEF LifeInv

\* An incremental manifest has a parent, so that the chain of a restore ends at a
\* full backup, as long as no job is cancelled, killed or overtaken by ack_wait:
\* the full backup the request was promoted against is still a success when the
\* worker looks for a parent, however much later that is.
THEOREM IncrementalsHaveParents ==
    ASSUME Undisturbed PROVE Spec => []IncrementalHasParent
<1>1. LifeInv => IncrementalHasParent
  BY DEF LifeInv
<1>2. LifeInv /\ [Next]_vars => LifeInv'
  BY LifeStep
<1> QED BY <1>1, <1>2, LifeInit, PTL DEF Spec

-----------------------------------------------------------------------------
(* Refinement *)

Completed == {j \in Jobs : HasManifest(j)}

\* A step that leaves the statuses and the catalog alone is invisible.
LEMMA LifecycleStutter ==
    ASSUME UNCHANGED <<status, catalog>> PROVE UNCHANGED Lifecycle!lifecycleVars
BY DEF Lifecycle!lifecycleVars, HasManifest

LEMMA LifecycleStep ==
    ASSUME Undisturbed, LifeInv, [Next]_vars
    PROVE  [Lifecycle!Next]_(Lifecycle!lifecycleVars)
<1>a. /\ TypeInv /\ InStep /\ Held
      /\ status \in [Jobs -> Statuses]
      /\ \A w \in Workers : wpc[w] # "idle" => wjob[w] \in Jobs
  BY DEF LifeInv, TypeInv, TypeOK
<1>b. ASSUME NEW w \in Workers, wpc[w] # "idle" PROVE status[wjob[w]] \in StatusAt(wpc[w])
  BY <1>b DEF LifeInv, InStep
<1> USE DEF dbVars
<1>1. ASSUME NEW j \in Jobs, CreateCommit(j) PROVE Lifecycle!Queue(j)
  BY <1>1, <1>a DEF CreateCommit, InStep, HasManifest, Lifecycle!Queue, Lifecycle!Move
<1>2. ASSUME NEW w \in Workers, MarkRunning(w), wseen[w] # "running"
      PROVE  wjob[w] \in Jobs /\ Lifecycle!Start(wjob[w])
  <2>1. wjob[w] \in Jobs /\ status[wjob[w]] = "queued"
    BY <1>2, <1>a, <1>b DEF MarkRunning, InStep, StatusAt
  <2> QED BY <1>2, <2>1 DEF MarkRunning, HasManifest, Lifecycle!Start, Lifecycle!Move
<1>3. ASSUME NEW w \in Workers, SaveSuccess(w)
      PROVE  wjob[w] \in Jobs /\ Lifecycle!Complete(wjob[w])
  <2>1. wjob[w] \in Jobs /\ status[wjob[w]] = "running"
    BY <1>3, <1>a, <1>b DEF SaveSuccess, StatusAt
  <2>2. \A j \in Jobs : HasManifest(j)' <=> HasManifest(j) \/ j = wjob[w]
    BY <1>3, <1>a, SavedManifest DEF HasManifest
  <2>3. Completed' = Completed \cup {wjob[w]}
    BY <2>1, <2>2 DEF Completed
  <2> QED BY <1>3, <2>1, <2>3 DEF Completed, SaveSuccess, Lifecycle!Complete, Lifecycle!Move
<1>4. ASSUME NEW w \in Workers, SaveFailed(w)
      PROVE  wjob[w] \in Jobs /\ Lifecycle!Fail(wjob[w])
  <2>1. wjob[w] \in Jobs /\ status[wjob[w]] = "running"
    BY <1>4, <1>a, <1>b DEF SaveFailed, StatusAt
  <2> QED BY <1>4, <2>1 DEF SaveFailed, HasManifest, Lifecycle!Fail, Lifecycle!Move
<1>5. ASSUME NEW j \in Jobs,
             CreateCheck(j) \/ CreateFails(j) \/ Publish(j) \/ PublishLost(j) \/ Cancel(j)
             \/ RemoveTenant(j) \/ AckWaitExpires(j)
      PROVE  UNCHANGED <<status, catalog>>
  BY <1>5, <1>a DEF CreateCheck, CreateFails, Publish, PublishLost, Cancel, CancelCheck,
                    CancelCommit, RemoveTenant, AckWaitExpires, InStep
<1>6. ASSUME NEW w \in Workers,
             Load(w) \/ BackUpDisks(w) \/ DiskError(w) \/ FindParent(w)
             \/ SaveDuplicate(w) \/ DbError(w) \/ Ack(w) \/ Nak(w) \/ (MarkRunning(w) /\ wseen[w] = "running")
             \/ Crash(w) \/ \E j \in Jobs : Deliver(w, j)
      PROVE  UNCHANGED <<status, catalog>>
  BY <1>6 DEF Load, MarkRunning, BackUpDisks, DiskError, FindParent, SaveDuplicate, DbError, Ack,
              Nak,
              Crash, Deliver
<1>7. CASE UNCHANGED vars
  BY <1>7, LifecycleStutter DEF vars
<1>8. CASE Next
  <2>1. CASE \E j \in Jobs : Create(j) \/ Cancel(j) \/ RemoveTenant(j) \/ AckWaitExpires(j)
    BY <2>1, <1>1, <1>5, LifecycleStutter DEF Create, Lifecycle!Next
  <2>2. CASE \E w \in Workers : Handle(w) \/ Crash(w) \/ \E j \in Jobs : Deliver(w, j)
    BY <2>2, <1>2, <1>3, <1>4, <1>6, LifecycleStutter DEF Handle, Lifecycle!Next
  <2> QED BY <1>8, <2>1, <2>2 DEF Next
<1> QED BY <1>7, <1>8

\* Requests, broker and workers together implement the lifecycle of JobLifecycle:
\* a job is queued once, runs, and ends once; it has a manifest exactly if it
\* ended in success.
THEOREM JobsImplementLifecycle ==
    ASSUME Undisturbed PROVE Spec => ImplementsLifecycle
<1>1. Init => Lifecycle!Init
  BY DEF Init, Lifecycle!Init, HasManifest
<1>2. LifeInv /\ [Next]_vars => LifeInv'
  BY LifeStep
<1>3. LifeInv /\ [Next]_vars => [Lifecycle!Next]_(Lifecycle!lifecycleVars)
  BY LifecycleStep
<1> QED BY <1>1, <1>2, <1>3, LifeInit, PTL DEF Spec, ImplementsLifecycle, Lifecycle!Spec
-----------------------------------------------------------------------------
(* Acknowledged messages *)

\* Two workers that have one message, or a worker that has an acknowledged one,
\* have it because it was handed out again.
HandedOut ==
    /\ \A w \in Workers : wjob[w] # NoJob => delivered[wjob[w]] >= 1
    /\ \A v, w \in Workers :
        v # w /\ wjob[v] = wjob[w] /\ wjob[w] # NoJob => delivered[wjob[w]] > 1
    /\ \A w \in Workers :
        wjob[w] # NoJob /\ msg[wjob[w]] = "acked" => delivered[wjob[w]] > 1

\* Job j has ended, or it is shown as running after it was handed out again.
Accounted(j) ==
    ~Hidden(j) => status[j] \in Terminal \/ (status[j] = "running" /\ delivered[j] > 1)

\* What a worker is about to acknowledge is accounted for, like what is acknowledged.
HandInv ==
    /\ TypeInv
    /\ HandedOut
    /\ \A w \in Workers : wpc[w] = "idle" => wjob[w] = NoJob
    /\ \A w \in Workers : wpc[w] = "ack" => Accounted(wjob[w])
    /\ \A j \in Jobs : msg[j] = "acked" => Accounted(j)

LEMMA HandInit == Init => HandInv
<1> SUFFICES ASSUME Init PROVE HandInv
  OBVIOUS
<1>1. TypeInv
  BY TypeInit
<1> QED BY <1>1 DEF Init, HandInv, HandedOut

\* What the workers do not see they never will.
LEMMA HiddenStays ==
    ASSUME [Next]_vars, NEW j \in Jobs, Hidden(j) PROVE Hidden(j)'
<1>1. ASSUME NEW k \in Jobs, Create(k) \/ Cancel(k) \/ RemoveTenant(k) \/ AckWaitExpires(k)
      PROVE  foreign \subseteq foreign'
  BY <1>1 DEF Create, CreateCheck, CreateCommit, CreateFails, Publish, PublishLost, Cancel,
              CancelCheck, CancelCommit, RemoveTenant, AckWaitExpires, apiVars
<1>2. ASSUME NEW w \in Workers, Handle(w) PROVE foreign \subseteq foreign'
  BY <1>2 DEF Handle, Load, MarkRunning, BackUpDisks, DiskError, FindParent, SaveSuccess,
              SaveDuplicate, SaveFailed, DbError, Ack, Nak, apiVars
<1>3. ASSUME NEW w \in Workers, Crash(w) \/ \E k \in Jobs : Deliver(w, k)
      PROVE  foreign \subseteq foreign'
  BY <1>3 DEF Crash, Deliver, apiVars
<1>4. foreign \subseteq foreign'
  BY <1>1, <1>2, <1>3 DEF Next, vars
<1> QED BY <1>4, GoneStays DEF Hidden

\* A job that is accounted for stays so, when a step shows it as running again
\* only if it was handed out more than once.
LEMMA AccountedStays ==
    ASSUME [Next]_vars, NEW j \in Jobs, Accounted(j), delivered[j] \in Nat,
           delivered'[j] \in Nat, delivered'[j] >= delivered[j],
           \/ status'[j] = status[j]
           \/ status'[j] \in Terminal
           \/ status'[j] = "running" /\ delivered[j] > 1
    PROVE  Accounted(j)'
<1>1. Hidden(j) => Hidden(j)'
  BY HiddenStays
<1> QED BY <1>1 DEF Accounted

\* A step of worker w that tells the broker nothing.
LEMMA HandWorker ==
    ASSUME HandInv, [Next]_vars, NEW w \in Workers, wpc[w] # "idle", NEW s, s # "idle", Goto(w, s),
           UNCHANGED <<msg, delivered, wjob>>,
           \A j \in Jobs : j # wjob[w] => status'[j] = status[j],
           \/ status' = status
           \/ status'[wjob[w]] \in Terminal
           \/ wpc[w] # "ack" /\ status'[wjob[w]] = "running",
           s = "ack" => Accounted(wjob[w])'
    PROVE  HandInv'
<1>a. /\ TypeInv' /\ HandedOut
      /\ delivered \in [Jobs -> 0..MaxDeliver] /\ wjob[w] \in Jobs
      /\ wpc \in [Workers -> {"idle", "fetched", "loaded", "disks", "link", "save",
                              "failing", "raised", "ack"}]
      /\ \A v \in Workers : wpc[v] # "idle" => wjob[v] \in Jobs
      /\ \A v \in Workers : wpc'[v] = IF v = w THEN s ELSE wpc[v]
  BY TypeStep DEF HandInv, TypeInv, TypeOK, Goto
<1>1. HandedOut'
  BY <1>a DEF HandedOut
<1>2. ASSUME NEW j \in Jobs, Accounted(j), j # wjob[w] \/ delivered[j] > 1 \/ wpc[w] = "ack"
      PROVE  Accounted(j)'
  <2>1. /\ delivered[j] \in Nat /\ delivered'[j] \in Nat /\ delivered'[j] >= delivered[j]
        /\ \/ status'[j] = status[j]
           \/ status'[j] \in Terminal
           \/ status'[j] = "running" /\ delivered[j] > 1
    BY <1>2, <1>a, MaxDeliverAssumption
  <2> QED BY <1>2, <2>1, AccountedStays
<1>3. ASSUME NEW v \in Workers, wpc'[v] = "ack" PROVE Accounted(wjob[v])'
  <2>1. CASE v = w
    BY <1>3, <1>a, <2>1
  <2>2. CASE v # w
    <3>1. wpc[v] = "ack" /\ wjob[v] \in Jobs /\ Accounted(wjob[v]) /\ wjob[v] # NoJob
      BY <1>3, <1>a, <2>2, NoJobAssumption DEF HandInv
    <3>2. wjob[v] # wjob[w] \/ delivered[wjob[v]] > 1
      BY <1>a, <2>2, <3>1 DEF HandedOut
    <3>3. PICK j \in Jobs : j = wjob[v]
      BY <3>1
    <3>4. Accounted(j)'
      BY <1>2, <3>1, <3>2, <3>3
    <3> QED BY <3>3, <3>4
  <2> QED BY <2>1, <2>2
<1>4. ASSUME NEW j \in Jobs, msg'[j] = "acked" PROVE Accounted(j)'
  <2>1. msg[j] = "acked" /\ Accounted(j)
    BY <1>4 DEF HandInv
  <2>2. j = wjob[w] => delivered[j] > 1
    BY <1>a, <2>1, NoJobAssumption DEF HandedOut
  <2> QED BY <1>2, <2>1, <2>2
<1>5. \A v \in Workers : wpc'[v] = "idle" => wjob'[v] = NoJob
  BY <1>a DEF HandInv
<1> QED BY <1>a, <1>1, <1>3, <1>4, <1>5 DEF HandInv

\* The end of worker w; the message of its job becomes s.
LEMMA HandFinish ==
    ASSUME HandInv, [Next]_vars, NEW w \in Workers, wpc[w] # "idle", Finish(w),
           UNCHANGED <<status, delivered>>,
           NEW s, msg' = [msg EXCEPT ![wjob[w]] = s],
           s = "acked" => msg[wjob[w]] = "acked" \/ wpc[w] = "ack"
    PROVE  HandInv'
<1>a. /\ TypeInv' /\ HandedOut
      /\ delivered \in [Jobs -> 0..MaxDeliver] /\ wjob[w] \in Jobs
      /\ msg \in [Jobs -> {"unsent", "ready", "pending", "delayed", "acked", "spent"}]
      /\ wjob \in [Workers -> Jobs \cup {NoJob}]
      /\ wpc \in [Workers -> {"idle", "fetched", "loaded", "disks", "link", "save",
                              "failing", "raised", "ack"}]
      /\ \A v \in Workers : wpc[v] # "idle" => wjob[v] \in Jobs
      /\ \A v \in Workers : wpc'[v] = IF v = w THEN "idle" ELSE wpc[v]
      /\ \A v \in Workers : wjob'[v] = IF v = w THEN NoJob ELSE wjob[v]
  BY TypeStep DEF HandInv, TypeInv, TypeOK, Finish, Goto
<1>1. HandedOut'
  <2>1. ASSUME NEW v \in Workers, wjob'[v] # NoJob
        PROVE  /\ v # w /\ wjob'[v] = wjob[v] /\ wjob[v] \in Jobs
               /\ delivered'[wjob[v]] >= 1
               /\ msg'[wjob[v]] = "acked" => delivered'[wjob[v]] > 1
    BY <1>a, <2>1, NoJobAssumption DEF HandedOut
  <2> QED BY <1>a, <2>1 DEF HandedOut
<1>2. \A j \in Jobs : Accounted(j) => Accounted(j)'
  BY <1>a, AccountedStays, MaxDeliverAssumption
<1>3. \A v \in Workers : wpc'[v] = "ack" => Accounted(wjob[v])' 
  <2> SUFFICES ASSUME NEW v \in Workers, wpc'[v] = "ack" PROVE Accounted(wjob[v])'
    OBVIOUS
  <2>1. PICK j \in Jobs : j = wjob[v] /\ Accounted(j) /\ v # w
    BY <1>a DEF HandInv
  <2>2. Accounted(j)' /\ wjob'[v] = j
    BY <1>2, <1>a, <2>1
  <2> QED BY <2>2
<1>4. ASSUME NEW j \in Jobs, msg'[j] = "acked" PROVE Accounted(j)'
  <2>1. Accounted(j)
    BY <1>4, <1>a DEF HandInv
  <2> QED BY <1>2, <2>1
<1>5. \A v \in Workers : wpc'[v] = "idle" => wjob'[v] = NoJob
  BY <1>a DEF HandInv
<1> QED BY <1>a, <1>1, <1>3, <1>4, <1>5 DEF HandInv

\* A step of a request, of the database or of the broker's timer.
LEMMA HandApi ==
    ASSUME HandInv, [Next]_vars, UNCHANGED <<delivered, wpc, wjob>>,
           \A j \in Jobs : msg'[j] = "acked" => msg[j] = "acked",
           \A j \in Jobs : \/ status'[j] = status[j] \/ status'[j] \in Terminal
                           \/ msg[j] = "unsent" /\ \A w \in Workers : wjob[w] # j
    PROVE  HandInv'
<1>a. /\ TypeInv' /\ HandedOut /\ delivered \in [Jobs -> 0..MaxDeliver]
      /\ \A v \in Workers : wpc[v] # "idle" => wjob[v] \in Jobs
      /\ wjob \in [Workers -> Jobs \cup {NoJob}]
  BY TypeStep DEF HandInv, TypeInv, TypeOK
<1>1. HandedOut'
  BY <1>a DEF HandedOut
<1>2. ASSUME NEW j \in Jobs, Accounted(j), msg[j] = "acked" \/ \E w \in Workers : wjob[w] = j
      PROVE  Accounted(j)'
  <2>1. /\ delivered[j] \in Nat /\ delivered'[j] \in Nat /\ delivered'[j] >= delivered[j]
        /\ status'[j] = status[j] \/ status'[j] \in Terminal
    BY <1>2, <1>a, MaxDeliverAssumption
  <2> QED BY <1>2, <2>1, AccountedStays
<1>3. ASSUME NEW v \in Workers, wpc'[v] = "ack" PROVE Accounted(wjob[v])'
  <2>1. PICK j \in Jobs : j = wjob[v] /\ Accounted(j)
    BY <1>3, <1>a DEF HandInv
  <2>2. Accounted(j)' /\ wjob'[v] = j
    BY <1>2, <2>1
  <2> QED BY <2>2
<1>4. ASSUME NEW j \in Jobs, msg'[j] = "acked" PROVE Accounted(j)'
  <2>1. msg[j] = "acked" /\ Accounted(j)
    BY <1>4 DEF HandInv
  <2> QED BY <1>2, <2>1
<1>5. \A v \in Workers : wpc'[v] = "idle" => wjob'[v] = NoJob
  BY DEF HandInv
<1> QED BY <1>a, <1>1, <1>3, <1>4, <1>5 DEF HandInv

LEMMA HandDeliver ==
    ASSUME HandInv, [Next]_vars, NEW w \in Workers, NEW j \in Jobs, Deliver(w, j)
    PROVE  HandInv'
<1>a. /\ TypeInv' /\ HandedOut /\ delivered \in [Jobs -> 0..MaxDeliver]
      /\ msg \in [Jobs -> {"unsent", "ready", "pending", "delayed", "acked", "spent"}]
      /\ wjob \in [Workers -> Jobs \cup {NoJob}]
      /\ wpc \in [Workers -> {"idle", "fetched", "loaded", "disks", "link", "save",
                              "failing", "raised", "ack"}]
      /\ \A v \in Workers : wpc[v] # "idle" => wjob[v] \in Jobs
  BY TypeStep DEF HandInv, TypeInv, TypeOK
<1>b. /\ msg' = [msg EXCEPT ![j] = "pending"]
      /\ delivered' = [delivered EXCEPT ![j] = @ + 1]
      /\ wpc' = [wpc EXCEPT ![w] = "fetched"] /\ wjob' = [wjob EXCEPT ![w] = j]
      /\ status' = status
  BY DEF Deliver, Goto, dbVars
<1>1. HandedOut'
  <2>1. \A v \in Workers : wjob'[v] # NoJob => wjob'[v] \in Jobs /\ delivered'[wjob'[v]] >= 1
    BY <1>a, <1>b, MaxDeliverAssumption, NoJobAssumption DEF HandedOut
  <2>2. ASSUME NEW u \in Workers, NEW v \in Workers, u # v, wjob'[u] = wjob'[v],
               wjob'[v] # NoJob
        PROVE  delivered'[wjob'[v]] > 1
    <3>1. CASE wjob'[v] = j
      <4>1. PICK x \in Workers : wjob[x] = j
        BY <1>a, <1>b, <2>2, <3>1
      <4>2. delivered[j] >= 1
        BY <4>1, NoJobAssumption, <1>a DEF HandedOut
      <4> QED BY <1>a, <1>b, <3>1, <4>2, MaxDeliverAssumption
    <3>2. CASE wjob'[v] # j
      BY <1>a, <1>b, <2>2, <3>2 DEF HandedOut
    <3> QED BY <3>1, <3>2
  <2>3. \A v \in Workers : wjob'[v] # NoJob /\ msg'[wjob'[v]] = "acked" =>
            delivered'[wjob'[v]] > 1
    BY <1>a, <1>b DEF HandedOut
  <2> QED BY <2>1, <2>2, <2>3 DEF HandedOut
<1>2. \A k \in Jobs : Accounted(k) => Accounted(k)'
  <2>1. \A k \in Jobs : delivered[k] \in Nat /\ delivered'[k] \in Nat /\ delivered'[k] >= delivered[k]
    BY <1>a, <1>b, MaxDeliverAssumption
  <2> QED BY <1>b, <2>1, AccountedStays
<1>3. ASSUME NEW v \in Workers, wpc'[v] = "ack" PROVE Accounted(wjob[v])'
  <2>1. PICK k \in Jobs : k = wjob[v] /\ Accounted(k) /\ v # w
    BY <1>3, <1>a, <1>b DEF HandInv
  <2>2. Accounted(k)' /\ wjob'[v] = k
    BY <1>2, <1>a, <1>b, <2>1
  <2> QED BY <2>2
<1>4. ASSUME NEW k \in Jobs, msg'[k] = "acked" PROVE Accounted(k)'
  BY <1>4, <1>2, <1>a, <1>b DEF HandInv
<1>5. \A v \in Workers : wpc'[v] = "idle" => wjob'[v] = NoJob
  BY <1>a, <1>b DEF HandInv
<1> QED BY <1>a, <1>1, <1>3, <1>4, <1>5 DEF HandInv

LEMMA HandStep == HandInv /\ [Next]_vars => HandInv'
<1> SUFFICES ASSUME HandInv, [Next]_vars PROVE HandInv'
  OBVIOUS
<1>a. /\ status \in [Jobs -> Statuses]
      /\ msg \in [Jobs -> {"unsent", "ready", "pending", "delayed", "acked", "spent"}]
      /\ \A w \in Workers : wpc[w] # "idle" => wjob[w] \in Jobs
      /\ \A w \in Workers : wjob[w] # NoJob => request[wjob[w]] = "done"
      /\ \A j \in Jobs : request[j] # "done" => msg[j] = "unsent"
  BY DEF HandInv, TypeInv, TypeOK, BrokerOK
<1>1. ASSUME NEW j \in Jobs, Create(j) \/ Cancel(j) \/ RemoveTenant(j) \/ AckWaitExpires(j)
      PROVE  HandInv'
  <2>1. UNCHANGED <<delivered, wpc, wjob>>
    BY <1>1 DEF Create, CreateCheck, CreateCommit, CreateFails, Publish, PublishLost, Cancel,
                CancelCheck, CancelCommit, RemoveTenant, AckWaitExpires, brokerVars, workerVars
  <2>2. \A k \in Jobs : msg'[k] = "acked" => msg[k] = "acked"
    BY <1>1, <1>a
       DEF Create, CreateCheck, CreateCommit, CreateFails, Publish, PublishLost, Cancel,
           CancelCheck, CancelCommit, RemoveTenant, AckWaitExpires, Returned, brokerVars
  <2>3. \A k \in Jobs : \/ status'[k] = status[k] \/ status'[k] \in Terminal
                        \/ msg[k] = "unsent" /\ \A w \in Workers : wjob[w] # k
    BY <1>1, <1>a, NoJobAssumption
       DEF Create, CreateCheck, CreateCommit, CreateFails, Publish, PublishLost, Cancel,
           CancelCheck, CancelCommit, RemoveTenant, AckWaitExpires, Terminal, dbVars
  <2> QED BY <2>1, <2>2, <2>3, HandApi
<1>2. ASSUME NEW w \in Workers, Load(w) PROVE HandInv'
  <2>1. /\ wpc[w] = "fetched" /\ wjob[w] \in Jobs
        /\ UNCHANGED <<status, gone, foreign, msg, delivered, wjob>>
    BY <1>2, <1>a DEF Load, dbVars, apiVars, brokerVars
  <2>2. PICK s \in {"ack", "loaded"} :
            Goto(w, s) /\ (s = "ack" => Hidden(wjob[w]) \/ status[wjob[w]] = "cancelled")
    BY <1>2 DEF Load
  <2>3. s = "ack" => Accounted(wjob[w])'
    BY <2>1, <2>2 DEF Accounted, Hidden, Gone, Terminal
  <2> QED BY <2>1, <2>2, <2>3, HandWorker
<1>3. ASSUME NEW w \in Workers, MarkRunning(w) PROVE HandInv'
  <2>1. /\ wpc[w] = "loaded" /\ wjob[w] \in Jobs /\ UNCHANGED <<msg, delivered, wjob>>
        /\ status' = status \/ status' = [status EXCEPT ![wjob[w]] = "running"]
    BY <1>3, <1>a DEF MarkRunning, brokerVars
  <2>2. PICK s \in {"raised", "disks"} : Goto(w, s)
    BY <1>3 DEF MarkRunning
  <2>3. /\ \A j \in Jobs : j # wjob[w] => status'[j] = status[j]
        /\ status' = status \/ (wpc[w] # "ack" /\ status'[wjob[w]] = "running")
    BY <2>1, <1>a
  <2> QED BY <2>1, <2>2, <2>3, HandWorker
<1>4. ASSUME NEW w \in Workers,
             BackUpDisks(w) \/ DiskError(w) \/ FindParent(w) \/ SaveDuplicate(w) \/ DbError(w)
      PROVE  HandInv'
  <2>1. /\ wpc[w] # "idle" /\ UNCHANGED <<status, msg, delivered, wjob>>
    BY <1>4 DEF BackUpDisks, DiskError, FindParent, SaveDuplicate, DbError, dbVars, brokerVars
  <2>2. PICK s \in {"link", "failing", "save", "raised"} : Goto(w, s)
    BY <1>4 DEF BackUpDisks, DiskError, FindParent, SaveDuplicate, DbError
  <2> QED BY <2>1, <2>2, HandWorker
<1>5. ASSUME NEW w \in Workers, SaveSuccess(w) \/ SaveFailed(w) PROVE HandInv'
  <2>1. PICK t \in Terminal : status' = [status EXCEPT ![wjob[w]] = t]
    BY <1>5 DEF SaveSuccess, SaveFailed, Terminal
  <2>2. /\ wpc[w] # "idle" /\ wjob[w] \in Jobs /\ Goto(w, "ack")
        /\ UNCHANGED <<msg, delivered, wjob>>
    BY <1>5, <1>a DEF SaveSuccess, SaveFailed, brokerVars
  <2>3. /\ status'[wjob[w]] \in Terminal
        /\ \A j \in Jobs : j # wjob[w] => status'[j] = status[j]
    BY <1>a, <2>1, <2>2
  <2>4. Accounted(wjob[w])'
    BY <2>2, <2>3 DEF Accounted
  <2> QED BY <2>2, <2>3, <2>4, HandWorker
<1>6. ASSUME NEW w \in Workers, Ack(w) PROVE HandInv'
  <2>1. /\ wpc[w] = "ack" /\ wpc[w] # "idle" /\ Finish(w) /\ UNCHANGED <<status, delivered>>
        /\ msg' = [msg EXCEPT ![wjob[w]] = "acked"]
    BY <1>6 DEF Ack, dbVars
  <2> QED BY <2>1, HandFinish
<1>7. ASSUME NEW w \in Workers, Nak(w) PROVE HandInv'
  <2>1. /\ wpc[w] # "idle" /\ Finish(w) /\ UNCHANGED <<status, delivered>>
    BY <1>7 DEF Nak, dbVars
  <2>2. PICK s : s = IF msg[wjob[w]] = "pending" THEN Returned(wjob[w], "delayed")
                     ELSE msg[wjob[w]]
    OBVIOUS
  <2>3. /\ msg' = [msg EXCEPT ![wjob[w]] = s]
        /\ s = "acked" => msg[wjob[w]] = "acked" \/ wpc[w] = "ack"
    BY <1>7, <2>2 DEF Nak, Returned
  <2> QED BY <2>1, <2>3, HandFinish
<1>8. ASSUME NEW w \in Workers, Crash(w) PROVE HandInv'
  <2>1. /\ wpc[w] # "idle" /\ Finish(w) /\ UNCHANGED <<status, delivered>> /\ wjob[w] \in Jobs
        /\ msg' = msg
    BY <1>8, <1>a DEF Crash, dbVars, brokerVars
  <2>2. PICK s : s = msg[wjob[w]]
    OBVIOUS
  <2>3. /\ msg' = [msg EXCEPT ![wjob[w]] = s]
        /\ s = "acked" => msg[wjob[w]] = "acked" \/ wpc[w] = "ack"
    BY <1>a, <2>1, <2>2
  <2> QED BY <2>1, <2>3, HandFinish
<1>9. ASSUME UNCHANGED vars PROVE HandInv'
  <2>1. /\ UNCHANGED <<status, msg, delivered, wpc, wjob>>
    BY <1>9 DEF vars
  <2>2. \A j \in Jobs : msg'[j] = "acked" => msg[j] = "acked"
    BY <2>1
  <2> QED BY <2>1, <2>2, HandApi
<1>10. ASSUME NEW w \in Workers, Handle(w) PROVE HandInv'
  BY <1>10, <1>2, <1>3, <1>4, <1>5, <1>6, <1>7 DEF Handle
<1> QED BY <1>1, <1>8, <1>9, <1>10, HandDeliver DEF Next

\* Whatever is cancelled, deleted, killed or handed out again, whichever disks and
\* queries fail and whatever the sessions admit after a commit: no worker ends a
\* message whose job it could see and leaves the job queued, and none leaves it
\* running unless the message had been handed out before.
THEOREM JobsStayInHand == Spec => []JobsInHand
<1>1. HandInv => JobsInHand
  BY DEF HandInv, JobsInHand, Accounted
<1> QED BY <1>1, HandInit, HandStep, PTL DEF Spec

-----------------------------------------------------------------------------
(* Manifests without parent *)

\* A completed full backup of j's VM.
FullDone(j, f) == VmOf[f] = VmOf[j] /\ jobType[f] = "full" /\ HasManifest(f)

\* Some of them has lost its success.
Undone(j) == \E f \in Jobs : FullDone(j, f) /\ status[f] # "success"

\* An incremental job was asked for when there was a completed full backup, and a
\* worker that found no parent for it found its VM gone or a full backup undone.
OrphanInv ==
    /\ TypeInv
    /\ SuccessHasManifest
    /\ \A j \in Jobs : HasManifest(j) => request[j] = "done"
    /\ \A j \in Jobs : jobType[j] = "incremental" => \E f \in Jobs : FullDone(j, f)
    /\ \A w \in Workers :
        wpc[w] = "save" /\ jobType[wjob[w]] = "incremental" /\ wparent[w] = NoJob =>
            Gone(wjob[w]) \/ Undone(wjob[w])
    /\ OrphanedOnlyIfUndone

\* A completed backup stays completed, keeps its type, and once undone stays undone.
LEMMA DoneStays ==
    ASSUME OrphanInv, [Next]_vars, NEW f \in Jobs, HasManifest(f)
    PROVE  /\ HasManifest(f)' /\ jobType'[f] = jobType[f]
           /\ status[f] # "success" => status'[f] # "success"
<1>a. /\ status \in [Jobs -> Statuses] /\ jobType \in [Jobs -> Types]
      /\ request[f] = "done" /\ TypeInv
      /\ \A w \in Workers : wpc[w] # "idle" => wjob[w] \in Jobs
  BY DEF OrphanInv, TypeInv, TypeOK
<1>1. HasManifest(f)'
  <2>1. ASSUME NEW w \in Workers, SaveSuccess(w) PROVE HasManifest(f)'
    BY <1>a, <2>1, SavedManifest DEF HasManifest
  <2>2. ASSUME \A w \in Workers : ~SaveSuccess(w) PROVE HasManifest(f)'
    BY <1>a, <2>2, OtherSteps DEF HasManifest
  <2> QED BY <2>1, <2>2
<1>2. status[f] # "success" => status'[f] # "success"
  <2>1. ASSUME NEW w \in Workers, SaveSuccess(w)
        PROVE  status[f] # "success" => status'[f] # "success"
    BY <1>a, <2>1 DEF SaveSuccess
  <2>2. ASSUME \A w \in Workers : ~SaveSuccess(w)
        PROVE  status[f] # "success" => status'[f] # "success"
    BY <1>a, <2>2, OtherSteps
  <2> QED BY <2>1, <2>2
<1>3. jobType'[f] = jobType[f]
  BY <1>a, TypeStays
<1> QED BY <1>1, <1>2, <1>3

LEMMA OrphanInit == Init => OrphanInv
<1> SUFFICES ASSUME Init PROVE OrphanInv
  OBVIOUS
<1>1. TypeInv
  BY TypeInit
<1>2. \A j \in Jobs : ~HasManifest(j)
  BY DEF Init, HasManifest
<1>3. SuccessHasManifest /\ OrphanedOnlyIfUndone
  BY <1>2 DEF Init, SuccessHasManifest, OrphanedOnlyIfUndone
<1> QED BY <1>1, <1>2, <1>3 DEF Init, OrphanInv

\* A worker that finds no parent for an incremental job finds its VM gone, or all
\* completed full backups of it undone, of which there is one.
LEMMA NoParentFound ==
    ASSUME OrphanInv, NEW w \in Workers, FindParent(w),
           jobType[wjob[w]] = "incremental", wparent'[w] = NoJob
    PROVE  Gone(wjob[w]) \/ Undone(wjob[w])
<1>1. /\ wjob[w] \in Jobs /\ wparent \in [Workers -> Jobs \cup {NoJob}]
      /\ catalog \in Seq(Jobs)
  BY DEF FindParent, OrphanInv, TypeInv, TypeOK
<1>2. PICK f \in Jobs : FullDone(wjob[w], f)
  BY <1>1 DEF OrphanInv
<1>3. PICK i \in 1..Len(catalog) : catalog[i] = f
  BY <1>2 DEF FullDone, HasManifest
<1>4. ASSUME ~Gone(wjob[w]), status[f] = "success" PROVE FALSE
  <2>1. i \in Parents(wjob[w])
    BY <1>2, <1>3, <1>4 DEF Parents, FullDone
  <2>2. PICK k \in Parents(wjob[w]) : wparent' = [wparent EXCEPT ![w] = catalog[k]]
    BY <2>1 DEF FindParent
  <2> QED BY <1>1, <2>2, NoJobAssumption DEF Parents
<1> QED BY <1>2, <1>4 DEF Undone

LEMMA OrphanStep == OrphanInv /\ [Next]_vars => OrphanInv'
<1> SUFFICES ASSUME OrphanInv, [Next]_vars PROVE OrphanInv'
  OBVIOUS
<1>a. /\ TypeInv /\ SuccessHasManifest /\ OrphanedOnlyIfUndone
      /\ jobType \in [Jobs -> Types]
      /\ parent \in [Jobs -> Jobs \cup {NoJob}]
      /\ wpc \in [Workers -> {"idle", "fetched", "loaded", "disks", "link", "save",
                              "failing", "raised", "ack"}]
      /\ wjob \in [Workers -> Jobs \cup {NoJob}]
      /\ wparent \in [Workers -> Jobs \cup {NoJob}]
      /\ \A w \in Workers : wpc[w] # "idle" => wjob[w] \in Jobs /\ request[wjob[w]] = "done"
  BY NoJobAssumption DEF OrphanInv, TypeInv, TypeOK, BrokerOK
<1>b. TypeInv' /\ SuccessHasManifest'
  BY <1>a, TypeStep, SuccessStep
<1>1. \A j \in Jobs : HasManifest(j)' => HasManifest(j) \/ request[j] = "done"
  <2>1. ASSUME NEW w \in Workers, SaveSuccess(w)
        PROVE  \A j \in Jobs : HasManifest(j)' => HasManifest(j) \/ request[j] = "done"
    <3>1. wpc[w] # "idle"
      BY <2>1 DEF SaveSuccess
    <3> QED BY <1>a, <2>1, <3>1, SavedManifest DEF HasManifest
  <2>2. ASSUME \A w \in Workers : ~SaveSuccess(w)
        PROVE  \A j \in Jobs : HasManifest(j)' => HasManifest(j)
    BY <1>a, <2>2, OtherSteps DEF HasManifest
  <2> QED BY <2>1, <2>2
<1>2. \A j \in Jobs : request[j] = "done" => request'[j] = "done"
  <2>1. ASSUME NEW k \in Jobs, Create(k) \/ Cancel(k) \/ RemoveTenant(k) \/ AckWaitExpires(k)
        PROVE  \A j \in Jobs : request[j] = "done" => request'[j] = "done"
    <3>1. request \in [Jobs -> {"none", "checked", "committed", "done"}]
      BY <1>a DEF TypeInv, TypeOK
    <3> QED BY <2>1, <3>1
            DEF Create, CreateCheck, CreateCommit, CreateFails, Publish, PublishLost, Cancel,
                CancelCheck, CancelCommit, RemoveTenant, AckWaitExpires, apiVars
  <2>2. ASSUME NEW w \in Workers, Handle(w) PROVE request' = request
    BY <2>2 DEF Handle, Load, MarkRunning, BackUpDisks, DiskError, FindParent, SaveSuccess,
                SaveDuplicate, SaveFailed, DbError, Ack, Nak, apiVars
  <2>3. ASSUME NEW w \in Workers, Crash(w) \/ \E k \in Jobs : Deliver(w, k)
        PROVE  request' = request
    BY <2>3 DEF Crash, Deliver, apiVars
  <2> QED BY <2>1, <2>2, <2>3 DEF Next, vars
<1>3. \A j \in Jobs : HasManifest(j)' => request'[j] = "done"
  BY <1>1, <1>2 DEF OrphanInv
<1>4. \A j, f \in Jobs : FullDone(j, f) => FullDone(j, f)'
  BY DoneStays DEF FullDone
<1>5. \A j \in Jobs : Undone(j) => Undone(j)'
  BY <1>4, DoneStays DEF Undone, FullDone
<1>6. \A j \in Jobs : jobType'[j] = "incremental" => \E f \in Jobs : FullDone(j, f)
  <2>1. \A j \in Jobs : FullExists(j) => \E f \in Jobs : FullDone(j, f)
    BY <1>a DEF FullExists, FullDone, SuccessHasManifest
  <2> QED BY <1>a, <2>1, TypeStays DEF OrphanInv
<1>7. ASSUME NEW v \in Workers, wpc'[v] = "save", jobType'[wjob'[v]] = "incremental",
             wparent'[v] = NoJob
      PROVE  (Gone(wjob[v]) \/ Undone(wjob[v]))'
  <2>1. ASSUME NEW j \in Jobs, j = wjob'[v], Gone(j) \/ Undone(j)
        PROVE  (Gone(wjob[v]) \/ Undone(wjob[v]))'
    <3>1. Gone(j)' \/ Undone(j)'
      BY <1>5, <2>1, GoneStays
    <3> QED BY <2>1, <3>1 DEF Gone, Undone, FullDone, HasManifest
  <2>2. CASE wpc[v] = "save" /\ UNCHANGED <<wjob[v], wparent[v]>>
    <3>1. PICK j \in Jobs : j = wjob[v] /\ request[j] = "done"
      BY <1>a, <2>2
    <3>2. jobType[j] = "incremental"
      BY <1>7, <2>2, <3>1, <1>a, TypeStays
    <3> QED BY <1>7, <2>1, <2>2, <3>1, <3>2 DEF OrphanInv
  <2>3. CASE FindParent(v)
    <3>1. PICK j \in Jobs : j = wjob[v] /\ j = wjob'[v] /\ jobType[j] = "incremental"
      BY <1>7, <1>a, <2>3 DEF FindParent, dbVars
    <3> QED BY <1>7, <2>1, <2>3, <3>1, NoParentFound
  <2>4. ASSUME NEW j \in Jobs, Create(j) \/ Cancel(j) \/ RemoveTenant(j) \/ AckWaitExpires(j)
        PROVE  wpc[v] = "save" /\ UNCHANGED <<wjob[v], wparent[v]>>
    BY <1>7, <2>4 DEF Create, CreateCheck, CreateCommit, CreateFails, Publish, PublishLost, Cancel,
                CancelCheck, CancelCommit, RemoveTenant, AckWaitExpires, workerVars
  <2>5. ASSUME NEW w \in Workers,
               Handle(w) \/ Crash(w) \/ \E j \in Jobs : Deliver(w, j), ~FindParent(v)
        PROVE  wpc[v] = "save" /\ UNCHANGED <<wjob[v], wparent[v]>>
    <3>1. CASE Handle(w)
      BY <1>7, <1>a, <2>5, <3>1
         DEF Handle, Load, MarkRunning, BackUpDisks, DiskError, FindParent, SaveSuccess,
             SaveDuplicate, SaveFailed, DbError, Ack, Nak, Goto, Finish
    <3>2. CASE Crash(w) \/ \E j \in Jobs : Deliver(w, j)
      BY <1>7, <1>a, <3>2 DEF Crash, Deliver, Goto, Finish
    <3> QED BY <2>5, <3>1, <3>2
  <2>6. CASE UNCHANGED vars
    BY <1>7, <2>2, <2>6 DEF vars
  <2> QED BY <2>2, <2>3, <2>4, <2>5, <2>6 DEF Next
<1>8. OrphanedOnlyIfUndone'
  <2> SUFFICES ASSUME NEW j \in Jobs, HasManifest(j)', jobType'[j] = "incremental",
                      parent'[j] = NoJob
               PROVE  Undone(j)'
    BY DEF OrphanedOnlyIfUndone, Undone, FullDone
  <2>0. jobType[j] = "incremental"
    BY <1>1, TypeStays, <1>a DEF OrphanInv
  <2>1. ASSUME NEW w \in Workers, SaveSuccess(w) PROVE Undone(j)
    <3>1. /\ HasManifest(j) \/ j = wjob[w]
          /\ parent' = [parent EXCEPT ![wjob[w]] = wparent[w]]
          /\ wpc[w] = "save" /\ ~Gone(wjob[w]) /\ ~HasManifest(wjob[w])
      BY <1>a, <2>1, SavedManifest DEF SaveSuccess, HasManifest
    <3>2. CASE j = wjob[w]
      BY <1>a, <2>0, <3>1, <3>2 DEF OrphanInv
    <3>3. CASE j # wjob[w]
      BY <1>a, <2>0, <3>1, <3>3 DEF OrphanedOnlyIfUndone, Undone, FullDone
    <3> QED BY <3>2, <3>3
  <2>2. ASSUME \A w \in Workers : ~SaveSuccess(w) PROVE Undone(j)
    <3>1. HasManifest(j) /\ parent[j] = NoJob
      BY <1>a, <2>2, OtherSteps DEF HasManifest
    <3> QED BY <1>a, <2>0, <3>1 DEF OrphanedOnlyIfUndone, Undone, FullDone
  <2> QED BY <1>5, <2>1, <2>2
<1>9. \A j \in Jobs : jobType'[j] = "incremental" => \E f \in Jobs : FullDone(j, f)'
  BY <1>4, <1>6
<1> QED BY <1>b, <1>3, <1>7, <1>8, <1>9 DEF OrphanInv

\* An incremental manifest stands without a parent only beside a completed full
\* backup of its VM that is no longer a success: a request that promotes, the pass
\* that looks for the parent and all that happens between them leave no other way.
THEOREM OrphansOnlyIfUndone == Spec => []OrphanedOnlyIfUndone
<1>1. OrphanInv => OrphanedOnlyIfUndone
  BY DEF OrphanInv
<1> QED BY <1>1, OrphanInit, OrphanStep, PTL DEF Spec

=============================================================================
