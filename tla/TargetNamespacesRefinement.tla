-------------------- MODULE TargetNamespacesRefinement --------------------
(***************************************************************************)
(* The proof that the reconciler of TargetNamespaces implements the ledger *)
(* of NamespaceAccess, call by call and for every value of the constants.  *)
(* IInv says what the calls rely on; TaskInv adds for which CR a task may  *)
(* run at all.                                                             *)
(***************************************************************************)
EXTENDS TargetNamespacesProofs

\* The finalizer is on a CR that nobody has deleted.
GuardedLive == cr.phase = "live" /\ cr.finalizer

\* A setup works for a CR that was live, a finalization for one that was being
\* deleted.  A finalization may start from a stale cache, but the finalizer gets
\* onto a live CR only through a reconcile of the same worker that has seen that
\* CR, so no finalization runs, or can start from the cache, while it is there.
TaskInv ==
  /\ pc \in TrustedLabels => mem.phase = "live"
  /\ pc \in FinalizeLabels => mem.phase = "deleting" /\ ~GuardedLive
  /\ cache.phase = "deleting" => ~GuardedLive
  /\ pc = "addFinalizer" /\ memFresh => cache.phase # "deleting"

AbstractStep == [Ledger!AccessNext]_(Ledger!accessSpecVars)

-----------------------------------------------------------------------------
(* TaskInv is an invariant.                                                *)

\* A write of the CR that keeps its phase and finalizer, as every status write does.
LEMMA KeepsGuard ==
  ASSUME cr'.phase = cr.phase, cr'.finalizer = cr.finalizer
  PROVE  GuardedLive' <=> GuardedLive
  BY DEF GuardedLive

\* A step of the worker's own calls, and of everything but the start of a reconcile,
\* the finalizer's write and users, leaves the CR's guard, the phase in memory and the
\* cache alone, or ends the reconcile.
LEMMA TaskKept ==
  ASSUME TaskInv, cr'.phase = cr.phase, cr'.finalizer = cr.finalizer, cache' = cache,
         \/ pc' = "idle"
         \/ /\ mem'.phase = mem.phase
            /\ pc' \in TrustedLabels => pc \in TrustedLabels \/ mem.phase = "live"
            /\ pc' \in FinalizeLabels => pc \in FinalizeLabels
            /\ pc' = "addFinalizer" => pc = "addFinalizer" /\ (memFresh' => memFresh)
  PROVE  TaskInv'
<1>1. GuardedLive' <=> GuardedLive
  BY KeepsGuard
<1>2. "idle" \notin TrustedLabels /\ "idle" \notin FinalizeLabels
  BY DEF TrustedLabels, FinalizeLabels
<1> QED BY <1>1, <1>2 DEF TaskInv

\* TaskInv is preserved by every step.
LEMMA TaskStep == IInv /\ TaskInv /\ [Next]_vars => TaskInv'
<1> SUFFICES ASSUME IInv, TaskInv, [Next]_vars PROVE TaskInv'
  OBVIOUS
<1> USE DEF IInv
<1>a. cr \in CRs /\ mem \in CRs /\ cache \in CRs /\ CRCoherent
  BY DEF TypeOK, CRType
<1>1. CASE Reconcile
  <2>1. GuardedLive' <=> GuardedLive
    BY <1>1 DEF Reconcile, crVars, GuardedLive
  <2>2. CASE UNCHANGED localVars
    BY <1>1, <2>1, <2>2 DEF Reconcile, TaskInv, localVars, crVars
  <2>3. CASE /\ mem' = cache /\ cache.phase \notin {"absent"}
             /\ pc' = IF cache.phase = "deleting" THEN "finClusterRoleBinding"
                      ELSE IF cache.finalizer THEN "secrets" ELSE "addFinalizer"
    BY <1>1, <1>a, <2>1, <2>3 DEF Reconcile, TaskInv, crVars, TrustedLabels, FinalizeLabels, CRs
  <2> QED BY <1>1, <1>a, <2>2, <2>3 DEF Reconcile
<1>2. CASE AddFinalizer
  <2>1. CASE Conflict
    BY <2>1, TaskKept DEF Conflict, Return, crVars
  <2>2. CASE WriteCR([mem EXCEPT !.finalizer = TRUE]) /\ Goto("secrets")
    BY <1>2, <2>2 DEF AddFinalizer, WriteCR, Goto, TaskInv, GuardedLive, TrustedLabels,
                      FinalizeLabels
  <2> QED BY <1>2, <2>1, <2>2 DEF AddFinalizer
<1>3. CASE ReconcileSecrets \/ TLSDisabled \/ TLSReady \/ UpdateStatus
  <2>1. CASE Conflict
    BY <2>1, TaskKept DEF Conflict, Return, crVars
  <2>2. CASE ~Conflict
    <3>1. /\ cr'.phase = cr.phase /\ cr'.finalizer = cr.finalizer
          /\ cache' = cache /\ mem'.phase = mem.phase
      BY <1>3, <2>2, <1>a DEF ReconcileSecrets, TLSDisabled, TLSReady, UpdateStatus, WriteCR,
                         CRCoherent, CRs
    <3>2. /\ pc' \in {"roleBindings", "coreService", "consoleLink", "conditions"}
          /\ pc \in TrustedLabels \/ mem.phase = "live"
      BY <1>3, <2>2 DEF ReconcileSecrets, TLSDisabled, TLSReady, UpdateStatus, Goto, Stage,
                        TrustedLabels
    <3> QED BY <3>1, <3>2, TaskKept DEF FinalizeLabels
  <2> QED BY <2>1, <2>2
<1>4. CASE CertManagerMissing \/ CertsNotReady
  <2>1. /\ cr'.phase = cr.phase /\ cr'.finalizer = cr.finalizer /\ cache' = cache /\ pc' = "idle"
    BY <1>4, <1>a DEF CertManagerMissing, CertsNotReady, WriteAndReturn, Return, CRCoherent, CRs
  <2> QED BY <2>1, TaskKept
<1>5. CASE LoopDone
  <2>1. /\ cr' = cr /\ cache' = cache /\ mem' = mem
        /\ pc' \in TrustedLabels => pc \in TrustedLabels
        /\ pc' \in FinalizeLabels => pc \in FinalizeLabels
        /\ pc' # "addFinalizer"
    BY <1>5 DEF LoopDone, Stay, crVars, Goto, AfterLoop, Loops, TrustedLabels, FinalizeLabels
  <2> QED BY <2>1, TaskKept
<1>6. CASE CreateRoleBindings \/ DeleteRoleBindings \/ CreateCallbackServices
           \/ DeleteCallbackServices \/ FinalizeRoleBindings \/ FinalizeCallbackServices
  <2>1. /\ cr' = cr /\ cache' = cache
        /\ pc' = "idle" \/ (mem' = mem /\ memFresh' = memFresh /\ pc' = pc)
    BY <1>6 DEF CreateRoleBindings, DeleteRoleBindings, CreateCallbackServices,
      DeleteCallbackServices, FinalizeRoleBindings, FinalizeCallbackServices, CreateLoop,
      DeleteLoop, Step, Stay, Return, crVars
  <2> QED BY <2>1, TaskKept
<1>7. CASE ReconcileClusterRoleBinding \/ ReconcileConsoleLink \/ ReconcileCoreService
           \/ SetupTLS \/ CopyCASecret \/ ReconcileAgentCertificate \/ DeleteCASecret
           \/ DeleteAgentSecret \/ DeleteAgentCert
  <2>1. /\ cr' = cr /\ cache' = cache
        /\ pc \in TrustedLabels
        /\ pc' = "idle" \/ (mem' = mem /\ pc' \in TrustedLabels)
    BY <1>7 DEF ReconcileClusterRoleBinding, ReconcileConsoleLink, ReconcileCoreService,
      SetupTLS, CopyCASecret, ReconcileAgentCertificate, DeleteCASecret, DeleteAgentSecret,
      DeleteAgentCert, Step, Stay, Return, Goto, crVars, TrustedLabels
  <2>2. pc' \in TrustedLabels => pc' \notin FinalizeLabels /\ pc' # "addFinalizer"
    BY DEF TrustedLabels, FinalizeLabels
  <2> QED BY <2>1, <2>2, TaskKept
<1>8. CASE ReconcileWorkloads \/ UpdateConditions
  <2>1. /\ cr' = cr /\ cache' = cache
        /\ pc' = "idle" \/ (mem' = mem /\ pc = "workloads" /\ pc' = "status")
    BY <1>8 DEF ReconcileWorkloads, UpdateConditions, WriteConditions, Conflict, Stay, Return,
                Goto, crVars
  <2> QED BY <2>1, TaskKept DEF TrustedLabels, FinalizeLabels
<1>9. CASE FinalizeClusterRoleBinding \/ FinalizeOpenShift \/ FinalizeCASecret
           \/ FinalizeAgentSecret
  <2>1. /\ cr' = cr /\ cache' = cache /\ mem' = mem /\ pc \in FinalizeLabels
        /\ pc' \in FinalizeLabels
    BY <1>9 DEF FinalizeClusterRoleBinding, FinalizeOpenShift, FinalizeCASecret,
      FinalizeAgentSecret, Step, Stay, Goto, crVars, FinalizeLabels
  <2>2. pc' \notin TrustedLabels /\ pc' # "addFinalizer"
    BY <2>1 DEF TrustedLabels, FinalizeLabels
  <2> QED BY <2>1, <2>2, TaskKept
<1>10. CASE RemoveFinalizer
  <2>1. CASE Conflict
    BY <2>1, TaskKept DEF Conflict, Return, crVars
  <2>2. CASE ~Conflict
    BY <1>10, <2>2 DEF RemoveFinalizer, Return, TaskInv, GuardedLive, NoCR, TrustedLabels,
                       FinalizeLabels
  <2> QED BY <2>1, <2>2
<1>11. CASE SyncCR
  <2>1. cr' = cr /\ cache' = cr /\ UNCHANGED localVars
    BY <1>11 DEF SyncCR
  <2>2. pc = "addFinalizer" /\ memFresh => cr.phase = "live"
    BY DEF Stage, CRCoherent
  <2>3. cr.phase = "deleting" => ~GuardedLive
    BY DEF GuardedLive
  <2> QED BY <2>1, <2>2, <2>3 DEF TaskInv, GuardedLive, localVars
<1>12. CASE \/ OwnedObjectEvent \/ (\E k \in Kinds : SyncObjects(k))
            \/ (\E c \in CertNames : IssueCertificate(c))
            \/ (\E k \in TargetKinds, ns \in Namespaces : Tamper(k, ns)) \/ UNCHANGED vars
  <2>1. UNCHANGED <<crVars, localVars>>
    BY <1>12 DEF OwnedObjectEvent, SyncObjects, IssueCertificate, Tamper, vars
  <2> QED BY <2>1 DEF TaskInv, GuardedLive, crVars, localVars
<1>13. CASE IngressNotReady \/ CallFails
  BY <1>13, TaskKept DEF IngressNotReady, CallFails, Return, crVars
<1>14. CASE Restart
  BY <1>14 DEF Restart, TaskInv, GuardedLive, TrustedLabels, FinalizeLabels
<1>15. ASSUME NEW s \in Specs, NEW tls \in CertManagerSettings, CreateCR(s, tls)
       PROVE  TaskInv'
  <2>1. ~NewCR(s, tls).finalizer
    BY DEF NewCR, NoCR
  <2> QED BY <1>15, <2>1 DEF CreateCR, Overwrite, TaskInv, GuardedLive
<1>16. ASSUME NEW s \in Specs, NEW tls \in CertManagerSettings, EditCR(s, tls)
       PROVE  TaskInv'
  BY <1>16, <1>a DEF EditCR, Overwrite, TaskInv, GuardedLive, CRs
<1>17. CASE DeleteCR
  <2>1. NoCR.phase = "absent"
    BY DEF NoCR
  <2> QED BY <1>17, <1>a, <2>1 DEF DeleteCR, Overwrite, TaskInv, GuardedLive, CRs
<1> QED
  BY <1>1, <1>2, <1>3, <1>4, <1>5, <1>6, <1>7, <1>8, <1>9, <1>10, <1>11, <1>12, <1>13, <1>14,
     <1>15, <1>16, <1>17 DEF Next, Worker, Environment

\* No task runs for a CR of the wrong kind, whatever the caches show.
LEMMA TaskInvariance == Spec => []TaskInv
<1>1. Init => TaskInv
  BY DEF Init, TaskInv, GuardedLive, NoCR, TrustedLabels, FinalizeLabels
<1> QED BY <1>1, Invariance, TaskStep, PTL DEF Spec

-----------------------------------------------------------------------------
(* How parts of the state map.                                             *)

\* Status writes of other fields and a stutter leave the ledger's claim alone.
LEMMA SameClaim ==
  ASSUME cr'.phase = cr.phase, cr'.finalizer = cr.finalizer, cr'.spec = cr.spec,
         cr'.status = cr.status
  PROVE  UNCHANGED Ledger!claimVars
  BY DEF Ledger!claimVars

\* Calls about other kinds leave the ledger's access alone.
LEMMA SameAccess ==
  ASSUME NEW k \in Kinds, k # "RoleBinding", NEW p \in Places, ObjType,
         CreateOrUpdate(k, p) \/ AlreadyExists(k, p) \/ Delete(k, p)
  PROVE  UNCHANGED Ledger!accessVars
  BY DEF Ledger!accessVars, CreateOrUpdate, AlreadyExists, Delete, Put, objVars, ObjType, Kinds,
         TargetKinds

\* Outside the loops over RoleBindings a task moves on without a trace.
LEMMA SameTask ==
  ASSUME \/ /\ pc \in TrustedLabels \ {"roleBindings", "oldRoleBindings"}
            /\ pc' \in TrustedLabels \ {"roleBindings", "oldRoleBindings"}
         \/ /\ pc \in FinalizeLabels \ {"finClusterRoleBinding", "finRoleBindings"}
            /\ pc' \in FinalizeLabels \ {"finClusterRoleBinding", "finRoleBindings"},
         mem'.spec = mem.spec
  PROVE  UNCHANGED Ledger!taskVars
  BY DEF Ledger!taskVars, Task, Left, Dropped, TrustedLabels, FinalizeLabels

\* A reconcile that has not started its task holds nothing of it.
LEMMA SameNoTask ==
  ASSUME pc \in {"idle", "addFinalizer", "secrets"}, pc' \in {"idle", "addFinalizer", "secrets"}
  PROVE  UNCHANGED Ledger!taskVars
  BY DEF Ledger!taskVars, Task, Left, Dropped, TrustedLabels, FinalizeLabels

\* The end of a reconcile is the end of its task, if there was one.
LEMMA Stopped ==
  ASSUME pc \in Labels, pc' = "idle", UNCHANGED Ledger!claimVars, UNCHANGED Ledger!accessVars
  PROVE  AbstractStep
<1>1. Ledger!NoTask
  BY DEF Ledger!NoTask, Task, Left, Dropped, TrustedLabels, FinalizeLabels
<1>2. CASE pc \in {"idle", "addFinalizer", "secrets"}
  BY <1>2, SameNoTask DEF AbstractStep, Ledger!accessSpecVars
<1>3. CASE pc \in TrustedLabels \union FinalizeLabels
  <2>1. Task # "none"
    BY <1>3 DEF Task
  <2> QED BY <1>1, <2>1 DEF AbstractStep, Ledger!AccessNext, Ledger!Operator, Ledger!Stop
<1> QED BY <1>2, <1>3 DEF Labels

\* A refused write ends the reconcile.
LEMMA ConflictStops ==
  ASSUME pc \in Labels, Conflict, UNCHANGED objVars
  PROVE  AbstractStep
<1>1. UNCHANGED Ledger!claimVars
  BY SameClaim DEF Conflict, crVars
<1>2. UNCHANGED Ledger!accessVars
  BY DEF objVars, Ledger!accessVars
<1> QED BY <1>1, <1>2, Stopped DEF Conflict, Return

\* A step that leaves claim, access and task alone is a stutter.
LEMMA Stutters ==
  ASSUME UNCHANGED Ledger!claimVars, UNCHANGED Ledger!accessVars, UNCHANGED Ledger!taskVars
  PROVE  AbstractStep
  BY DEF AbstractStep, Ledger!accessSpecVars

-----------------------------------------------------------------------------
(* Every step of the reconciler is a step of the ledger.                   *)

\* Reconcile: the start of a finalization is the start of a cleanup.
LEMMA ReconcileRefines ==
  ASSUME IInv, TaskInv, Reconcile PROVE AbstractStep
<1>1. cache \in CRs
  BY DEF IInv, TypeOK, CRType
<1>2. UNCHANGED Ledger!claimVars
  BY SameClaim DEF Reconcile, crVars
<1>3. UNCHANGED Ledger!accessVars
  BY DEF Reconcile, objVars, Ledger!accessVars
<1>4. CASE pc' = "finClusterRoleBinding"
  <2>1. cache.phase = "deleting" /\ mem' = cache
    BY <1>4 DEF Reconcile, localVars
  <2>2. cache.spec \in SUBSET Namespaces
    BY <1>1 DEF CRs
  <2>3. Ledger!StartCleanup(cache.spec)
    <3>1. Task = "none"
      BY DEF Reconcile, Task, TrustedLabels, FinalizeLabels
    <3>2. Task' = "cleanup" /\ Left' = cache.spec /\ Dropped' = {}
      BY <1>4, <2>1 DEF Task, Left, Dropped, TrustedLabels, FinalizeLabels
    <3>3. ~GuardedLive
      BY <2>1 DEF TaskInv
    <3> QED BY <1>2, <1>3, <2>1, <3>1, <3>2, <3>3 DEF Ledger!StartCleanup, GuardedLive
  <2> QED BY <2>2, <2>3 DEF AbstractStep, Ledger!AccessNext, Ledger!Operator
<1>5. CASE pc' # "finClusterRoleBinding"
  <2>1. pc \in {"idle"} /\ pc' \in {"idle", "addFinalizer", "secrets"}
    BY <1>5 DEF Reconcile, localVars
  <2> QED BY <1>2, <1>3, <2>1, SameNoTask, Stutters
<1> QED BY <1>4, <1>5

\* AddFinalizer: the CR is guarded.
LEMMA AddFinalizerRefines ==
  ASSUME IInv, AddFinalizer PROVE AbstractStep
<1> USE DEF IInv, TypeOK
<1>1. CASE Conflict
  BY <1>1, ConflictStops DEF AddFinalizer, LocalType
<1>2. CASE WriteCR([mem EXCEPT !.finalizer = TRUE]) /\ Goto("secrets")
  <2>1. /\ mem = cr /\ cr \in CRs /\ cr.phase = "live"
        /\ cr' = [cr EXCEPT !.finalizer = TRUE]
    BY <1>2 DEF AddFinalizer, WriteCR, CRCoherent, Stage, CRType
  <2>2. /\ cr'.phase = cr.phase /\ cr'.finalizer /\ cr'.spec = cr.spec /\ cr'.status = cr.status
    BY <2>1 DEF CRs
  <2>3. UNCHANGED Ledger!accessVars
    BY DEF AddFinalizer, objVars, Ledger!accessVars
  <2>4. UNCHANGED Ledger!taskVars
    BY <1>2, SameNoTask DEF AddFinalizer, Goto
  <2>5. CASE cr.finalizer
    BY <2>1, <2>2, <2>3, <2>4, <2>5, SameClaim, Stutters DEF CRs
  <2>6. CASE ~cr.finalizer
    <3>1. Task = "none"
      BY DEF AddFinalizer, Task, TrustedLabels, FinalizeLabels
    <3>2. Ledger!Guard
      BY <2>1, <2>2, <2>3, <2>4, <2>6, <3>1 DEF Ledger!Guard
    <3> QED BY <3>2 DEF AbstractStep, Ledger!AccessNext, Ledger!Operator
  <2> QED BY <2>5, <2>6
<1> QED BY <1>1, <1>2 DEF AddFinalizer

\* ReconcileSecrets: the status write that only a current CR survives starts the setup.
LEMMA SecretsRefines ==
  ASSUME IInv, ReconcileSecrets PROVE AbstractStep
<1> USE DEF IInv, TypeOK
<1>1. CASE Conflict
  BY <1>1, ConflictStops DEF ReconcileSecrets, LocalType
<1>2. CASE WriteCR([mem EXCEPT !.secretNames = TRUE]) /\ Goto("roleBindings")
  <2>1. /\ mem = cr /\ cr \in CRs /\ cr.phase = "live" /\ cr.finalizer
        /\ cr' = [cr EXCEPT !.secretNames = TRUE] /\ mem' = cr'
    BY <1>2 DEF ReconcileSecrets, WriteCR, CRCoherent, Stage, CRType
  <2>2. /\ cr'.phase = cr.phase /\ cr'.finalizer = cr.finalizer
        /\ cr'.spec = cr.spec /\ cr'.status = cr.status
    BY <2>1 DEF CRs
  <2>3. UNCHANGED Ledger!accessVars
    BY DEF ReconcileSecrets, objVars, Ledger!accessVars
  <2>4. UNCHANGED Ledger!claimVars
    BY <2>2, SameClaim
  <2>5. Task = "none"
    BY DEF ReconcileSecrets, Task, TrustedLabels, FinalizeLabels
  <2>6. pc' = "roleBindings" /\ todo' = cr.spec
    BY <1>2, <2>1 DEF Goto, LoopOver
  <2>7. Task' = "setup" /\ Left' = cr.spec /\ Dropped' = cr.status \ cr.spec
    BY <2>1, <2>2, <2>6 DEF Task, Left, Dropped, ToDelete, TrustedLabels
  <2>8. Ledger!StartSetup
    BY <2>1, <2>2, <2>3, <2>4, <2>5, <2>7 DEF Ledger!StartSetup
  <2> QED BY <2>8 DEF AbstractStep, Ledger!AccessNext, Ledger!Operator
<1> QED BY <1>1, <1>2 DEF ReconcileSecrets

\* LoopDone: the loops follow each other without a trace in the ledger.
LEMMA LoopDoneRefines ==
  ASSUME LoopDone PROVE AbstractStep
<1>1. UNCHANGED Ledger!claimVars
  BY SameClaim DEF LoopDone, crVars
<1>2. UNCHANGED Ledger!accessVars
  BY DEF LoopDone, objVars, Ledger!accessVars
<1>3. mem' = mem
  BY DEF LoopDone, Stay
<1>4. UNCHANGED Ledger!taskVars
  <2>1. CASE pc = "roleBindings"
    <3>1. pc' = "oldRoleBindings" /\ todo = {} /\ todo' = ToDelete(mem)
      BY <2>1 DEF LoopDone, Goto, AfterLoop, LoopOver
    <3> QED BY <1>3, <2>1, <3>1 DEF Ledger!taskVars, Task, Left, Dropped, TrustedLabels
  <2>2. CASE pc = "oldRoleBindings"
    <3>1. pc' = "clusterRoleBinding" /\ todo = {}
      BY <2>2 DEF LoopDone, Goto, AfterLoop
    <3> QED BY <1>3, <2>2, <3>1 DEF Ledger!taskVars, Task, Left, Dropped, TrustedLabels
  <2>3. CASE pc = "finRoleBindings"
    <3>1. pc' \in {"finConsoleLink", "finServices"} /\ todo = {}
      BY <2>3 DEF LoopDone, Goto, AfterLoop
    <3> QED BY <1>3, <2>3, <3>1 DEF Ledger!taskVars, Task, Left, Dropped, TrustedLabels,
                                     FinalizeLabels
  <2>4. CASE pc \in {"caSecret", "oldCASecret", "callbackServices", "oldServices"}
    <3>1. pc' \in {"waiting", "oldCASecret", "tlsReady", "oldServices", "workloads"}
      BY <2>4 DEF LoopDone, Goto, AfterLoop
    <3> QED BY <1>3, <2>4, <3>1, SameTask DEF TrustedLabels
  <2>5. CASE pc \in {"finServices", "finCASecret"}
    <3>1. pc' \in {"finCASecret", "removeFinalizer"}
      BY <2>5 DEF LoopDone, Goto, AfterLoop
    <3> QED BY <1>3, <2>5, <3>1, SameTask DEF FinalizeLabels
  <2> QED BY <2>1, <2>2, <2>3, <2>4, <2>5 DEF LoopDone, Loops
<1> QED BY <1>1, <1>2, <1>4, Stutters

\* CreateRoleBindings: one access is granted, or found in a cache that may be stale.
LEMMA CreateRoleBindingsRefines ==
  ASSUME IInv, CreateRoleBindings PROVE AbstractStep
<1> USE DEF IInv, TypeOK
<1>1. UNCHANGED Ledger!claimVars
  BY SameClaim DEF CreateRoleBindings, CreateLoop, Step, crVars
<1>2. PICK ns \in todo :
        \/ /\ CreateOrUpdate("RoleBinding", ns) /\ todo' = todo \ {ns}
           /\ Stay /\ UNCHANGED <<pc, cur, unready>>
        \/ AlreadyExists("RoleBinding", ns) /\ Return(TRUE)
  BY DEF CreateRoleBindings, CreateLoop
<1>3. pc = "roleBindings" /\ pc \in Labels /\ ns \in Namespaces
  BY DEF CreateRoleBindings, CreateLoop, Step, LocalType
<1>4. CASE AlreadyExists("RoleBinding", ns) /\ Return(TRUE)
  <2>1. UNCHANGED Ledger!accessVars
    BY <1>4 DEF AlreadyExists, objVars, Ledger!accessVars
  <2> QED BY <1>1, <1>3, <1>4, <2>1, Stopped DEF Return
<1>5. CASE /\ CreateOrUpdate("RoleBinding", ns) /\ todo' = todo \ {ns}
           /\ Stay /\ UNCHANGED <<pc, cur, unready>>
  <2>1. mem' = mem /\ pc' = pc
    BY <1>5 DEF Stay
  <2>2. /\ Task = "setup" /\ Task' = "setup" /\ Left = todo /\ Left' = todo \ {ns}
        /\ Dropped' = Dropped
    BY <1>3, <1>5, <2>1 DEF Task, Left, Dropped, TrustedLabels
  <2>3. \/ /\ obj'["RoleBinding"] = obj["RoleBinding"] \union {ns}
           /\ "RoleBinding" \in pending'
        \/ /\ ns \in obj["RoleBinding"] \/ "RoleBinding" \in pending
           /\ UNCHANGED objVars
    BY <1>5 DEF CreateOrUpdate, Put, ObjCoherent, ObjType, Kinds, TargetKinds
  <2>4. Ledger!Grant(ns)
    BY <1>1, <2>1, <2>2, <2>3 DEF Ledger!Grant, Ledger!accessVars, objVars
  <2> QED BY <1>3, <2>4 DEF AbstractStep, Ledger!AccessNext, Ledger!Operator
<1> QED BY <1>2, <1>4, <1>5

\* What the deletion of a RoleBinding does to the ledger's access.
LEMMA DeleteAccess ==
  ASSUME NEW ns \in Namespaces, ObjType, Delete("RoleBinding", ns)
  PROVE  /\ obj'["RoleBinding"] = obj["RoleBinding"] \ {ns}
         /\ ("RoleBinding" \in pending') =
              ("RoleBinding" \in pending \/ ns \in obj["RoleBinding"])
  BY DEF Delete, objVars, ObjType, Kinds, TargetKinds

\* DeleteRoleBindings and FinalizeRoleBindings: one access is revoked, or cleaned up.
LEMMA DeleteRoleBindingsRefines ==
  ASSUME IInv, TaskInv, DeleteRoleBindings \/ FinalizeRoleBindings PROVE AbstractStep
<1> USE DEF IInv, TypeOK
<1> USE DEF DeleteRoleBindings, FinalizeRoleBindings, DeleteLoop
<1>1. UNCHANGED Ledger!claimVars
  BY SameClaim DEF Step, crVars
<1>2. PICK ns \in todo : Delete("RoleBinding", ns) /\ todo' = todo \ {ns}
  OBVIOUS
<1>3. ns \in Namespaces /\ mem' = mem /\ pc' = pc /\ pc \in {"oldRoleBindings", "finRoleBindings"}
  BY DEF Step, Stay, LocalType
<1>4. /\ obj'["RoleBinding"] = obj["RoleBinding"] \ {ns}
      /\ ("RoleBinding" \in pending') = ("RoleBinding" \in pending \/ ns \in obj["RoleBinding"])
  BY <1>2, <1>3, DeleteAccess
<1>5. CASE pc = "oldRoleBindings"
  <2>1. /\ Task = "setup" /\ Task' = "setup" /\ Left = {} /\ Left' = {}
        /\ Dropped = todo /\ Dropped' = todo \ {ns}
    BY <1>2, <1>3, <1>5 DEF Task, Left, Dropped, TrustedLabels
  <2>2. Ledger!Revoke(ns)
    BY <1>1, <1>3, <1>4, <2>1 DEF Ledger!Revoke
  <2> QED BY <1>3, <2>2 DEF AbstractStep, Ledger!AccessNext, Ledger!Operator
<1>6. CASE pc = "finRoleBindings"
  <2>1. /\ Task = "cleanup" /\ Task' = "cleanup" /\ Left = todo /\ Left' = todo \ {ns}
        /\ Dropped' = Dropped
    BY <1>2, <1>3, <1>6 DEF Task, Left, Dropped, TrustedLabels, FinalizeLabels
  <2>2. ~GuardedLive
    BY <1>6 DEF TaskInv, FinalizeLabels
  <2>3. Ledger!CleanUp(ns)
    BY <1>1, <1>3, <1>4, <2>1, <2>2 DEF Ledger!CleanUp, GuardedLive
  <2> QED BY <1>3, <2>3 DEF AbstractStep, Ledger!AccessNext, Ledger!Operator
<1> QED BY <1>3, <1>5, <1>6

\* The calls of a setup about other objects are stutters, and their failures end it.
LEMMA OtherSetupRefines ==
  ASSUME IInv,
         \/ ReconcileClusterRoleBinding \/ SetupTLS \/ CopyCASecret \/ ReconcileAgentCertificate
         \/ DeleteCASecret \/ DeleteAgentSecret \/ DeleteAgentCert \/ ReconcileCoreService
         \/ CreateCallbackServices \/ DeleteCallbackServices \/ ReconcileConsoleLink
  PROVE  AbstractStep
<1> USE DEF IInv, TypeOK
<1> USE DEF ReconcileClusterRoleBinding, SetupTLS, CopyCASecret, ReconcileAgentCertificate,
      DeleteCASecret, DeleteAgentSecret, DeleteAgentCert, ReconcileCoreService,
      CreateCallbackServices, DeleteCallbackServices, ReconcileConsoleLink
<1>1. UNCHANGED Ledger!claimVars
  BY SameClaim DEF CreateLoop, DeleteLoop, Step, crVars
<1>2. UNCHANGED Ledger!accessVars
  <2>1. CASE UNCHANGED objVars
    BY <2>1 DEF objVars, Ledger!accessVars
  <2>2. \A p \in Namespaces \union {None} : p \in Places
    BY DEF Places
  <2>3. \A k \in {"ClusterRoleBinding", "ConsoleLink", "CASecret", "AgentSecret",
                  "CallbackService"} : k \in Kinds /\ k # "RoleBinding"
    BY DEF Kinds, TargetKinds, ClusterKinds
  <2>4. todo \subseteq Namespaces /\ cur \in Namespaces \union {None}
    BY DEF LocalType
  <2>5. CASE ~UNCHANGED objVars
    <3>1. CASE ReconcileClusterRoleBinding \/ ReconcileConsoleLink
      BY <2>2, <2>3, <3>1, SameAccess
    <3>2. CASE CreateCallbackServices \/ DeleteCallbackServices
      BY <2>2, <2>3, <2>4, <3>2, SameAccess DEF CreateLoop, DeleteLoop
    <3>3. CASE CopyCASecret \/ DeleteCASecret
      BY <2>2, <2>3, <2>4, <2>5, <3>3, SameAccess
    <3>4. CASE ReconcileAgentCertificate \/ DeleteAgentSecret
      BY <2>2, <2>3, <2>4, <2>5, <3>4, SameAccess
    <3> QED BY <2>5, <3>1, <3>2, <3>3, <3>4
  <2> QED BY <2>1, <2>5
<1>3. /\ pc \in TrustedLabels \ {"roleBindings", "oldRoleBindings"} /\ pc \in Labels
      /\ \/ pc' = "idle"
         \/ mem' = mem /\ pc' \in TrustedLabels \ {"roleBindings", "oldRoleBindings"}
  BY DEF CreateLoop, DeleteLoop, Step, Stay, Return, Goto, TrustedLabels, LocalType
<1>4. CASE pc' = "idle"
  BY <1>1, <1>2, <1>3, <1>4, Stopped
<1>5. CASE mem' = mem /\ pc' \in TrustedLabels \ {"roleBindings", "oldRoleBindings"}
  BY <1>1, <1>2, <1>3, <1>5, SameTask, Stutters
<1> QED BY <1>3, <1>4, <1>5

\* The status writes that follow the TLS set-up and the workloads are stutters.
LEMMA StatusWritesRefine ==
  ASSUME IInv, TLSDisabled \/ TLSReady \/ ReconcileWorkloads PROVE AbstractStep
<1> USE DEF IInv, TypeOK
<1> USE DEF TLSDisabled, TLSReady, ReconcileWorkloads
<1>1. CASE Conflict
  BY <1>1, ConflictStops DEF LocalType
<1>2. CASE ~Conflict
  <2>1. UNCHANGED Ledger!accessVars
    BY DEF objVars, Ledger!accessVars
  <2>2. /\ cr'.phase = cr.phase /\ cr'.finalizer = cr.finalizer
        /\ cr'.spec = cr.spec /\ cr'.status = cr.status /\ mem'.spec = mem.spec
    <3>1. CASE ReconcileWorkloads
      BY <1>2, <3>1 DEF WriteConditions, Stay
    <3>2. CASE TLSDisabled
      BY <1>2, <3>2 DEF WriteCR, CRCoherent, CRType, CRs
    <3>3. CASE TLSReady
      BY <1>2, <3>3 DEF WriteCR, CRCoherent, CRType, CRs
    <3> QED BY <3>1, <3>2, <3>3
  <2>3. /\ pc \in TrustedLabels \ {"roleBindings", "oldRoleBindings"}
        /\ pc' \in TrustedLabels \ {"roleBindings", "oldRoleBindings"}
    BY <1>2 DEF Goto, TrustedLabels
  <2> QED BY <2>1, <2>2, <2>3, SameClaim, SameTask, Stutters
<1> QED BY <1>1, <1>2

\* The writes after which a reconcile returns end the task.
LEMMA LastWritesRefine ==
  ASSUME IInv, CertManagerMissing \/ CertsNotReady \/ UpdateConditions PROVE AbstractStep
<1> USE DEF IInv, TypeOK
<1> USE DEF CertManagerMissing, CertsNotReady, UpdateConditions
<1>1. UNCHANGED Ledger!accessVars
  BY DEF objVars, Ledger!accessVars
<1>2. /\ cr'.phase = cr.phase /\ cr'.finalizer = cr.finalizer
      /\ cr'.spec = cr.spec /\ cr'.status = cr.status
  BY ZenonT(60) DEF WriteAndReturn, WriteConditions, Conflict, crVars, CRCoherent, CRType, CRs
<1>3. pc \in Labels /\ pc' = "idle"
  BY DEF WriteAndReturn, Conflict, Return, LocalType
<1> QED BY <1>1, <1>2, <1>3, SameClaim, Stopped

\* UpdateStatus: the namespaces are recorded while the CR still asks for them.
LEMMA UpdateStatusRefines ==
  ASSUME IInv, TaskInv, UpdateStatus PROVE AbstractStep
<1> USE DEF IInv, TypeOK
<1>1. CASE Conflict
  BY <1>1, ConflictStops DEF UpdateStatus, LocalType
<1>2. CASE /\ WriteCR([mem EXCEPT !.status = mem.spec])
           /\ Goto(IF IsOpenShift THEN "consoleLink" ELSE "conditions")
  <2>1. pc = "status" /\ pc' \in {"consoleLink", "conditions"}
    BY <1>2 DEF UpdateStatus, Goto
  <2>2. /\ mem = cr /\ cr \in CRs /\ cr.phase = "live" /\ cr.finalizer
        /\ cr' = [cr EXCEPT !.status = cr.spec] /\ mem' = cr'
    BY <1>2, <2>1 DEF WriteCR, CRCoherent, Stage, CRType, TaskInv, TrustedLabels
  <2>3. /\ cr'.phase = cr.phase /\ cr'.finalizer = cr.finalizer
        /\ cr'.spec = cr.spec /\ cr'.status = cr.spec
    BY <2>2 DEF CRs
  <2>4. UNCHANGED Ledger!accessVars
    BY DEF UpdateStatus, objVars, Ledger!accessVars
  <2>5. UNCHANGED Ledger!taskVars
    BY <2>1, <2>2, <2>3, SameTask DEF TrustedLabels
  <2>6. Task = "setup" /\ Left = {} /\ Dropped = {}
    BY <2>1 DEF Task, Left, Dropped, TrustedLabels
  <2>7. Ledger!Record
    BY <2>2, <2>3, <2>4, <2>5, <2>6 DEF Ledger!Record
  <2> QED BY <2>7 DEF AbstractStep, Ledger!AccessNext, Ledger!Operator
<1> QED BY <1>1, <1>2 DEF UpdateStatus

\* The calls of a finalization about other objects are stutters.
LEMMA OtherCleanupRefines ==
  ASSUME IInv,
         \/ FinalizeClusterRoleBinding \/ FinalizeOpenShift \/ FinalizeCallbackServices
         \/ FinalizeCASecret \/ FinalizeAgentSecret
  PROVE  AbstractStep
<1> USE DEF IInv, TypeOK
<1> USE DEF FinalizeClusterRoleBinding, FinalizeOpenShift, FinalizeCallbackServices,
      FinalizeCASecret, FinalizeAgentSecret, DeleteLoop
<1>1. UNCHANGED Ledger!claimVars
  BY SameClaim DEF Step, crVars
<1>2. UNCHANGED Ledger!accessVars
  <2>1. \A p \in Namespaces \union {None} : p \in Places
    BY DEF Places
  <2>2. \A k \in {"ClusterRoleBinding", "ConsoleLink", "CASecret", "AgentSecret",
                  "CallbackService"} : k \in Kinds /\ k # "RoleBinding"
    BY DEF Kinds, TargetKinds, ClusterKinds
  <2>3. todo \subseteq Namespaces /\ cur \in Namespaces \union {None}
    BY DEF LocalType
  <2> QED BY <2>1, <2>2, <2>3, SameAccess
<1>3. mem' = mem
  BY DEF Stay
<1>4. CASE FinalizeClusterRoleBinding
  <2>1. pc = "finClusterRoleBinding" /\ pc' = "finRoleBindings" /\ todo' = mem.spec
    BY <1>4 DEF Step, Goto, LoopOver
  <2>2. UNCHANGED Ledger!taskVars
    BY <1>3, <2>1 DEF Ledger!taskVars, Task, Left, Dropped, TrustedLabels, FinalizeLabels
  <2> QED BY <1>1, <1>2, <2>2, Stutters
<1>5. CASE ~FinalizeClusterRoleBinding
  <2>1. /\ pc \in FinalizeLabels \ {"finClusterRoleBinding", "finRoleBindings"}
        /\ pc' \in FinalizeLabels \ {"finClusterRoleBinding", "finRoleBindings"}
    BY <1>5 DEF Step, Goto, FinalizeLabels
  <2> QED BY <1>1, <1>2, <1>3, <2>1, SameTask, Stutters
<1> QED BY <1>4, <1>5

\* RemoveFinalizer: the CR is let go, with the namespaces it still asked for.
LEMMA RemoveFinalizerRefines ==
  ASSUME IInv, TaskInv, RemoveFinalizer PROVE AbstractStep
<1> USE DEF IInv, TypeOK
<1>1. CASE Conflict
  BY <1>1, ConflictStops DEF RemoveFinalizer, LocalType
<1>2. CASE memFresh /\ cr' = NoCR /\ Return(FALSE)
  <2>1. pc = "removeFinalizer" /\ pc' = "idle"
    BY <1>2 DEF RemoveFinalizer, Return
  <2>2. mem = cr /\ cr.phase = "deleting"
    BY <1>2, <2>1 DEF CRCoherent, TaskInv, FinalizeLabels
  <2>3. cr'.phase = "absent" /\ cr'.spec = {} /\ cr'.status = {}
    BY <1>2 DEF NoCR
  <2>4. UNCHANGED Ledger!accessVars
    BY DEF RemoveFinalizer, objVars, Ledger!accessVars
  <2>5. Task = "cleanup" /\ Left = {}
    BY <2>1 DEF Task, Left, TrustedLabels, FinalizeLabels
  <2>6. Ledger!NoTask
    BY <2>1 DEF Ledger!NoTask, Task, Left, Dropped, TrustedLabels, FinalizeLabels
  <2>7. Ledger!Release
    BY <2>2, <2>3, <2>4, <2>5, <2>6 DEF Ledger!Release
  <2> QED BY <2>7 DEF AbstractStep, Ledger!AccessNext, Ledger!Operator
<1> QED BY <1>1, <1>2 DEF RemoveFinalizer

\* Informers, cert-manager and owned objects: at most a change of access is noticed.
LEMMA EventsRefine ==
  ASSUME IInv,
         \/ SyncCR \/ OwnedObjectEvent \/ (\E k \in Kinds : SyncObjects(k))
         \/ (\E c \in CertNames : IssueCertificate(c)) \/ UNCHANGED vars
  PROVE  AbstractStep
<1>1. cr' = cr /\ UNCHANGED localVars /\ obj' = obj
  BY DEF SyncCR, OwnedObjectEvent, SyncObjects, IssueCertificate, vars, crVars, objVars
<1>2. UNCHANGED Ledger!claimVars
  BY <1>1, SameClaim
<1>3. UNCHANGED Ledger!taskVars
  BY <1>1 DEF localVars, Ledger!taskVars, Task, Left, Dropped, ToDelete
<1>4. CASE UNCHANGED pending
  BY <1>1, <1>2, <1>3, <1>4, Stutters DEF Ledger!accessVars
<1>5. CASE \E k \in Kinds : SyncObjects(k)
  <2>1. PICK k \in Kinds : SyncObjects(k)
    BY <1>5
  <2>2. pending' = pending \ Informer(k) /\ k \in pending
    BY <2>1 DEF SyncObjects
  <2>3. CASE "RoleBinding" \in pending /\ "RoleBinding" \notin pending'
    BY <1>1, <1>2, <1>3, <2>3
    DEF AbstractStep, Ledger!AccessNext, Ledger!Operator, Ledger!Notice
  <2>4. CASE ~("RoleBinding" \in pending /\ "RoleBinding" \notin pending')
    BY <1>1, <1>2, <1>3, <2>2, <2>4, Stutters DEF Ledger!accessVars
  <2> QED BY <2>3, <2>4
<1> QED BY <1>4, <1>5 DEF SyncCR, OwnedObjectEvent, IssueCertificate, vars, objVars

\* Users: they ask, ask for something else, and withdraw.
LEMMA UsersRefine ==
  ASSUME IInv,
         DeleteCR \/ (\E s \in Specs, tls \in CertManagerSettings : CreateCR(s, tls) \/ EditCR(s, tls))
  PROVE  AbstractStep
<1> USE DEF IInv, TypeOK
<1>1. UNCHANGED Ledger!accessVars /\ UNCHANGED Ledger!taskVars
  BY DEF DeleteCR, CreateCR, EditCR, Overwrite, objVars, Ledger!accessVars, Ledger!taskVars,
         Task, Left, Dropped, ToDelete
<1>2. ASSUME NEW s \in Specs, NEW tls \in CertManagerSettings, CreateCR(s, tls)
      PROVE  AbstractStep
  <2>1. cr = NoCR /\ cr' = NewCR(s, tls)
    BY <1>2 DEF CreateCR, Overwrite, Stage
  <2>2. /\ cr.phase = "absent" /\ cr.status = {} /\ cr'.phase = "live" /\ ~cr'.finalizer
        /\ cr'.spec = s /\ cr'.status = {}
    BY <2>1 DEF NewCR, NoCR
  <2>3. Ledger!Ask(s)
    BY <1>1, <2>2 DEF Ledger!Ask
  <2> QED BY <2>3 DEF AbstractStep, Ledger!AccessNext, Ledger!Claims
<1>3. ASSUME NEW s \in Specs, NEW tls \in CertManagerSettings, EditCR(s, tls)
      PROVE  AbstractStep
  <2>1. /\ cr.phase # "absent" /\ cr'.phase = cr.phase /\ cr'.finalizer = cr.finalizer
        /\ cr'.spec = s /\ cr'.status = cr.status
    BY <1>3 DEF EditCR, Overwrite, CRType, CRs
  <2>2. Ledger!Ask(s)
    BY <1>1, <2>1 DEF Ledger!Ask
  <2> QED BY <2>2 DEF AbstractStep, Ledger!AccessNext, Ledger!Claims
<1>4. CASE DeleteCR
  <2>1. CASE cr.finalizer
    <3>1. /\ cr.phase = "live" /\ cr'.phase = "deleting" /\ cr'.spec = cr.spec
          /\ cr'.status = cr.status
      BY <1>4, <2>1 DEF DeleteCR, Overwrite, CRType, CRs
    <3>2. Ledger!Withdraw
      BY <1>1, <2>1, <3>1 DEF Ledger!Withdraw
    <3> QED BY <3>2 DEF AbstractStep, Ledger!AccessNext, Ledger!Claims
  <2>2. CASE ~cr.finalizer
    <3>1. /\ cr.phase = "live" /\ cr'.phase = "absent" /\ cr'.spec = {} /\ cr'.status = {}
      BY <1>4, <2>2 DEF DeleteCR, Overwrite, NoCR
    <3>2. Ledger!Withdraw
      BY <1>1, <2>2, <3>1 DEF Ledger!Withdraw
    <3> QED BY <3>2 DEF AbstractStep, Ledger!AccessNext, Ledger!Claims
  <2> QED BY <2>1, <2>2
<1> QED BY <1>2, <1>3, <1>4

\* Tamper: access is lost.
LEMMA TamperRefines ==
  ASSUME IInv, NEW k \in TargetKinds, NEW ns \in Namespaces, Tamper(k, ns) PROVE AbstractStep
<1> USE DEF IInv, TypeOK
<1>1. UNCHANGED Ledger!claimVars
  BY SameClaim DEF Tamper, crVars
<1>2. UNCHANGED Ledger!taskVars
  BY DEF Tamper, localVars, Ledger!taskVars, Task, Left, Dropped, ToDelete
<1>3. CASE k = "RoleBinding"
  <2>1. /\ obj'["RoleBinding"] = obj["RoleBinding"] \ {ns} /\ ns \in obj["RoleBinding"]
        /\ ("RoleBinding" \in pending') = TRUE
    BY <1>3, DeleteAccess DEF Tamper
  <2>2. Ledger!Lose(ns)
    BY <1>1, <1>2, <2>1 DEF Ledger!Lose
  <2> QED BY <2>2 DEF AbstractStep, Ledger!AccessNext, Ledger!Claims
<1>4. CASE k # "RoleBinding"
  BY <1>1, <1>2, <1>4, SameAccess, Stutters DEF Tamper, Kinds, Places
<1> QED BY <1>3, <1>4

\* Failed calls end a task; a restart ends it too, and leaves nothing unnoticed.
LEMMA FailuresRefine ==
  ASSUME IInv, IngressNotReady \/ CallFails \/ Restart PROVE AbstractStep
<1> USE DEF IInv, TypeOK
<1>1. UNCHANGED Ledger!claimVars
  BY SameClaim DEF IngressNotReady, CallFails, Restart, crVars
<1>2. pc \in Labels /\ pc' = "idle"
  BY DEF IngressNotReady, CallFails, Restart, Return, LocalType
<1>3. CASE UNCHANGED Ledger!accessVars
  BY <1>1, <1>2, <1>3, Stopped
<1>4. CASE Restart
  <2>1. obj' = obj /\ "RoleBinding" \notin pending'
    BY <1>4 DEF Restart
  <2>2. CASE "RoleBinding" \in pending
    <3>1. Ledger!NoTask
      BY <1>2 DEF Ledger!NoTask, Task, Left, Dropped, TrustedLabels, FinalizeLabels
    <3> QED BY <1>1, <2>1, <2>2, <3>1
      DEF AbstractStep, Ledger!AccessNext, Ledger!Operator, Ledger!Notice
  <2>3. CASE "RoleBinding" \notin pending
    BY <1>3, <2>1, <2>3 DEF Ledger!accessVars
  <2> QED BY <2>2, <2>3
<1>5. CASE IngressNotReady \/ CallFails
  BY <1>3, <1>5 DEF IngressNotReady, CallFails, objVars, Ledger!accessVars
<1> QED BY <1>4, <1>5

\* A step of the reconciler or of its environment is a step of the ledger or a stutter.
LEMMA RefinementStep == IInv /\ TaskInv /\ [Next]_vars => AbstractStep
<1> SUFFICES ASSUME IInv, TaskInv, [Next]_vars PROVE AbstractStep
  OBVIOUS
<1>1. CASE Worker
  BY <1>1, ReconcileRefines, AddFinalizerRefines, SecretsRefines, LoopDoneRefines,
     CreateRoleBindingsRefines, DeleteRoleBindingsRefines, OtherSetupRefines,
     StatusWritesRefine, LastWritesRefine, UpdateStatusRefines, OtherCleanupRefines,
     RemoveFinalizerRefines DEF Worker
<1>2. CASE Environment \/ UNCHANGED vars
  BY <1>2, EventsRefine, UsersRefine, TamperRefines, FailuresRefine DEF Environment
<1> QED BY <1>1, <1>2 DEF Next

\* The reconciler implements the ledger: access is granted only to what a current CR
\* asked for, taken only from recorded namespaces or for a deleted CR, recorded only
\* while still asked for, whatever the caches show and wherever a reconcile is cut off
\* (Reconcile, reconcileCryostat, finalizeCryostat).
THEOREM Refinement == Spec => ImplementsNamespaceAccess
<1>1. Init => Ledger!AccessInit
  BY DEF Init, Ledger!AccessInit, NoCR, Kinds, TargetKinds, Task, Left, Dropped, TrustedLabels,
         FinalizeLabels
<1>2. IInv /\ TaskInv /\ [Next]_vars => [Ledger!AccessNext]_(Ledger!accessSpecVars)
  BY RefinementStep DEF AbstractStep
<1> QED
  BY <1>1, <1>2, Invariance, TaskInvariance, PTL
  DEF Spec, ImplementsNamespaceAccess, Ledger!AccessSpec
=============================================================================
