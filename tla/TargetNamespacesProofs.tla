---------------------- MODULE TargetNamespacesProofs ----------------------
(***************************************************************************)
(* Proofs that the safety properties of TargetNamespaces hold for every    *)
(* value of the constants.  They rest on the inductive invariant IInv;     *)
(* each of its conjuncts has a lemma that says a step preserves it.        *)
(***************************************************************************)
EXTENDS TargetNamespaces, TLAPS

-----------------------------------------------------------------------------
(* Types.                                                                  *)

\* The absent CR is a CR record.
LEMMA NoCRType == NoCR \in CRs
  BY DEF NoCR, CRs

\* Ending a reconcile (Return) leaves well-typed local state, CR in memory and queue.
LEMMA ReturnTypes ==
  ASSUME NEW b \in BOOLEAN, CRType, Return(b)
  PROVE  LocalType' /\ mem' \in CRs /\ memFresh' \in BOOLEAN /\ queued' \in BOOLEAN
<1>1. mem' \in CRs /\ memFresh' \in BOOLEAN
  BY NoCRType DEF Return
<1>2. queued' \in BOOLEAN
  BY DEF Return, CRType
<1>3. LocalType'
  BY DEF Return, LocalType, Labels, VisitLabels
<1> QED BY <1>1, <1>2, <1>3

\* A refused write of the CR keeps the types.
LEMMA ConflictTypes ==
  ASSUME CRType, Conflict PROVE CRType' /\ LocalType'
  BY ReturnTypes DEF Conflict, CRType, crVars

\* An accepted Update or Status().Update of the CR keeps the types.
LEMMA WriteCRTypes ==
  ASSUME NEW c \in CRs, CRType, WriteCR(c), UNCHANGED queued PROVE CRType'
  BY DEF WriteCR, CRType

\* Moving to a label outside a visit fills todo with namespaces and keeps cur empty.
LEMMA GotoTypes ==
  ASSUME NEW l \in Labels \ VisitLabels, CRType, LocalType, pc \notin VisitLabels, Goto(l),
         UNCHANGED <<cur, unready>>
  PROVE  LocalType'
<1>1. LoopOver(l) \subseteq Namespaces
  BY DEF LoopOver, ToDelete, CRType, CRs
<1>2. QED
  BY <1>1 DEF Goto, LocalType

\* Creating an object keeps the map of objects well typed, cluster kinds at cluster scope.
LEMMA PutTypes ==
  ASSUME NEW k \in Kinds, NEW p \in Places, k \in ClusterKinds => p = None, ObjType, Put(k, p)
  PROVE  ObjType'
  BY DEF Put, ObjType, Kinds

\* So do CreateOrUpdate, its AlreadyExists failure and Delete.
LEMMA ObjTypes ==
  ASSUME NEW k \in Kinds, NEW p \in Places, k \in ClusterKinds => p = None, ObjType,
         CreateOrUpdate(k, p) \/ AlreadyExists(k, p) \/ Delete(k, p)
  PROVE  ObjType'
<1>1. CASE CreateOrUpdate(k, p)
  BY <1>1, PutTypes DEF CreateOrUpdate, ObjType, objVars
<1>2. CASE AlreadyExists(k, p)
  BY <1>2 DEF AlreadyExists, ObjType, objVars
<1>3. CASE Delete(k, p)
  BY <1>3 DEF Delete, ObjType, objVars, Kinds
<1> QED BY <1>1, <1>2, <1>3

\* A step of a loop of CreateOrUpdate calls keeps the types.
LEMMA CreateLoopTypes ==
  ASSUME NEW l \in Labels \ VisitLabels, NEW k \in TargetKinds, TypeOK, CreateLoop(l, k)
  PROVE  TypeOK'
<1> USE DEF TypeOK
<1>1. PICK ns \in todo :
        \/ /\ CreateOrUpdate(k, ns) /\ todo' = todo \ {ns}
           /\ Stay /\ UNCHANGED <<pc, cur, unready>>
        \/ AlreadyExists(k, ns) /\ Return(TRUE)
  BY DEF CreateLoop
<1>2. ns \in Places /\ k \in Kinds /\ k \notin ClusterKinds
  BY DEF LocalType, Places, Kinds, TargetKinds, ClusterKinds
<1>3. ObjType'
  BY <1>1, <1>2, ObjTypes
<1>4. CertType' /\ BoundType'
  BY DEF CreateLoop, Step, CertType, BoundType, certVars, bounds
<1>5. CRType' /\ LocalType'
  <2>1. CASE todo' = todo \ {ns} /\ Stay /\ UNCHANGED <<pc, cur, unready>>
    BY <2>1 DEF CreateLoop, Step, Stay, CRType, LocalType, crVars
  <2>2. CASE Return(TRUE)
    BY <2>2, ReturnTypes DEF CreateLoop, Step, CRType, crVars
  <2> QED BY <1>1, <2>1, <2>2
<1> QED BY <1>3, <1>4, <1>5

\* A step of a loop of Delete calls keeps the types.
LEMMA DeleteLoopTypes ==
  ASSUME NEW l \in Labels \ VisitLabels, NEW k \in TargetKinds, TypeOK, DeleteLoop(l, k)
  PROVE  TypeOK'
<1> USE DEF TypeOK
<1>1. PICK ns \in todo : Delete(k, ns) /\ todo' = todo \ {ns}
  BY DEF DeleteLoop
<1>2. ns \in Places /\ k \in Kinds /\ k \notin ClusterKinds
  BY DEF LocalType, Places, Kinds, TargetKinds, ClusterKinds
<1>3. ObjType'
  BY <1>1, <1>2, ObjTypes
<1>4. CertType' /\ BoundType' /\ CRType' /\ LocalType'
  BY <1>1 DEF DeleteLoop, Step, Stay, CertType, BoundType, CRType, LocalType,
              certVars, bounds, crVars
<1> QED BY <1>3, <1>4

\* The start of a reconcile keeps the types.
LEMMA ReconcileType == TypeOK /\ Reconcile => TypeOK'
<1> SUFFICES ASSUME TypeOK, Reconcile PROVE TypeOK'
  OBVIOUS
<1> USE DEF TypeOK
<1>1. CRType'
  BY DEF Reconcile, CRType, crVars, localVars
<1>2. LocalType'
  BY DEF Reconcile, LocalType, localVars, Labels, FinalizeLabels, VisitLabels
<1>3. ObjType' /\ CertType' /\ BoundType'
  BY DEF Reconcile, ObjType, CertType, BoundType, objVars, certVars, bounds
<1> QED BY <1>1, <1>2, <1>3

\* The writes of the CR after which reconcileCryostat goes on keep the types.
LEMMA WriteAndGotoTypes ==
  ASSUME NEW c \in CRs, NEW l \in Labels \ VisitLabels, TypeOK, pc \notin VisitLabels,
         \/ WriteCR(c) /\ Goto(l) /\ UNCHANGED <<queued, cur, unready>>
         \/ Conflict,
         UNCHANGED <<objVars, certVars, bounds>>
  PROVE  TypeOK'
<1> USE DEF TypeOK
<1>1. CRType' /\ LocalType'
  <2>1. CASE WriteCR(c) /\ Goto(l) /\ UNCHANGED <<queued, cur, unready>>
    <3>1. CRType'
      BY <2>1, WriteCRTypes
    <3>2. LocalType'
      BY <2>1, GotoTypes
    <3> QED BY <3>1, <3>2
  <2>2. CASE Conflict
    BY <2>2, ConflictTypes
  <2> QED BY <2>1, <2>2
<1>2. ObjType' /\ CertType' /\ BoundType'
  BY DEF ObjType, CertType, BoundType, objVars, certVars, bounds
<1> QED BY <1>1, <1>2

\* Steps that leave the CR alone and move to another label keep the types.
LEMMA PlainGotoTypes ==
  ASSUME NEW l \in Labels \ VisitLabels, TypeOK, pc \notin VisitLabels,
         Goto(l), Stay, UNCHANGED <<crVars, cur, unready>>
  PROVE  CRType' /\ LocalType'
<1> USE DEF TypeOK
<1>1. CRType'
  BY DEF CRType, Stay, crVars
<1>2. LocalType'
  BY GotoTypes
<1> QED BY <1>1, <1>2

\* What follows a loop is a label outside a visit.
LEMMA AfterLoopLabel == pc \in Loops => AfterLoop(pc) \in Labels \ VisitLabels
  BY DEF Loops, AfterLoop, Labels, TrustedLabels, FinalizeLabels, VisitLabels

\* Every step of the operator, the cluster and the users keeps the types.
LEMMA TypeStep == TypeOK /\ [Next]_vars => TypeOK'
<1> SUFFICES ASSUME TypeOK, [Next]_vars PROVE TypeOK'
  OBVIOUS
<1> DEFINE Plain == Labels \ VisitLabels
<1>a. {"idle", "addFinalizer", "secrets", "roleBindings", "oldRoleBindings",
       "clusterRoleBinding", "tls", "waiting", "caSecret", "oldCASecret", "tlsReady",
       "coreService", "callbackServices", "oldServices", "workloads", "status",
       "consoleLink", "conditions"} \subseteq Plain
  BY DEF Labels, TrustedLabels, VisitLabels
<1>b. {"finClusterRoleBinding", "finRoleBindings", "finConsoleLink", "finServices",
       "finCASecret", "removeFinalizer"} \subseteq Plain
  BY DEF Labels, FinalizeLabels, VisitLabels
<1>c. None \in Places /\ Namespaces \subseteq Places
  BY DEF Places
<1>d. TargetKinds \subseteq Kinds /\ ClusterKinds \subseteq Kinds
      /\ TargetKinds \intersect ClusterKinds = {}
  BY DEF Kinds, TargetKinds, ClusterKinds
<1>1. CASE Reconcile
  BY <1>1, ReconcileType
<1>2. CASE AddFinalizer
  <2>1. [mem EXCEPT !.finalizer = TRUE] \in CRs
    BY DEF TypeOK, CRType, CRs
  <2> QED BY <1>2, <1>a, <2>1, WriteAndGotoTypes DEF AddFinalizer
<1>3. CASE ReconcileSecrets
  <2>1. [mem EXCEPT !.secretNames = TRUE] \in CRs
    BY DEF TypeOK, CRType, CRs
  <2> QED BY <1>3, <1>a, <2>1, WriteAndGotoTypes DEF ReconcileSecrets
<1>4. CASE LoopDone
  <2>1. pc \notin VisitLabels
    BY <1>4 DEF LoopDone, Loops, VisitLabels
  <2>2. CRType' /\ LocalType'
    BY <1>4, <2>1, AfterLoopLabel, PlainGotoTypes DEF LoopDone
  <2>3. ObjType' /\ CertType' /\ BoundType'
    BY <1>4 DEF LoopDone, TypeOK, ObjType, CertType, BoundType, objVars, certVars, bounds
  <2> QED BY <2>2, <2>3 DEF TypeOK
<1>5. CASE CreateRoleBindings
  <2>1. "RoleBinding" \in TargetKinds
    BY DEF TargetKinds
  <2> QED BY <1>5, <1>a, <2>1, CreateLoopTypes DEF CreateRoleBindings
<1>6. CASE DeleteRoleBindings
  <2>1. "RoleBinding" \in TargetKinds
    BY DEF TargetKinds
  <2> QED BY <1>6, <1>a, <2>1, DeleteLoopTypes DEF DeleteRoleBindings
<1>7. CASE ReconcileClusterRoleBinding
  <2>1. CRType' /\ LocalType'
    <3>1. CASE Goto("tls") /\ Stay /\ UNCHANGED <<cur, unready>>
      BY <1>7, <3>1, <1>a, PlainGotoTypes DEF ReconcileClusterRoleBinding, Step
    <3>2. CASE Return(TRUE)
      BY <1>7, <3>2, ReturnTypes DEF ReconcileClusterRoleBinding, Step, TypeOK, CRType, crVars
    <3> QED BY <1>7, <3>1, <3>2 DEF ReconcileClusterRoleBinding
  <2>2. ObjType'
    BY <1>7, <1>c, <1>d, ObjTypes DEF ReconcileClusterRoleBinding, TypeOK, ClusterKinds
  <2>3. CertType' /\ BoundType'
    BY <1>7 DEF ReconcileClusterRoleBinding, Step, TypeOK, CertType, BoundType, certVars, bounds
  <2> QED BY <2>1, <2>2, <2>3 DEF TypeOK
<1>8. CASE TLSDisabled
  <2>1. [mem EXCEPT !.tlsCondition = "Disabled"] \in CRs
    BY DEF TypeOK, CRType, CRs
  <2> QED BY <1>8, <1>a, <2>1, WriteAndGotoTypes DEF TLSDisabled
<1>9. CASE CertManagerMissing \/ CertsNotReady
  <2>1. PICK c \in CRs : WriteAndReturn(c, TRUE)
    BY <1>9 DEF CertManagerMissing, CertsNotReady, TypeOK, CRType, CRs
  <2>2. CRType' /\ LocalType'
    BY <2>1, ReturnTypes DEF WriteAndReturn, TypeOK, CRType
  <2>3. ObjType' /\ CertType' /\ BoundType'
    BY <1>9 DEF CertManagerMissing, CertsNotReady, TypeOK, ObjType, CertType, BoundType,
                objVars, certVars, bounds
  <2> QED BY <2>2, <2>3 DEF TypeOK
<1>10. CASE SetupTLS
  <2>1. CRType'
    BY <1>10 DEF SetupTLS, Stay, TypeOK, CRType, crVars
  <2>2. LocalType'
    <3>1. PICK l \in {"caSecret", "waiting"} : pc' = l /\ todo' = LoopOver(l)
      BY <1>10 DEF SetupTLS, Goto
    <3>2. LoopOver(l) \subseteq Namespaces
      BY DEF LoopOver, ToDelete, TypeOK, CRType, CRs
    <3>3. cur' = None /\ unready' \in BOOLEAN
      BY <1>10 DEF SetupTLS, TypeOK, LocalType, VisitLabels
    <3> QED BY <3>1, <3>2, <3>3, <1>a DEF LocalType
  <2>3. ObjType' /\ CertType' /\ BoundType'
    BY <1>10 DEF SetupTLS, TypeOK, ObjType, CertType, BoundType, objVars, bounds, CertNames
  <2> QED BY <2>1, <2>2, <2>3 DEF TypeOK
<1>11. CASE CopyCASecret
  <2>1. PICK ns \in todo :
          \/ /\ IF ns = InstallNamespace THEN UNCHANGED objVars
                                         ELSE CreateOrUpdate("CASecret", ns)
             /\ pc' = "agentSecret" /\ cur' = ns /\ todo' = todo \ {ns}
             /\ Stay /\ UNCHANGED unready
          \/ ns # InstallNamespace /\ AlreadyExists("CASecret", ns) /\ Return(TRUE)
    BY <1>11 DEF CopyCASecret
  <2>2. ns \in Namespaces /\ "CASecret" \in TargetKinds
    BY DEF TypeOK, LocalType, TargetKinds
  <2>3. ObjType'
    <3>1. CASE UNCHANGED objVars
      BY <3>1 DEF TypeOK, ObjType, objVars
    <3>2. CASE CreateOrUpdate("CASecret", ns) \/ AlreadyExists("CASecret", ns)
      BY <3>2, <2>2, <1>c, <1>d, ObjTypes DEF TypeOK
    <3> QED BY <2>1, <3>1, <3>2
  <2>4. CRType' /\ LocalType'
    <3>1. CASE pc' = "agentSecret" /\ cur' = ns /\ todo' = todo \ {ns} /\ Stay /\ UNCHANGED unready
      BY <1>11, <3>1, <2>2 DEF CopyCASecret, Step, Stay, TypeOK, CRType, LocalType, crVars,
                               Labels, TrustedLabels, VisitLabels
    <3>2. CASE Return(TRUE)
      BY <1>11, <3>2, ReturnTypes DEF CopyCASecret, Step, TypeOK, CRType, crVars
    <3> QED BY <2>1, <3>1, <3>2
  <2>5. CertType' /\ BoundType'
    BY <1>11 DEF CopyCASecret, Step, TypeOK, CertType, BoundType, certVars, bounds
  <2> QED BY <2>3, <2>4, <2>5 DEF TypeOK
<1>12. CASE ReconcileAgentCertificate
  <2>1. cur \in Namespaces /\ "AgentSecret" \in TargetKinds
    BY <1>12 DEF ReconcileAgentCertificate, TypeOK, LocalType, TargetKinds, VisitLabels
  <2>2. ObjType'
    <3>1. CASE UNCHANGED objVars
      BY <3>1 DEF TypeOK, ObjType, objVars
    <3>2. CASE CreateOrUpdate("AgentSecret", cur) \/ AlreadyExists("AgentSecret", cur)
      BY <3>2, <2>1, <1>c, <1>d, ObjTypes DEF TypeOK
    <3> QED BY <1>12, <3>1, <3>2 DEF ReconcileAgentCertificate
  <2>3. CRType' /\ LocalType'
    <3>1. CASE Return(TRUE)
      BY <1>12, <3>1, ReturnTypes DEF ReconcileAgentCertificate, TypeOK, CRType, crVars
    <3>2. CASE /\ unready' = (unready \/ cur \notin issued)
               /\ pc' = "caSecret" /\ cur' = None /\ Stay /\ UNCHANGED todo
      <4>1. CRType'
        BY <1>12, <3>2 DEF ReconcileAgentCertificate, Stay, TypeOK, CRType, crVars
      <4>2. LocalType'
        BY <3>2, <1>a DEF TypeOK, LocalType
      <4> QED BY <4>1, <4>2
    <3> QED BY <1>12, <3>1, <3>2 DEF ReconcileAgentCertificate
  <2>4. CertType' /\ BoundType'
    BY <1>12, <2>1 DEF ReconcileAgentCertificate, TypeOK, CertType, BoundType, CertNames, bounds
  <2> QED BY <2>2, <2>3, <2>4 DEF TypeOK
<1>13. CASE DeleteCASecret
  <2>1. PICK ns \in todo :
          /\ IF ns = InstallNamespace THEN UNCHANGED objVars ELSE Delete("CASecret", ns)
          /\ pc' = "oldAgentSecret" /\ cur' = ns /\ todo' = todo \ {ns}
    BY <1>13 DEF DeleteCASecret
  <2>2. ns \in Namespaces /\ "CASecret" \in TargetKinds
    BY DEF TypeOK, LocalType, TargetKinds
  <2>3. ObjType'
    BY <2>1, <2>2, <1>c, <1>d, ObjTypes DEF TypeOK, ObjType, objVars
  <2>4. CRType' /\ LocalType' /\ CertType' /\ BoundType'
    BY <1>13, <2>1, <2>2 DEF DeleteCASecret, Step, Stay, TypeOK, CRType, LocalType, CertType,
         BoundType, crVars, certVars, bounds, Labels, TrustedLabels, VisitLabels
  <2> QED BY <2>3, <2>4 DEF TypeOK
<1>14. CASE DeleteAgentSecret
  <2>1. cur \in Namespaces /\ "AgentSecret" \in TargetKinds
    BY <1>14 DEF DeleteAgentSecret, Step, TypeOK, LocalType, TargetKinds, VisitLabels
  <2>2. ObjType'
    BY <1>14, <2>1, <1>c, <1>d, ObjTypes DEF DeleteAgentSecret, TypeOK, ObjType, objVars
  <2>3. CRType' /\ LocalType' /\ CertType' /\ BoundType'
    BY <1>14, <2>1 DEF DeleteAgentSecret, Step, Stay, TypeOK, CRType, LocalType, CertType,
         BoundType, crVars, certVars, bounds, Labels, TrustedLabels, VisitLabels
  <2> QED BY <2>2, <2>3 DEF TypeOK
<1>15. CASE DeleteAgentCert
  BY <1>15, <1>a DEF DeleteAgentCert, Stay, TypeOK, CRType, LocalType, ObjType, CertType,
       BoundType, crVars, objVars, bounds
<1>16. CASE TLSReady
  <2>1. [mem EXCEPT !.tlsCondition = "Ready"] \in CRs
    BY DEF TypeOK, CRType, CRs
  <2> QED BY <1>16, <1>a, <2>1, WriteAndGotoTypes DEF TLSReady
<1>17. CASE ReconcileCoreService
  <2>1. CRType' /\ LocalType'
    BY <1>17, <1>a, PlainGotoTypes DEF ReconcileCoreService, Step
  <2>2. ObjType' /\ CertType' /\ BoundType'
    BY <1>17 DEF ReconcileCoreService, Step, TypeOK, ObjType, CertType, BoundType, objVars,
                 certVars, bounds
  <2> QED BY <2>1, <2>2 DEF TypeOK
<1>18. CASE CreateCallbackServices
  <2>1. "CallbackService" \in TargetKinds
    BY DEF TargetKinds
  <2> QED BY <1>18, <1>a, <2>1, CreateLoopTypes DEF CreateCallbackServices
<1>19. CASE DeleteCallbackServices
  <2>1. "CallbackService" \in TargetKinds
    BY DEF TargetKinds
  <2> QED BY <1>19, <1>a, <2>1, DeleteLoopTypes DEF DeleteCallbackServices
<1>20. CASE ReconcileWorkloads
  <2>1. CRType' /\ LocalType'
    <3>1. CASE WriteConditions /\ Goto("status") /\ Stay /\ UNCHANGED <<cur, unready>>
      <4>1. CRType'
        BY <3>1 DEF WriteConditions, Stay, TypeOK, CRType
      <4>2. LocalType'
        BY <1>20, <3>1, <1>a, GotoTypes DEF ReconcileWorkloads, TypeOK
      <4> QED BY <4>1, <4>2
    <3>2. CASE Conflict
      BY <3>2, ConflictTypes DEF TypeOK
    <3> QED BY <1>20, <3>1, <3>2 DEF ReconcileWorkloads
  <2>2. ObjType' /\ CertType' /\ BoundType'
    BY <1>20 DEF ReconcileWorkloads, TypeOK, ObjType, CertType, BoundType, objVars, certVars, bounds
  <2> QED BY <2>1, <2>2 DEF TypeOK
<1>21. CASE UpdateStatus
  <2>1. [mem EXCEPT !.status = mem.spec] \in CRs
    BY DEF TypeOK, CRType, CRs
  <2>2. (IF IsOpenShift THEN "consoleLink" ELSE "conditions") \in Plain
    BY <1>a
  <2> QED BY <1>21, <1>a, <2>1, <2>2, WriteAndGotoTypes DEF UpdateStatus
<1>22. CASE ReconcileConsoleLink
  <2>1. CRType' /\ LocalType'
    <3>1. CASE Goto("conditions") /\ Stay /\ UNCHANGED <<cur, unready>>
      BY <1>22, <3>1, <1>a, PlainGotoTypes DEF ReconcileConsoleLink, Step
    <3>2. CASE Return(TRUE)
      BY <1>22, <3>2, ReturnTypes DEF ReconcileConsoleLink, Step, TypeOK, CRType, crVars
    <3> QED BY <1>22, <3>1, <3>2 DEF ReconcileConsoleLink
  <2>2. ObjType'
    BY <1>22, <1>c, <1>d, ObjTypes DEF ReconcileConsoleLink, TypeOK, ClusterKinds
  <2>3. CertType' /\ BoundType'
    BY <1>22 DEF ReconcileConsoleLink, Step, TypeOK, CertType, BoundType, certVars, bounds
  <2> QED BY <2>1, <2>2, <2>3 DEF TypeOK
<1>23. CASE UpdateConditions
  <2>1. CRType' /\ LocalType'
    <3>1. CASE WriteConditions /\ Return(FALSE)
      BY <3>1, ReturnTypes DEF WriteConditions, TypeOK, CRType
    <3>2. CASE Conflict
      BY <3>2, ConflictTypes DEF TypeOK
    <3> QED BY <1>23, <3>1, <3>2 DEF UpdateConditions
  <2>2. ObjType' /\ CertType' /\ BoundType'
    BY <1>23 DEF UpdateConditions, TypeOK, ObjType, CertType, BoundType, objVars, certVars, bounds
  <2> QED BY <2>1, <2>2 DEF TypeOK
<1>24. CASE FinalizeClusterRoleBinding \/ FinalizeOpenShift
  <2>1. PICK l \in {"finRoleBindings", "finServices"} :
          Goto(l) /\ Stay /\ UNCHANGED <<crVars, certVars, bounds, cur, unready>>
    BY <1>24 DEF FinalizeClusterRoleBinding, FinalizeOpenShift, Step
  <2>2. pc \notin VisitLabels
    BY <1>24 DEF FinalizeClusterRoleBinding, FinalizeOpenShift, Step, VisitLabels
  <2>3. CRType' /\ LocalType'
    BY <2>1, <2>2, <1>b, PlainGotoTypes
  <2>4. ObjType'
    BY <1>24, <1>c, <1>d, ObjTypes DEF FinalizeClusterRoleBinding, FinalizeOpenShift, TypeOK,
                                       ClusterKinds
  <2>5. CertType' /\ BoundType'
    BY <2>1 DEF TypeOK, CertType, BoundType, certVars, bounds
  <2> QED BY <2>3, <2>4, <2>5 DEF TypeOK
<1>25. CASE FinalizeRoleBindings \/ FinalizeCallbackServices
  <2>1. "RoleBinding" \in TargetKinds /\ "CallbackService" \in TargetKinds
    BY DEF TargetKinds
  <2> QED BY <1>25, <1>b, <2>1, DeleteLoopTypes DEF FinalizeRoleBindings, FinalizeCallbackServices
<1>26. CASE FinalizeCASecret
  <2>1. PICK ns \in todo :
          /\ Delete("CASecret", ns)
          /\ pc' = "finAgentSecret" /\ cur' = ns /\ todo' = todo \ {ns}
    BY <1>26 DEF FinalizeCASecret
  <2>2. ns \in Namespaces /\ "CASecret" \in TargetKinds
    BY DEF TypeOK, LocalType, TargetKinds
  <2>3. ObjType'
    BY <2>1, <2>2, <1>c, <1>d, ObjTypes DEF TypeOK
  <2>4. CRType' /\ LocalType' /\ CertType' /\ BoundType'
    BY <1>26, <2>1, <2>2 DEF FinalizeCASecret, Step, Stay, TypeOK, CRType, LocalType, CertType,
         BoundType, crVars, certVars, bounds, Labels, FinalizeLabels, VisitLabels
  <2> QED BY <2>3, <2>4 DEF TypeOK
<1>27. CASE FinalizeAgentSecret
  <2>1. cur \in Namespaces /\ "AgentSecret" \in TargetKinds
    BY <1>27 DEF FinalizeAgentSecret, Step, TypeOK, LocalType, TargetKinds, VisitLabels
  <2>2. ObjType'
    BY <1>27, <2>1, <1>c, <1>d, ObjTypes DEF FinalizeAgentSecret, TypeOK
  <2>3. CRType' /\ LocalType' /\ CertType' /\ BoundType'
    BY <1>27, <1>b DEF FinalizeAgentSecret, Step, Stay, TypeOK, CRType, LocalType, CertType,
         BoundType, crVars, certVars, bounds
  <2> QED BY <2>2, <2>3 DEF TypeOK
<1>28. CASE RemoveFinalizer
  <2>1. CRType' /\ LocalType' /\ CertType'
    <3>1. CASE /\ memFresh /\ cr' = NoCR /\ cacheFresh' = FALSE
               /\ certs' = {} /\ issued' = {} /\ Return(FALSE) /\ UNCHANGED cache
      BY <3>1, ReturnTypes, NoCRType DEF TypeOK, CRType, CertType
    <3>2. CASE Conflict /\ UNCHANGED certVars
      BY <3>2, ConflictTypes DEF TypeOK, CertType, certVars
    <3> QED BY <1>28, <3>1, <3>2 DEF RemoveFinalizer
  <2>2. ObjType' /\ BoundType'
    BY <1>28 DEF RemoveFinalizer, TypeOK, ObjType, BoundType, objVars, bounds
  <2> QED BY <2>1, <2>2 DEF TypeOK
<1>29. CASE SyncCR
  BY <1>29 DEF SyncCR, TypeOK, CRType, LocalType, ObjType, CertType, BoundType, localVars,
       objVars, certVars, bounds
<1>30. ASSUME NEW k \in Kinds, SyncObjects(k) PROVE TypeOK'
  <2>1. ObjType'
    BY <1>30 DEF SyncObjects, TypeOK, ObjType
  <2>2. CRType'
    BY <1>30 DEF SyncObjects, TypeOK, CRType, crVars, localVars
  <2>3. LocalType' /\ CertType' /\ BoundType'
    BY <1>30 DEF SyncObjects, TypeOK, LocalType, CertType, BoundType, localVars, certVars, bounds
  <2> QED BY <2>1, <2>2, <2>3 DEF TypeOK
<1>31. ASSUME NEW c \in CertNames, IssueCertificate(c) PROVE TypeOK'
  BY <1>31 DEF IssueCertificate, TypeOK, CRType, LocalType, ObjType, CertType, BoundType,
       crVars, localVars, objVars, bounds
<1>32. CASE OwnedObjectEvent
  BY <1>32 DEF OwnedObjectEvent, TypeOK, CRType, LocalType, ObjType, CertType, BoundType,
       crVars, localVars, objVars, certVars, bounds
<1>33. ASSUME NEW s \in Specs, NEW tls \in CertManagerSettings,
              CreateCR(s, tls) \/ EditCR(s, tls)
       PROVE  TypeOK'
  <2>1. s \subseteq Namespaces /\ tls \in BOOLEAN
    BY ConstantsAssumption
  <2>2. PICK c \in CRs : Overwrite(c)
    BY <1>33, <2>1 DEF CreateCR, EditCR, NewCR, NoCR, TypeOK, CRType, CRs
  <2>3. CRType' /\ LocalType' /\ ObjType'
    BY <2>2 DEF Overwrite, TypeOK, CRType, LocalType, ObjType, objVars
  <2>4. CertType' /\ BoundType'
    BY <1>33, ConstantsAssumption DEF CreateCR, EditCR, Edit, TypeOK, CertType, BoundType, certVars
  <2> QED BY <2>3, <2>4 DEF TypeOK
<1>34. CASE DeleteCR
  <2>1. PICK c \in CRs : Overwrite(c)
    BY <1>34, NoCRType DEF DeleteCR, TypeOK, CRType, CRs
  <2>2. CRType' /\ LocalType' /\ ObjType'
    BY <2>1 DEF Overwrite, TypeOK, CRType, LocalType, ObjType, objVars
  <2>3. CertType' /\ BoundType'
    BY <1>34, ConstantsAssumption DEF DeleteCR, Edit, TypeOK, CertType, BoundType, certVars
  <2> QED BY <2>2, <2>3 DEF TypeOK
<1>35. ASSUME NEW k \in TargetKinds, NEW ns \in Namespaces, Tamper(k, ns) PROVE TypeOK'
  <2>1. ObjType'
    BY <1>35, <1>c, <1>d, ObjTypes DEF Tamper, TypeOK
  <2>2. CRType' /\ LocalType' /\ CertType' /\ BoundType'
    BY <1>35, ConstantsAssumption DEF Tamper, Edit, TypeOK, CRType, LocalType, CertType,
         BoundType, crVars, localVars, certVars
  <2> QED BY <2>1, <2>2 DEF TypeOK
<1>36. CASE IngressNotReady \/ CallFails
  <2>1. Return(TRUE) /\ UNCHANGED <<crVars, objVars, certVars>> /\ Fault
    BY <1>36 DEF IngressNotReady, CallFails
  <2>2. CRType' /\ LocalType'
    BY <2>1, ReturnTypes DEF TypeOK, CRType, crVars
  <2>3. ObjType' /\ CertType' /\ BoundType'
    BY <2>1, ConstantsAssumption DEF Fault, TypeOK, ObjType, CertType, BoundType, objVars, certVars
  <2> QED BY <2>2, <2>3 DEF TypeOK
<1>37. CASE Restart
  <2>1. CRType'
    BY <1>37, NoCRType DEF Restart, TypeOK, CRType
  <2>2. LocalType'
    BY <1>37, <1>a DEF Restart, TypeOK, LocalType
  <2>3. ObjType' /\ CertType' /\ BoundType'
    BY <1>37, ConstantsAssumption DEF Restart, Fault, TypeOK, ObjType, CertType, BoundType, certVars
  <2> QED BY <2>1, <2>2, <2>3 DEF TypeOK
<1>38. CASE UNCHANGED vars
  BY <1>38 DEF vars, TypeOK, CRType, LocalType, ObjType, CertType, BoundType, crVars, localVars,
       objVars, certVars, bounds
<1> QED
  BY <1>1, <1>2, <1>3, <1>4, <1>5, <1>6, <1>7, <1>8, <1>9, <1>10, <1>11, <1>12, <1>13, <1>14,
     <1>15, <1>16, <1>17, <1>18, <1>19, <1>20, <1>21, <1>22, <1>23, <1>24, <1>25, <1>26, <1>27,
     <1>28, <1>29, <1>30, <1>31, <1>32, <1>33, <1>34, <1>35, <1>36, <1>37, <1>38
     DEF Next, Worker, Environment

\* The types hold before the first CR is created.
LEMMA TypeInit == Init => TypeOK
<1> SUFFICES ASSUME Init PROVE TypeOK
  OBVIOUS
<1>1. CRType
  BY NoCRType DEF Init, CRType
<1>2. LocalType
  BY DEF Init, LocalType, Labels, VisitLabels
<1>3. ObjType /\ CertType
  BY DEF Init, ObjType, CertType, Kinds, ClusterKinds, TargetKinds
<1>4. BoundType
  BY ConstantsAssumption DEF Init, BoundType
<1> QED BY <1>1, <1>2, <1>3, <1>4 DEF TypeOK

\* Types hold always; in particular a certificate is ready only while it exists
\* (deleteCertWithSecret) and a namespace is held exactly between the calls of one visit.
THEOREM TypeCorrect == Spec => []TypeOK
  BY TypeInit, TypeStep, PTL DEF Spec

-----------------------------------------------------------------------------
(* Caches: CRCoherent and ObjCoherent.                                     *)

\* After an accepted write the CR in memory is the server's, and a cache still fresh
\* has not missed a change.
LEMMA WriteCRCoherent ==
  ASSUME NEW c \in CRs, CRType, CRCoherent, WriteCR(c) PROVE CRCoherent'
<1>1. memFresh' => mem' = cr'
  BY DEF WriteCR
<1>2. ASSUME cacheFresh' PROVE cache' = cr'
  <2>1. cacheFresh /\ c = cr
    BY <1>2, Zenon DEF WriteCR
  <2> QED BY <2>1 DEF WriteCR, CRCoherent
<1> QED BY <1>1, <1>2 DEF CRCoherent

\* A refused write leaves no copy of the CR that claims to be fresh and is not.
LEMMA ConflictCoherent ==
  ASSUME CRCoherent, Conflict PROVE CRCoherent'
  BY DEF Conflict, Return, CRCoherent, crVars
\* A write of conditions never refreshes the cache.
LEMMA WriteConditionsKeeps ==
  ASSUME WriteConditions PROVE cacheFresh' => cacheFresh
  BY Zenon DEF WriteConditions

\* Copies of the CR marked fresh are equal to the server's, after every step.
LEMMA CRCoherentStep ==
  ASSUME TypeOK, CRCoherent, [Next]_vars PROVE CRCoherent'
<1>1. CASE AddFinalizer \/ ReconcileSecrets \/ TLSDisabled \/ TLSReady \/ UpdateStatus
  <2>1. PICK c \in CRs : WriteCR(c) \/ Conflict
    BY <1>1 DEF AddFinalizer, ReconcileSecrets, TLSDisabled, TLSReady, UpdateStatus, TypeOK,
              CRType, CRs
  <2> QED BY <2>1, WriteCRCoherent, ConflictCoherent DEF TypeOK
<1>2. CASE ReconcileWorkloads \/ UpdateConditions
  BY <1>2, ConflictCoherent, WriteConditionsKeeps DEF ReconcileWorkloads, WriteConditions,
    Return, Goto, Stay, crVars, objVars, UpdateConditions, CRCoherent
<1>3. CASE CertManagerMissing \/ CertsNotReady
  BY <1>3 DEF CertManagerMissing, WriteAndReturn, Return, objVars, CertsNotReady, CRCoherent
<1>4. CASE CreateRoleBindings \/ DeleteRoleBindings \/ CreateCallbackServices \/
            DeleteCallbackServices \/ FinalizeRoleBindings \/ FinalizeCallbackServices
  BY <1>4 DEF CreateRoleBindings, CreateLoop, Step, Stay, Return, CreateOrUpdate,
    AlreadyExists, Put, crVars, objVars, DeleteRoleBindings, DeleteLoop, Delete,
    CreateCallbackServices, DeleteCallbackServices, FinalizeRoleBindings,
    FinalizeCallbackServices, CRCoherent
<1>5. CASE ReconcileClusterRoleBinding \/ ReconcileConsoleLink \/ FinalizeClusterRoleBinding
            \/ FinalizeOpenShift
  BY <1>5 DEF ReconcileClusterRoleBinding, Step, Stay, Goto, Return, CreateOrUpdate,
    AlreadyExists, Put, crVars, objVars, ReconcileConsoleLink, FinalizeClusterRoleBinding,
    Delete, FinalizeOpenShift, CRCoherent
<1>6. CASE CopyCASecret \/ ReconcileAgentCertificate \/ DeleteCASecret \/ DeleteAgentSecret
            \/ DeleteAgentCert \/ FinalizeCASecret \/ FinalizeAgentSecret
  BY <1>6 DEF CopyCASecret, Step, Stay, Return, CreateOrUpdate, AlreadyExists, Put, crVars,
    objVars, ReconcileAgentCertificate, DeleteCASecret, Delete, DeleteAgentSecret,
    DeleteAgentCert, FinalizeCASecret, FinalizeAgentSecret, CRCoherent
<1>7. CASE SetupTLS \/ ReconcileCoreService \/ LoopDone
  BY <1>7 DEF SetupTLS, Goto, Stay, crVars, objVars, ReconcileCoreService, Step, LoopDone,
    CRCoherent
<1>8. CASE Reconcile
  BY <1>8 DEF Reconcile, localVars, crVars, objVars, CRCoherent
<1>9. CASE RemoveFinalizer
  BY <1>9 DEF RemoveFinalizer, Conflict, Return, crVars, objVars, CRCoherent
<1>10. CASE SyncCR \/ OwnedObjectEvent
  BY <1>10 DEF SyncCR, localVars, objVars, OwnedObjectEvent, crVars, CRCoherent
<1>11. ASSUME NEW k \in Kinds, SyncObjects(k) PROVE CRCoherent'
  BY <1>11 DEF SyncObjects, crVars, localVars, Informer, CRCoherent
<1>12. ASSUME NEW c \in CertNames, IssueCertificate(c) PROVE CRCoherent'
  BY <1>12 DEF IssueCertificate, crVars, localVars, objVars, CRCoherent
<1>13. ASSUME NEW s \in Specs, NEW tls \in CertManagerSettings, CreateCR(s, tls) PROVE CRCoherent'
  BY <1>13 DEF CreateCR, Overwrite, NewCR, NoCR, objVars, CRCoherent
<1>14. ASSUME NEW s \in Specs, NEW tls \in CertManagerSettings, EditCR(s, tls) PROVE CRCoherent'
  BY <1>14 DEF EditCR, Overwrite, objVars, CRCoherent
<1>15. CASE DeleteCR
  BY <1>15 DEF DeleteCR, Overwrite, NoCR, objVars, CRCoherent
<1>16. ASSUME NEW k \in TargetKinds, NEW ns \in Namespaces, Tamper(k, ns) PROVE CRCoherent'
  BY <1>16 DEF Tamper, Delete, crVars, localVars, objVars, CRCoherent
<1>17. CASE IngressNotReady \/ CallFails
  BY <1>17 DEF IngressNotReady, Return, crVars, objVars, CallFails, CRCoherent
<1>18. CASE Restart
  BY <1>18 DEF Restart, CRCoherent
<1>19. CASE UNCHANGED vars
  BY <1>19 DEF vars, crVars, localVars, objVars, certVars, bounds, CRCoherent
<1> QED
  BY <1>1, <1>2, <1>3, <1>4, <1>5, <1>6, <1>7, <1>8, <1>9, <1>10, <1>11, <1>12, <1>13,
     <1>14, <1>15, <1>16, <1>17, <1>18, <1>19 DEF Next, Worker, Environment

\* A kind without undelivered events is cached exactly, after every step.
LEMMA ObjCoherentStep ==
  ASSUME TypeOK, ObjCoherent, [Next]_vars PROVE ObjCoherent'
<1> USE DEF TypeOK, ObjType, ObjCoherent, Kinds, TargetKinds, ClusterKinds
<1>1. CASE AddFinalizer \/ ReconcileSecrets \/ TLSDisabled \/ TLSReady \/ UpdateStatus
  BY <1>1 DEF AddFinalizer, WriteCR, Conflict, Return, Goto, crVars, objVars,
    ReconcileSecrets, TLSDisabled, TLSReady, UpdateStatus
<1>2. CASE ReconcileWorkloads \/ UpdateConditions
  BY <1>2 DEF ReconcileWorkloads, WriteConditions, Conflict, Return, Goto, Stay, crVars,
    objVars, UpdateConditions
<1>3. CASE CertManagerMissing \/ CertsNotReady
  BY <1>3 DEF CertManagerMissing, WriteAndReturn, Return, objVars, CertsNotReady
<1>4. CASE CreateRoleBindings \/ DeleteRoleBindings \/ CreateCallbackServices \/
            DeleteCallbackServices \/ FinalizeRoleBindings \/ FinalizeCallbackServices
  BY <1>4 DEF CreateRoleBindings, CreateLoop, Step, Stay, Return, CreateOrUpdate,
    AlreadyExists, Put, crVars, objVars, DeleteRoleBindings, DeleteLoop, Delete,
    CreateCallbackServices, DeleteCallbackServices, FinalizeRoleBindings,
    FinalizeCallbackServices
<1>5. CASE ReconcileClusterRoleBinding \/ ReconcileConsoleLink \/ FinalizeClusterRoleBinding
            \/ FinalizeOpenShift
  BY <1>5 DEF ReconcileClusterRoleBinding, Step, Stay, Goto, Return, CreateOrUpdate,
    AlreadyExists, Put, crVars, objVars, ReconcileConsoleLink, FinalizeClusterRoleBinding,
    Delete, FinalizeOpenShift
<1>6. CASE CopyCASecret \/ ReconcileAgentCertificate \/ DeleteCASecret \/ DeleteAgentSecret
            \/ DeleteAgentCert \/ FinalizeCASecret \/ FinalizeAgentSecret
  BY <1>6 DEF CopyCASecret, Step, Stay, Return, CreateOrUpdate, AlreadyExists, Put, crVars,
    objVars, ReconcileAgentCertificate, DeleteCASecret, Delete, DeleteAgentSecret,
    DeleteAgentCert, FinalizeCASecret, FinalizeAgentSecret
<1>7. CASE SetupTLS \/ ReconcileCoreService
  BY <1>7 DEF SetupTLS, Goto, Stay, crVars, objVars, ReconcileCoreService, Step
<1>8. CASE LoopDone
  BY <1>8 DEF LoopDone, Stay, Goto, crVars, objVars
<1>9. CASE Reconcile
  BY <1>9 DEF Reconcile, localVars, crVars, objVars
<1>10. CASE RemoveFinalizer
  BY <1>10 DEF RemoveFinalizer, Conflict, Return, crVars, objVars
<1>11. CASE SyncCR \/ OwnedObjectEvent
  BY <1>11 DEF SyncCR, localVars, objVars, OwnedObjectEvent, crVars
<1>12. ASSUME NEW k \in Kinds, SyncObjects(k) PROVE ObjCoherent'
  BY <1>12 DEF SyncObjects, crVars, localVars, Informer
<1>13. ASSUME NEW c \in CertNames, IssueCertificate(c) PROVE ObjCoherent'
  BY <1>13 DEF IssueCertificate, crVars, localVars, objVars
<1>14. ASSUME NEW s \in Specs, NEW tls \in CertManagerSettings, CreateCR(s, tls) PROVE ObjCoherent'
  BY <1>14 DEF CreateCR, Overwrite, NewCR, NoCR, objVars
<1>15. ASSUME NEW s \in Specs, NEW tls \in CertManagerSettings, EditCR(s, tls) PROVE ObjCoherent'
  BY <1>15 DEF EditCR, Overwrite, objVars
<1>16. CASE DeleteCR
  BY <1>16 DEF DeleteCR, Overwrite, NoCR, objVars
<1>17. ASSUME NEW k \in TargetKinds, NEW ns \in Namespaces, Tamper(k, ns) PROVE ObjCoherent'
  BY <1>17 DEF Tamper, Delete, crVars, localVars, objVars
<1>18. CASE IngressNotReady \/ CallFails
  BY <1>18 DEF IngressNotReady, Return, crVars, objVars, CallFails
<1>19. CASE Restart
  BY <1>19 DEF Restart
<1>20. CASE UNCHANGED vars
  BY <1>20 DEF vars, crVars, localVars, objVars, certVars, bounds
<1> QED
  BY <1>1, <1>2, <1>3, <1>4, <1>5, <1>6, <1>7, <1>8, <1>9, <1>10, <1>11, <1>12, <1>13,
     <1>14, <1>15, <1>16, <1>17, <1>18, <1>19, <1>20 DEF Next, Worker, Environment

-----------------------------------------------------------------------------
(* What the running reconcile knows: Stage and ClusterInv.                 *)

\* What the label of a running reconcile says about its CR survives every step:
\* the status write of reconcileSecrets is what later labels rest on.
LEMMA StageStep ==
  ASSUME TypeOK, CRCoherent, Stage, [Next]_vars PROVE Stage'
<1> USE DEF TypeOK, CRType, CRs, CRCoherent, Stage, TrustedLabels
<1>1. CASE AddFinalizer \/ ReconcileSecrets \/ TLSDisabled \/ TLSReady \/ UpdateStatus
  BY <1>1 DEF AddFinalizer, WriteCR, Conflict, Return, Goto, crVars, objVars,
    ReconcileSecrets, TLSDisabled, TLSReady, UpdateStatus
<1>2. CASE ReconcileWorkloads \/ UpdateConditions
  BY <1>2 DEF ReconcileWorkloads, WriteConditions, Conflict, Return, Goto, Stay, crVars,
    objVars, UpdateConditions
<1>3. CASE CertManagerMissing \/ CertsNotReady
  BY <1>3 DEF CertManagerMissing, WriteAndReturn, Return, objVars, CertsNotReady
<1>4. CASE CreateRoleBindings \/ DeleteRoleBindings \/ CreateCallbackServices \/
            DeleteCallbackServices \/ FinalizeRoleBindings \/ FinalizeCallbackServices
  BY <1>4 DEF CreateRoleBindings, CreateLoop, Step, Stay, Return, CreateOrUpdate,
    AlreadyExists, Put, crVars, objVars, DeleteRoleBindings, DeleteLoop, Delete,
    CreateCallbackServices, DeleteCallbackServices, FinalizeRoleBindings,
    FinalizeCallbackServices
<1>5. CASE ReconcileClusterRoleBinding \/ ReconcileConsoleLink \/ FinalizeClusterRoleBinding
            \/ FinalizeOpenShift
  BY <1>5 DEF ReconcileClusterRoleBinding, Step, Stay, Goto, Return, CreateOrUpdate,
    AlreadyExists, Put, crVars, objVars, ReconcileConsoleLink, FinalizeClusterRoleBinding,
    Delete, FinalizeOpenShift
<1>6. CASE CopyCASecret \/ ReconcileAgentCertificate \/ DeleteCASecret \/ DeleteAgentSecret
            \/ DeleteAgentCert \/ FinalizeCASecret \/ FinalizeAgentSecret
  BY <1>6 DEF CopyCASecret, Step, Stay, Return, CreateOrUpdate, AlreadyExists, Put, crVars,
    objVars, ReconcileAgentCertificate, DeleteCASecret, Delete, DeleteAgentSecret,
    DeleteAgentCert, FinalizeCASecret, FinalizeAgentSecret
<1>7. CASE SetupTLS \/ ReconcileCoreService
  BY <1>7 DEF SetupTLS, Goto, Stay, crVars, objVars, ReconcileCoreService, Step
<1>8. CASE LoopDone
  BY <1>8 DEF LoopDone, Stay, Goto, crVars, objVars, AfterLoop, Loops
<1>9. CASE Reconcile
  BY <1>9 DEF Reconcile, localVars, crVars, objVars
<1>10. CASE RemoveFinalizer
  BY <1>10 DEF RemoveFinalizer, Conflict, Return, crVars, objVars
<1>11. CASE SyncCR \/ OwnedObjectEvent
  BY <1>11 DEF SyncCR, localVars, objVars, OwnedObjectEvent, crVars
<1>12. ASSUME NEW k \in Kinds, SyncObjects(k) PROVE Stage'
  BY <1>12 DEF SyncObjects, crVars, localVars, Informer
<1>13. ASSUME NEW c \in CertNames, IssueCertificate(c) PROVE Stage'
  BY <1>13 DEF IssueCertificate, crVars, localVars, objVars
<1>14. ASSUME NEW s \in Specs, NEW tls \in CertManagerSettings, CreateCR(s, tls) PROVE Stage'
  BY <1>14 DEF CreateCR, Overwrite, NewCR, NoCR, objVars
<1>15. ASSUME NEW s \in Specs, NEW tls \in CertManagerSettings, EditCR(s, tls) PROVE Stage'
  BY <1>15 DEF EditCR, Overwrite, objVars
<1>16. CASE DeleteCR
  BY <1>16 DEF DeleteCR, Overwrite, NoCR, objVars
<1>17. ASSUME NEW k \in TargetKinds, NEW ns \in Namespaces, Tamper(k, ns) PROVE Stage'
  BY <1>17 DEF Tamper, Delete, crVars, localVars, objVars
<1>18. CASE IngressNotReady \/ CallFails
  BY <1>18 DEF IngressNotReady, Return, crVars, objVars, CallFails
<1>19. CASE Restart
  BY <1>19 DEF Restart
<1>20. CASE UNCHANGED vars
  BY <1>20 DEF vars, crVars, localVars, objVars, certVars, bounds
<1> QED
  BY <1>1, <1>2, <1>3, <1>4, <1>5, <1>6, <1>7, <1>8, <1>9, <1>10, <1>11, <1>12, <1>13,
     <1>14, <1>15, <1>16, <1>17, <1>18, <1>19, <1>20 DEF Next, Worker, Environment

\* Cluster-scoped objects stay guarded by the finalizer, and finalizeCryostat's
\* later calls find them gone.
LEMMA ClusterStep ==
  ASSUME TypeOK, CRCoherent, Stage, ClusterInv, [Next]_vars PROVE ClusterInv'
<1> USE DEF TypeOK, CRType, CRs, ObjType, CRCoherent, Stage, ClusterInv,
    ClusterObjectsGuarded, ClusterKinds, TargetKinds, Kinds, TrustedLabels, FinalizeLabels
<1>1. CASE AddFinalizer \/ ReconcileSecrets \/ TLSDisabled \/ TLSReady \/ UpdateStatus
  BY <1>1 DEF AddFinalizer, WriteCR, Conflict, Return, Goto, crVars, objVars,
    ReconcileSecrets, TLSDisabled, TLSReady, UpdateStatus
<1>2. CASE ReconcileWorkloads \/ UpdateConditions
  BY <1>2 DEF ReconcileWorkloads, WriteConditions, Conflict, Return, Goto, Stay, crVars,
    objVars, UpdateConditions
<1>3. CASE CertManagerMissing \/ CertsNotReady
  BY <1>3 DEF CertManagerMissing, WriteAndReturn, Return, objVars, CertsNotReady
<1>4. CASE CreateRoleBindings \/ DeleteRoleBindings \/ CreateCallbackServices \/
            DeleteCallbackServices \/ FinalizeRoleBindings \/ FinalizeCallbackServices
  BY <1>4 DEF CreateRoleBindings, CreateLoop, Step, Stay, Return, CreateOrUpdate,
    AlreadyExists, Put, crVars, objVars, DeleteRoleBindings, DeleteLoop, Delete,
    CreateCallbackServices, DeleteCallbackServices, FinalizeRoleBindings,
    FinalizeCallbackServices
<1>5. CASE ReconcileClusterRoleBinding \/ ReconcileConsoleLink \/ FinalizeClusterRoleBinding
            \/ FinalizeOpenShift
  BY <1>5 DEF ReconcileClusterRoleBinding, Step, Stay, Goto, Return, CreateOrUpdate,
    AlreadyExists, Put, crVars, objVars, ReconcileConsoleLink, FinalizeClusterRoleBinding,
    Delete, FinalizeOpenShift
<1>6. CASE CopyCASecret \/ ReconcileAgentCertificate \/ DeleteCASecret \/ DeleteAgentSecret
            \/ DeleteAgentCert \/ FinalizeCASecret \/ FinalizeAgentSecret
  BY <1>6 DEF CopyCASecret, Step, Stay, Return, CreateOrUpdate, AlreadyExists, Put, crVars,
    objVars, ReconcileAgentCertificate, DeleteCASecret, Delete, DeleteAgentSecret,
    DeleteAgentCert, FinalizeCASecret, FinalizeAgentSecret
<1>7. CASE SetupTLS \/ ReconcileCoreService
  BY <1>7 DEF SetupTLS, Goto, Stay, crVars, objVars, ReconcileCoreService, Step
<1>8. CASE LoopDone
  BY <1>8 DEF LoopDone, Stay, Goto, crVars, objVars, AfterLoop, Loops
<1>9. CASE Reconcile
  BY <1>9 DEF Reconcile, localVars, crVars, objVars
<1>10. CASE RemoveFinalizer
  BY <1>10 DEF RemoveFinalizer, Conflict, Return, crVars, objVars
<1>11. CASE SyncCR \/ OwnedObjectEvent
  BY <1>11 DEF SyncCR, localVars, objVars, OwnedObjectEvent, crVars
<1>12. ASSUME NEW k \in Kinds, SyncObjects(k) PROVE ClusterInv'
  BY <1>12 DEF SyncObjects, crVars, localVars, Informer
<1>13. ASSUME NEW c \in CertNames, IssueCertificate(c) PROVE ClusterInv'
  BY <1>13 DEF IssueCertificate, crVars, localVars, objVars
<1>14. ASSUME NEW s \in Specs, NEW tls \in CertManagerSettings, CreateCR(s, tls) PROVE ClusterInv'
  BY <1>14 DEF CreateCR, Overwrite, NewCR, NoCR, objVars
<1>15. ASSUME NEW s \in Specs, NEW tls \in CertManagerSettings, EditCR(s, tls) PROVE ClusterInv'
  BY <1>15 DEF EditCR, Overwrite, objVars
<1>16. CASE DeleteCR
  BY <1>16 DEF DeleteCR, Overwrite, NoCR, objVars
<1>17. ASSUME NEW k \in TargetKinds, NEW ns \in Namespaces, Tamper(k, ns) PROVE ClusterInv'
  BY <1>17 DEF Tamper, Delete, crVars, localVars, objVars
<1>18. CASE IngressNotReady \/ CallFails
  BY <1>18 DEF IngressNotReady, Return, crVars, objVars, CallFails
<1>19. CASE Restart
  BY <1>19 DEF Restart
<1>20. CASE UNCHANGED vars
  BY <1>20 DEF vars, crVars, localVars, objVars, certVars, bounds
<1> QED
  BY <1>1, <1>2, <1>3, <1>4, <1>5, <1>6, <1>7, <1>8, <1>9, <1>10, <1>11, <1>12, <1>13,
     <1>14, <1>15, <1>16, <1>17, <1>18, <1>19, <1>20 DEF Next, Worker, Environment

-----------------------------------------------------------------------------
(* What it has done: ClearedInv, ServedInv and IdleInv.                    *)

\* Namespaces a finalization has visited stay without the kinds it has removed.
LEMMA ClearedStep ==
  ASSUME TypeOK, CRCoherent, Stage, ClearedInv, [Next]_vars PROVE ClearedInv'
<1> USE DEF TypeOK, CRType, CRs, LocalType, ObjType, ClearedInv, Cleared, TargetKinds,
    ClusterKinds, Kinds, FinalizeLabels, VisitLabels
<1>1. CASE AddFinalizer \/ ReconcileSecrets \/ TLSDisabled \/ TLSReady \/ UpdateStatus
  BY <1>1 DEF AddFinalizer, WriteCR, Conflict, Return, Goto, crVars, objVars,
    ReconcileSecrets, TLSDisabled, TLSReady, UpdateStatus
<1>2. CASE ReconcileWorkloads \/ UpdateConditions
  BY <1>2 DEF ReconcileWorkloads, WriteConditions, Conflict, Return, Goto, Stay, crVars,
    objVars, UpdateConditions
<1>3. CASE CertManagerMissing \/ CertsNotReady
  BY <1>3 DEF CertManagerMissing, WriteAndReturn, Return, objVars, CertsNotReady
<1>4. CASE CreateRoleBindings \/ DeleteRoleBindings \/ CreateCallbackServices \/
            DeleteCallbackServices \/ FinalizeRoleBindings \/ FinalizeCallbackServices
  BY <1>4 DEF CreateRoleBindings, CreateLoop, Step, Stay, Return, CreateOrUpdate,
    AlreadyExists, Put, crVars, objVars, DeleteRoleBindings, DeleteLoop, Delete,
    CreateCallbackServices, DeleteCallbackServices, FinalizeRoleBindings,
    FinalizeCallbackServices
<1>5. CASE ReconcileClusterRoleBinding \/ ReconcileConsoleLink \/ FinalizeClusterRoleBinding
            \/ FinalizeOpenShift
  BY <1>5 DEF ReconcileClusterRoleBinding, Step, Stay, Goto, Return, CreateOrUpdate,
    AlreadyExists, Put, crVars, objVars, ReconcileConsoleLink, FinalizeClusterRoleBinding,
    Delete, FinalizeOpenShift, LoopOver
<1>6. CASE CopyCASecret \/ ReconcileAgentCertificate \/ DeleteCASecret \/ DeleteAgentSecret
            \/ DeleteAgentCert \/ FinalizeCASecret \/ FinalizeAgentSecret
  BY <1>6 DEF CopyCASecret, Step, Stay, Return, CreateOrUpdate, AlreadyExists, Put, crVars,
    objVars, ReconcileAgentCertificate, DeleteCASecret, Delete, DeleteAgentSecret,
    DeleteAgentCert, FinalizeCASecret, FinalizeAgentSecret
<1>7. CASE SetupTLS \/ ReconcileCoreService
  BY <1>7, SMTT(30) DEF SetupTLS, Goto, Stay, crVars, objVars, ReconcileCoreService, Step
<1>8. CASE LoopDone
  BY <1>8 DEF LoopDone, Stay, Goto, crVars, objVars, AfterLoop, Loops, LoopOver
<1>9. CASE Reconcile
  BY <1>9 DEF Reconcile, localVars, crVars, objVars
<1>10. CASE RemoveFinalizer
  BY <1>10 DEF RemoveFinalizer, Conflict, Return, crVars, objVars
<1>11. CASE SyncCR \/ OwnedObjectEvent
  BY <1>11 DEF SyncCR, localVars, objVars, OwnedObjectEvent, crVars
<1>12. ASSUME NEW k \in Kinds, SyncObjects(k) PROVE ClearedInv'
  BY <1>12 DEF SyncObjects, crVars, localVars, Informer
<1>13. ASSUME NEW c \in CertNames, IssueCertificate(c) PROVE ClearedInv'
  BY <1>13 DEF IssueCertificate, crVars, localVars, objVars
<1>14. ASSUME NEW s \in Specs, NEW tls \in CertManagerSettings, CreateCR(s, tls) PROVE ClearedInv'
  BY <1>14 DEF CreateCR, Overwrite, NewCR, NoCR, objVars
<1>15. ASSUME NEW s \in Specs, NEW tls \in CertManagerSettings, EditCR(s, tls) PROVE ClearedInv'
  BY <1>15 DEF EditCR, Overwrite, objVars
<1>16. CASE DeleteCR
  BY <1>16 DEF DeleteCR, Overwrite, NoCR, objVars
<1>17. ASSUME NEW k \in TargetKinds, NEW ns \in Namespaces, Tamper(k, ns) PROVE ClearedInv'
  BY <1>17 DEF Tamper, Delete, crVars, localVars, objVars
<1>18. CASE IngressNotReady \/ CallFails
  BY <1>18 DEF IngressNotReady, Return, crVars, objVars, CallFails
<1>19. CASE Restart
  BY <1>19 DEF Restart
<1>20. CASE UNCHANGED vars
  BY <1>20 DEF vars, crVars, localVars, objVars, certVars, bounds
<1> QED
  BY <1>1, <1>2, <1>3, <1>4, <1>5, <1>6, <1>7, <1>8, <1>9, <1>10, <1>11, <1>12, <1>13,
     <1>14, <1>15, <1>16, <1>17, <1>18, <1>19, <1>20 DEF Next, Worker, Environment


\* A reconcile that has ended has served nothing yet.
LEMMA ReturnServed ==
  ASSUME NEW b \in BOOLEAN, Return(b) PROVE ServedInv'
  BY DEF Return, ServedInv, Served, TargetKinds, TrustedLabels, AfterServices, AfterSecrets,
     AfterTLS

\* CreateOrUpdate removes nothing, and afterwards the object exists or an event of its
\* kind is on its way: a stale cache may make it skip the call, but not silently.
LEMMA CreateOrUpdateKeeps ==
  ASSUME NEW k \in TargetKinds, NEW ns, ObjType, ObjCoherent, CreateOrUpdate(k, ns)
  PROVE  /\ \A j \in TargetKinds : obj[j] \subseteq obj'[j]
         /\ pending \subseteq pending'
         /\ ns \in obj'[k] \/ k \in pending'
  BY SMTT(30) DEF ObjType, ObjCoherent, CreateOrUpdate, Put, objVars, Kinds

\* Namespaces the running reconcile has dealt with keep their objects, or an event that
\* will bring the reconcile back is on its way.
LEMMA ServedStep ==
  ASSUME TypeOK, ObjCoherent, Stage, ServedInv, [Next]_vars PROVE ServedInv'
<1> USE DEF TypeOK, CRType, CRs, LocalType, ObjType, ObjCoherent, ServedInv, Served,
    AfterServices, AfterSecrets, AfterTLS, TargetKinds, ClusterKinds, Kinds, TrustedLabels,
    VisitLabels
<1>1. CASE AddFinalizer
  BY <1>1 DEF AddFinalizer, WriteCR, Conflict, Return, Goto, crVars, objVars, LoopOver
<1>2. CASE ReconcileSecrets
  BY <1>2 DEF ReconcileSecrets, WriteCR, Conflict, Return, Goto, crVars, objVars, LoopOver
<1>3. CASE TLSDisabled
  BY <1>3 DEF TLSDisabled, WriteCR, Conflict, Return, Goto, crVars, objVars, LoopOver
<1>4. CASE TLSReady
  BY <1>4 DEF TLSReady, WriteCR, Conflict, Return, Goto, crVars, objVars, LoopOver
<1>5. CASE UpdateStatus
  BY <1>5 DEF UpdateStatus, WriteCR, Conflict, Return, Goto, crVars, objVars, LoopOver
<1>6. CASE ReconcileWorkloads
  <2>1. CASE Conflict
    BY <2>1, ReturnServed DEF Conflict
  <2>2. CASE Goto("status") /\ Stay /\ UNCHANGED <<cur, unready>>
    BY <1>6, <2>2 DEF ReconcileWorkloads, Stay, Goto, objVars
  <2> QED BY <1>6, <2>1, <2>2 DEF ReconcileWorkloads
<1>7. CASE UpdateConditions
  BY <1>7 DEF UpdateConditions, WriteConditions, Conflict, Return, crVars, objVars
<1>8. CASE CertManagerMissing \/ CertsNotReady
  BY <1>8 DEF CertManagerMissing, WriteAndReturn, Return, objVars, CertsNotReady
<1>9. CASE CreateRoleBindings \/ DeleteRoleBindings \/ CreateCallbackServices \/
            DeleteCallbackServices \/ FinalizeRoleBindings \/ FinalizeCallbackServices
  BY <1>9 DEF CreateRoleBindings, CreateLoop, Step, Stay, Return, CreateOrUpdate,
    AlreadyExists, Put, crVars, objVars, DeleteRoleBindings, DeleteLoop, Delete,
    CreateCallbackServices, DeleteCallbackServices, FinalizeRoleBindings,
    FinalizeCallbackServices
<1>10. CASE ReconcileClusterRoleBinding \/ ReconcileConsoleLink \/
            FinalizeClusterRoleBinding \/ FinalizeOpenShift
  BY <1>10 DEF ReconcileClusterRoleBinding, Step, Stay, Goto, Return, CreateOrUpdate,
    AlreadyExists, Put, crVars, objVars, ReconcileConsoleLink, FinalizeClusterRoleBinding,
    Delete, FinalizeOpenShift
<1>11. CASE CopyCASecret
  <2>1. PICK ns \in todo :
          \/ /\ IF ns = InstallNamespace THEN UNCHANGED objVars
                                         ELSE CreateOrUpdate("CASecret", ns)
             /\ pc' = "agentSecret" /\ cur' = ns /\ todo' = todo \ {ns}
             /\ Stay /\ UNCHANGED unready
          \/ ns # InstallNamespace /\ AlreadyExists("CASecret", ns) /\ Return(TRUE)
    BY <1>11 DEF CopyCASecret
  <2>2. CASE Return(TRUE)
    BY <2>2, ReturnServed
  <2>3. CASE /\ IF ns = InstallNamespace THEN UNCHANGED objVars
                                         ELSE CreateOrUpdate("CASecret", ns)
             /\ pc' = "agentSecret" /\ cur' = ns /\ todo' = todo \ {ns}
             /\ Stay /\ UNCHANGED unready
    <3>1. /\ \A j \in TargetKinds : obj[j] \subseteq obj'[j]
          /\ pending \subseteq pending' /\ UNCHANGED <<mem, queued>>
      BY <2>3, CreateOrUpdateKeeps DEF Stay, objVars
    <3>2. ns # InstallNamespace => ns \in obj'["CASecret"] \/ "CASecret" \in pending'
      BY <2>3, CreateOrUpdateKeeps
    <3>3. ASSUME NEW j \in TargetKinds PROVE
            Served(j)' \subseteq Served(j) \union (IF j = "CASecret" THEN {ns} \ {InstallNamespace} ELSE {})
      BY <1>11, <2>3, <3>1, ConstantsAssumption DEF CopyCASecret, Step
    <3>4. unready' => pc' \in {"caSecret", "agentSecret", "waiting"}
      BY <2>3
    <3> QED BY <3>1, <3>2, <3>3, <3>4
  <2> QED BY <2>1, <2>2, <2>3
<1>12. CASE ReconcileAgentCertificate
  <2>1. CASE Return(TRUE)
    BY <2>1, ReturnServed
  <2>2. CASE /\ unready' = (unready \/ cur \notin issued)
             /\ IF cur \in issued /\ cur # InstallNamespace
                THEN CreateOrUpdate("AgentSecret", cur) ELSE UNCHANGED objVars
             /\ pc' = "caSecret" /\ cur' = None /\ Stay /\ UNCHANGED todo
    <3>1. /\ \A j \in TargetKinds : obj[j] \subseteq obj'[j]
          /\ pending \subseteq pending' /\ UNCHANGED <<mem, queued>>
      BY <2>2, CreateOrUpdateKeeps DEF Stay, objVars
    <3>2. ~unready' /\ cur # InstallNamespace =>
            cur \in obj'["AgentSecret"] \/ "AgentSecret" \in pending'
      BY <2>2, CreateOrUpdateKeeps
    <3>3. ASSUME NEW j \in TargetKinds PROVE
            Served(j)' \subseteq Served(j) \union
              (IF j = "AgentSecret" /\ ~unready' THEN {cur} \ {InstallNamespace} ELSE {})
      BY <1>12, <2>2, <3>1 DEF ReconcileAgentCertificate
    <3>4. unready' => pc' \in {"caSecret", "agentSecret", "waiting"}
      BY <2>2
    <3> QED BY <3>1, <3>2, <3>3, <3>4
  <2> QED BY <1>12, <2>1, <2>2 DEF ReconcileAgentCertificate
<1>13. CASE DeleteCASecret
  BY <1>13 DEF DeleteCASecret, Step, Stay, Delete, crVars, objVars
<1>14. CASE DeleteAgentSecret
  BY <1>14 DEF DeleteAgentSecret, Step, Stay, Delete, crVars, objVars
<1>15. CASE DeleteAgentCert
  BY <1>15 DEF DeleteAgentCert, Stay, crVars, objVars
<1>16. CASE FinalizeCASecret
  BY <1>16 DEF FinalizeCASecret, Step, Stay, Delete, crVars, objVars
<1>17. CASE FinalizeAgentSecret
  BY <1>17 DEF FinalizeAgentSecret, Step, Stay, Delete, crVars, objVars
<1>18. CASE SetupTLS
  BY <1>18 DEF SetupTLS, Goto, Stay, crVars, objVars, LoopOver
<1>19. CASE ReconcileCoreService
  BY <1>19 DEF ReconcileCoreService, Step, Stay, Goto, crVars, objVars, LoopOver
<1>20. CASE LoopDone
  <2>1. UNCHANGED <<mem, queued, cur, unready, obj, pending>>
    BY <1>20 DEF LoopDone, Stay, objVars
  <2>2. pc' = AfterLoop(pc) /\ todo' = LoopOver(AfterLoop(pc)) /\ todo = {} /\ pc \in Loops
    BY <1>20, SMTT(30) DEF LoopDone, Goto
  <2>3. ASSUME NEW j \in TargetKinds PROVE Served(j)' \subseteq Served(j)
    BY <2>1, <2>2, ConstantsAssumption DEF AfterLoop, Loops, LoopOver
  <2>4. unready' => pc' \in {"caSecret", "agentSecret", "waiting"}
    BY <2>1, <2>2 DEF AfterLoop, Loops
  <2> QED BY <2>1, <2>3, <2>4
<1>21. CASE Reconcile
  BY <1>21 DEF Reconcile, localVars, crVars, objVars
<1>22. CASE RemoveFinalizer
  BY <1>22 DEF RemoveFinalizer, Conflict, Return, crVars, objVars
<1>23. CASE SyncCR \/ OwnedObjectEvent
  BY <1>23 DEF SyncCR, localVars, objVars, OwnedObjectEvent, crVars
<1>24. ASSUME NEW k \in Kinds, SyncObjects(k) PROVE ServedInv'
  <2>1. queued' = (queued \/ k \in TargetKinds) /\ UNCHANGED <<pc, mem, todo, cur, unready, obj>>
    BY <1>24 DEF SyncObjects, localVars
  <2>2. \A j \in TargetKinds : Served(j)' = Served(j)
    BY <2>1
  <2>3. ASSUME NEW j \in TargetKinds, j \in pending PROVE j \in pending' \/ k \in TargetKinds
    BY <1>24, <2>3 DEF SyncObjects, Informer
  <2> QED BY <2>1, <2>2, <2>3
<1>25. ASSUME NEW c \in CertNames, IssueCertificate(c) PROVE ServedInv'
  BY <1>25 DEF IssueCertificate, crVars, localVars, objVars
<1>26. ASSUME NEW s \in Specs, NEW tls \in CertManagerSettings, CreateCR(s, tls) PROVE ServedInv'
  BY <1>26 DEF CreateCR, Overwrite, NewCR, NoCR, objVars
<1>27. ASSUME NEW s \in Specs, NEW tls \in CertManagerSettings, EditCR(s, tls) PROVE ServedInv'
  BY <1>27 DEF EditCR, Overwrite, objVars
<1>28. CASE DeleteCR
  BY <1>28 DEF DeleteCR, Overwrite, NoCR, objVars
<1>29. ASSUME NEW k \in TargetKinds, NEW ns \in Namespaces, Tamper(k, ns) PROVE ServedInv'
  BY <1>29 DEF Tamper, Delete, crVars, localVars, objVars
<1>30. CASE IngressNotReady \/ CallFails
  BY <1>30 DEF IngressNotReady, Return, crVars, objVars, CallFails
<1>31. CASE Restart
  BY <1>31 DEF Restart
<1>32. CASE UNCHANGED vars
  BY <1>32 DEF vars, crVars, localVars, objVars, certVars, bounds
<1> QED
  BY <1>1, <1>2, <1>3, <1>4, <1>5, <1>6, <1>7, <1>8, <1>9, <1>10, <1>11, <1>12, <1>13,
     <1>14, <1>15, <1>16, <1>17, <1>18, <1>19, <1>20, <1>21, <1>22, <1>23, <1>24, <1>25,
     <1>26, <1>27, <1>28, <1>29, <1>30, <1>31, <1>32 DEF Next, Worker, Environment

\* A reconcile that ended without a requeue has left nothing undone.
LEMMA IdleStep ==
  ASSUME TypeOK, CRCoherent, Stage, ServedInv, IdleInv, [Next]_vars PROVE IdleInv'
<1> USE DEF TypeOK, CRType, CRs, ObjType, CRCoherent, Stage, IdleInv, Needed, TargetKinds,
    ClusterKinds, Kinds
<1>1. CASE AddFinalizer \/ ReconcileSecrets \/ TLSDisabled \/ TLSReady \/ UpdateStatus
  BY <1>1 DEF AddFinalizer, WriteCR, Conflict, Return, Goto, crVars, objVars,
    ReconcileSecrets, TLSDisabled, TLSReady, UpdateStatus
<1>2. CASE ReconcileWorkloads \/ UpdateConditions
  BY <1>2, ZenonT(60) DEF ReconcileWorkloads, WriteConditions, Conflict, Return, Goto, Stay, crVars,
    objVars, UpdateConditions, ServedInv, Served, AfterServices, AfterSecrets, AfterTLS,
    TrustedLabels
<1>3. CASE CertManagerMissing \/ CertsNotReady
  BY <1>3 DEF CertManagerMissing, WriteAndReturn, Return, objVars, CertsNotReady
<1>4. CASE CreateRoleBindings \/ DeleteRoleBindings \/ CreateCallbackServices \/
            DeleteCallbackServices \/ FinalizeRoleBindings \/ FinalizeCallbackServices
  BY <1>4 DEF CreateRoleBindings, CreateLoop, Step, Stay, Return, CreateOrUpdate,
    AlreadyExists, Put, crVars, objVars, DeleteRoleBindings, DeleteLoop, Delete,
    CreateCallbackServices, DeleteCallbackServices, FinalizeRoleBindings,
    FinalizeCallbackServices
<1>5. CASE ReconcileClusterRoleBinding \/ ReconcileConsoleLink \/ FinalizeClusterRoleBinding
            \/ FinalizeOpenShift
  BY <1>5 DEF ReconcileClusterRoleBinding, Step, Stay, Goto, Return, CreateOrUpdate,
    AlreadyExists, Put, crVars, objVars, ReconcileConsoleLink, FinalizeClusterRoleBinding,
    Delete, FinalizeOpenShift
<1>6. CASE CopyCASecret \/ ReconcileAgentCertificate \/ DeleteCASecret \/ DeleteAgentSecret
            \/ DeleteAgentCert \/ FinalizeCASecret \/ FinalizeAgentSecret
  BY <1>6 DEF CopyCASecret, Step, Stay, Return, CreateOrUpdate, AlreadyExists, Put, crVars,
    objVars, ReconcileAgentCertificate, DeleteCASecret, Delete, DeleteAgentSecret,
    DeleteAgentCert, FinalizeCASecret, FinalizeAgentSecret
<1>7. CASE SetupTLS \/ ReconcileCoreService
  BY <1>7 DEF SetupTLS, Goto, Stay, crVars, objVars, ReconcileCoreService, Step
<1>8. CASE LoopDone
  BY <1>8 DEF LoopDone, Stay, Goto, crVars, objVars, AfterLoop, Loops
<1>9. CASE Reconcile
  BY <1>9 DEF Reconcile, localVars, crVars, objVars
<1>10. CASE RemoveFinalizer
  BY <1>10 DEF RemoveFinalizer, Conflict, Return, crVars, objVars
<1>11. CASE SyncCR \/ OwnedObjectEvent
  BY <1>11 DEF SyncCR, localVars, objVars, OwnedObjectEvent, crVars
<1>12. ASSUME NEW k \in Kinds, SyncObjects(k) PROVE IdleInv'
  BY <1>12 DEF SyncObjects, crVars, localVars, Informer
<1>13. ASSUME NEW c \in CertNames, IssueCertificate(c) PROVE IdleInv'
  BY <1>13 DEF IssueCertificate, crVars, localVars, objVars
<1>14. ASSUME NEW s \in Specs, NEW tls \in CertManagerSettings, CreateCR(s, tls) PROVE IdleInv'
  BY <1>14 DEF CreateCR, Overwrite, NewCR, NoCR, objVars
<1>15. ASSUME NEW s \in Specs, NEW tls \in CertManagerSettings, EditCR(s, tls) PROVE IdleInv'
  BY <1>15 DEF EditCR, Overwrite, objVars
<1>16. CASE DeleteCR
  BY <1>16 DEF DeleteCR, Overwrite, NoCR, objVars
<1>17. ASSUME NEW k \in TargetKinds, NEW ns \in Namespaces, Tamper(k, ns) PROVE IdleInv'
  BY <1>17 DEF Tamper, Delete, crVars, localVars, objVars
<1>18. CASE IngressNotReady \/ CallFails
  BY <1>18 DEF IngressNotReady, Return, crVars, objVars, CallFails
<1>19. CASE Restart
  BY <1>19 DEF Restart
<1>20. CASE UNCHANGED vars
  BY <1>20 DEF vars, crVars, localVars, objVars, certVars, bounds
<1> QED
  BY <1>1, <1>2, <1>3, <1>4, <1>5, <1>6, <1>7, <1>8, <1>9, <1>10, <1>11, <1>12, <1>13,
     <1>14, <1>15, <1>16, <1>17, <1>18, <1>19, <1>20 DEF Next, Worker, Environment

-----------------------------------------------------------------------------
(* The invariant and the safety properties.                                *)

\* The inductive invariant holds initially.
LEMMA InvInit == Init => IInv
<1> SUFFICES ASSUME Init PROVE IInv
  OBVIOUS
<1>1. CRCoherent /\ ObjCoherent /\ Stage
  BY DEF Init, CRCoherent, ObjCoherent, Stage, NoCR, TrustedLabels
<1>2. ClusterInv /\ IdleInv
  BY DEF Init, ClusterInv, ClusterObjectsGuarded, IdleInv, ClusterKinds, Kinds, FinalizeLabels, NoCR
<1>3. ServedInv
  BY DEF Init, ServedInv, Served, TargetKinds, TrustedLabels, AfterServices, AfterSecrets, AfterTLS
<1>4. ClearedInv
  BY DEF Init, ClearedInv, Cleared, FinalizeLabels
<1> QED BY <1>1, <1>2, <1>3, <1>4, TypeInit DEF IInv

\* The inductive invariant survives every step.
LEMMA InvStep == IInv /\ [Next]_vars => IInv'
  BY TypeStep, CRCoherentStep, ObjCoherentStep, StageStep, ClusterStep, ServedStep, IdleStep,
     ClearedStep DEF IInv

\* The inductive invariant holds in every reachable state.
THEOREM Invariance == Spec => []IInv
  BY InvInit, InvStep, PTL DEF Spec

\* The ClusterRoleBinding and the ConsoleLink, which no owner reference cleans up, exist
\* only while the CR exists and carries the finalizer (createOrUpdateClusterRoleBinding,
\* finalizeCryostat): for every set of namespaces and any number of edits and failures.
THEOREM Guarded == Spec => []ClusterObjectsGuarded
<1>1. IInv => ClusterObjectsGuarded
  BY DEF IInv, ClusterInv
<1> QED BY <1>1, Invariance, PTL

\* When the operator has nothing left to do for a live CR, every requested namespace has
\* its objects and status lists the requested namespaces (reconcileCryostat with
\* watchTargetNamespaces, although it reads stale caches).
THEOREM NoWakeupLost == Spec => []NoLostWakeup
<1>1. IInv => NoLostWakeup
  <2> SUFFICES ASSUME IInv, Quiescent, cr.phase = "live" PROVE Converged
    BY DEF NoLostWakeup
  <2>1. \A ns \in cr.spec : Needed(cr, ns) \subseteq TargetKinds
    BY DEF Needed, TargetKinds
  <2> QED BY <2>1 DEF IInv, IdleInv, Quiescent, Converged
<1> QED BY <1>1, Invariance, PTL
\* The actions that change the CR on the API server.
LEMMA CRWriters ==
  ASSUME [Next]_vars, cr' # cr
  PROVE  \/ AddFinalizer \/ ReconcileSecrets \/ TLSDisabled \/ TLSReady \/ UpdateStatus
         \/ CertManagerMissing \/ CertsNotReady \/ RemoveFinalizer \/ DeleteCR
         \/ \E s \in Specs, tls \in CertManagerSettings : CreateCR(s, tls) \/ EditCR(s, tls)
<1>1. ASSUME CreateRoleBindings \/ DeleteRoleBindings \/ CreateCallbackServices
             \/ DeleteCallbackServices \/ FinalizeRoleBindings \/ FinalizeCallbackServices
             \/ ReconcileClusterRoleBinding \/ ReconcileConsoleLink
             \/ FinalizeClusterRoleBinding \/ FinalizeOpenShift \/ ReconcileCoreService
             \/ CopyCASecret \/ DeleteCASecret \/ DeleteAgentSecret \/ FinalizeCASecret
             \/ FinalizeAgentSecret
      PROVE  cr' = cr
  BY <1>1 DEF CreateRoleBindings, DeleteRoleBindings, CreateCallbackServices,
    DeleteCallbackServices, FinalizeRoleBindings, FinalizeCallbackServices,
    ReconcileClusterRoleBinding, ReconcileConsoleLink, FinalizeClusterRoleBinding,
    FinalizeOpenShift, ReconcileCoreService, CopyCASecret, DeleteCASecret, DeleteAgentSecret,
    FinalizeCASecret, FinalizeAgentSecret, CreateLoop, DeleteLoop, Step, crVars
<1>2. ASSUME Reconcile \/ LoopDone \/ SetupTLS \/ ReconcileAgentCertificate \/ DeleteAgentCert
             \/ ReconcileWorkloads \/ UpdateConditions
      PROVE  cr' = cr
  BY <1>2 DEF Reconcile, LoopDone, SetupTLS, ReconcileAgentCertificate, DeleteAgentCert,
    ReconcileWorkloads, UpdateConditions, WriteConditions, Conflict, crVars
<1>3. ASSUME \/ SyncCR \/ OwnedObjectEvent \/ IngressNotReady \/ CallFails \/ Restart
             \/ \E k \in Kinds : SyncObjects(k)
             \/ \E c \in CertNames : IssueCertificate(c)
             \/ \E k \in TargetKinds, ns \in Namespaces : Tamper(k, ns)
      PROVE  cr' = cr
  BY <1>3 DEF SyncCR, OwnedObjectEvent, IngressNotReady, CallFails, Restart, SyncObjects,
    IssueCertificate, Tamper, crVars
<1>4. ASSUME UNCHANGED vars PROVE cr' = cr
  BY <1>4 DEF vars, crVars
<1> QED
  BY <1>1, <1>2, <1>3, <1>4 DEF Next, Worker, Environment

\* A step that makes a CR with the finalizer disappear finds its namespaces cleaned up.
LEMMA FinalizationStep == IInv /\ [Next]_vars => CleanFinalization
<1> SUFFICES ASSUME IInv, [Next]_vars, cr.finalizer, cr'.phase = "absent"
             PROVE  /\ \A ns \in cr.spec : \A k \in Needed(cr, ns) : ns \notin obj[k]
                    /\ \A k \in ClusterKinds : obj[k] = {}
  BY DEF CleanFinalization
<1> USE DEF IInv, TypeOK, CRType, CRs
<1>1. cr.phase # "absent"
  BY DEF Stage, NoCR
<1>2. RemoveFinalizer /\ memFresh
  <2>1. CASE AddFinalizer \/ ReconcileSecrets \/ TLSDisabled \/ TLSReady \/ UpdateStatus
    <3>1. CASE AddFinalizer \/ ReconcileSecrets
      BY <1>1, <3>1 DEF AddFinalizer, ReconcileSecrets, WriteCR, Conflict, crVars, CRCoherent
    <3>2. CASE TLSDisabled \/ TLSReady
      BY <1>1, <3>2 DEF TLSDisabled, TLSReady, WriteCR, Conflict, crVars, CRCoherent
    <3>3. CASE UpdateStatus
      BY <1>1, <3>3 DEF UpdateStatus, WriteCR, Conflict, crVars, CRCoherent
    <3> QED BY <2>1, <3>1, <3>2, <3>3
  <2>2. CASE CertManagerMissing \/ CertsNotReady
    BY <1>1, <2>2 DEF CertManagerMissing, CertsNotReady, WriteAndReturn, CRCoherent
  <2>3. ASSUME NEW s \in Specs, NEW tls \in CertManagerSettings,
               CreateCR(s, tls) \/ EditCR(s, tls)
        PROVE  FALSE
    BY <1>1, <2>3 DEF CreateCR, EditCR, Overwrite
  <2>4. CASE DeleteCR
    BY <2>4 DEF DeleteCR, Overwrite
  <2>5. CASE RemoveFinalizer
    BY <1>1, <2>5 DEF RemoveFinalizer, Conflict, crVars
  <2> QED BY <1>1, <2>1, <2>2, <2>3, <2>4, <2>5, CRWriters
<1>3. mem = cr /\ pc = "removeFinalizer"
  BY <1>2 DEF CRCoherent, RemoveFinalizer
<1>4. ASSUME NEW ns \in cr.spec, NEW k \in Needed(cr, ns) PROVE ns \notin obj[k]
  BY <1>3 DEF ClearedInv, Cleared, Needed, TargetKinds, FinalizeLabels
<1>5. ASSUME NEW k \in ClusterKinds PROVE obj[k] = {}
  BY <1>3 DEF ClusterInv, ClusterKinds, FinalizeLabels
<1> QED BY <1>4, <1>5

\* A step that changes status.targetNamespaces sets it to the server's spec, with every
\* namespace served.
LEMMA StatusStep == IInv /\ [Next]_vars => BackedStatusWrite
<1> SUFFICES ASSUME IInv, [Next]_vars, cr'.phase # "absent", cr'.status # cr.status
             PROVE  /\ cr'.status = cr.spec
                    /\ \A ns \in cr.spec : \A k \in Needed(cr, ns) :
                         ns \in obj[k] \/ k \in pending \/ queued
  BY DEF BackedStatusWrite
<1> USE DEF IInv, TypeOK, CRType, CRs
<1>1. UpdateStatus /\ memFresh
  <2>1. CASE AddFinalizer \/ ReconcileSecrets \/ TLSDisabled \/ TLSReady
    <3>1. CASE AddFinalizer
      BY <3>1 DEF AddFinalizer, WriteCR, Conflict, crVars, CRCoherent
    <3>2. CASE ReconcileSecrets
      BY <3>2, ZenonT(60) DEF ReconcileSecrets, WriteCR, Conflict, crVars, CRCoherent
    <3>3. CASE TLSDisabled
      BY <3>3, ZenonT(60) DEF TLSDisabled, WriteCR, Conflict, crVars, CRCoherent
    <3>4. CASE TLSReady
      BY <3>4, ZenonT(60) DEF TLSReady, WriteCR, Conflict, crVars, CRCoherent
    <3> QED BY <2>1, <3>1, <3>2, <3>3, <3>4
  <2>2. CASE CertManagerMissing \/ CertsNotReady
    BY <2>2 DEF CertManagerMissing, CertsNotReady, WriteAndReturn, CRCoherent
  <2>3. ASSUME NEW s \in Specs, NEW tls \in CertManagerSettings,
               CreateCR(s, tls) \/ EditCR(s, tls)
        PROVE  FALSE
    <3>1. NewCR(s, tls).status = {} /\ NoCR.status = {}
      BY DEF NewCR, NoCR
    <3> QED BY <2>3, <3>1 DEF CreateCR, EditCR, Overwrite, Stage
  <2>4. CASE DeleteCR \/ RemoveFinalizer
    <3>1. NoCR.phase = "absent"
      BY DEF NoCR
    <3> QED BY <2>4, <3>1 DEF DeleteCR, Overwrite, RemoveFinalizer, Conflict, crVars
  <2>5. CASE UpdateStatus
    BY <2>5 DEF UpdateStatus, WriteCR, Conflict, crVars
  <2> QED BY <2>1, <2>2, <2>3, <2>4, <2>5, CRWriters
<1>2. mem = cr /\ pc = "status" /\ cr'.status = mem.spec
  BY <1>1 DEF CRCoherent, UpdateStatus, WriteCR, Conflict
<1>3. ASSUME NEW ns \in cr.spec, NEW k \in Needed(cr, ns)
      PROVE  ns \in obj[k] \/ k \in pending \/ queued
  <2>1. k \in TargetKinds /\ ns \in Served(k)
    BY <1>2 DEF Needed, TargetKinds, Served, TrustedLabels, AfterServices, AfterSecrets,
                AfterTLS, ServedInv
  <2> QED BY <2>1 DEF ServedInv
<1> QED BY <1>2, <1>3

\* The finalizer comes off only after the objects of every requested namespace and of
\* the cluster are gone (finalizeCryostat, RemoveFinalizer).
THEOREM FinalizationIsClean == Spec => FinalizedClean
  BY Invariance, FinalizationStep, PTL DEF Spec, FinalizedClean

\* status.targetNamespaces is only ever set to the spec the server holds, with every
\* object of every listed namespace there or about to be repaired (reconcileCryostat).
THEOREM StatusIsBacked == Spec => StatusBacked
  BY Invariance, StatusStep, PTL DEF Spec, StatusBacked
=============================================================================
