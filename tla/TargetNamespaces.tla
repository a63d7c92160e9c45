------------------------- MODULE TargetNamespaces -------------------------
(***************************************************************************)
(* The Cryostat reconciler as the owner of what one Cryostat custom        *)
(* resource (CR) leaves in its target namespaces and at cluster scope.     *)
(*                                                                         *)
(* One CR name is followed through any number of incarnations.  The API    *)
(* server holds the CR (cr) and the objects without an owner reference     *)
(* (obj): RoleBindings, copies of the CA and agent secrets and callback    *)
(* Services in target namespaces, and the cluster-scoped                   *)
(* ClusterRoleBinding and ConsoleLink.  The operator reads all of them     *)
(* through informer caches (cache, seen) that lag behind the server, and   *)
(* writes straight to the server.  A reconcile is a sequence of API calls, *)
(* one action each; users, failures and restarts come between any two.     *)
(***************************************************************************)
EXTENDS Naturals, FiniteSets

CONSTANTS Namespaces,            \* namespaces of the cluster
          InstallNamespace,      \* the namespace of the CR
          IsOpenShift,           \* ReconcilerConfig.IsOpenShift
          CertManagerInstalled,  \* outcome of certManagerAvailable
          None,                  \* "no namespace"
          Specs,                 \* lists of target namespaces users ask for
          CertManagerSettings,   \* values users give to IsCertManagerEnabled
          MaxEdits,              \* bound: edits by users of the cluster
          MaxFaults              \* bound: failed calls and operator restarts

ASSUME ConstantsAssumption ==
  /\ InstallNamespace \in Namespaces
  /\ IsOpenShift \in BOOLEAN
  /\ CertManagerInstalled \in BOOLEAN
  /\ None \notin Namespaces
  /\ Specs \subseteq SUBSET Namespaces
  /\ CertManagerSettings \subseteq BOOLEAN
  /\ MaxEdits \in Nat
  /\ MaxFaults \in Nat

VARIABLES
  cr,          \* the CR on the API server
  cache,       \* the CR in the informer cache
  cacheFresh,  \* the cached resourceVersion is the server's
  queued,      \* the CR's key is in the controller's work queue
  pc,          \* the next call of the running reconcile, or "idle"
  mem,         \* the CR the running reconcile holds in memory
  memFresh,    \* the resourceVersion of mem is the server's
  todo,        \* namespaces the running loop has still to visit
  cur,         \* namespace being visited, where a visit has several calls
  unready,     \* some certificate fetched so far was not ready
  obj,         \* kind -> places that have the object, on the server
  seen,        \* the same in the informer caches
  pending,     \* kinds with watch events not yet delivered
  certs,       \* cert-manager Certificates in the install namespace
  issued,      \* those that are ready
  edits, faults

crVars    == <<cr, cache, cacheFresh>>
localVars == <<pc, mem, memFresh, todo, cur, unready>>
objVars   == <<obj, seen, pending>>
certVars  == <<certs, issued>>
bounds    == <<edits, faults>>
vars      == <<crVars, queued, localVars, objVars, certVars, bounds>>

TargetKinds  == {"RoleBinding", "CASecret", "AgentSecret", "CallbackService"}
ClusterKinds == {"ClusterRoleBinding", "ConsoleLink"}
Kinds        == TargetKinds \union ClusterKinds
Places       == Namespaces \union {None}  \* None: cluster scope

\* Agent certificates are named by their target namespace; "ca" and
\* "components" stand for the CA and for the certificates it signs for
\* Cryostat's own deployments.
CertNames == Namespaces \union {"ca", "components"}

CRs == [phase       : {"absent", "live", "deleting"},
        finalizer   : BOOLEAN,
        spec        : SUBSET Namespaces,
        certManager : BOOLEAN,
        status      : SUBSET Namespaces,
        secretNames : BOOLEAN,
        tlsCondition: {"Unset", "Waiting", "Ready", "Disabled", "Unavailable"}]

NoCR == [phase |-> "absent", finalizer |-> FALSE, spec |-> {},
         certManager |-> FALSE, status |-> {}, secretNames |-> FALSE,
         tlsCondition |-> "Unset"]

NewCR(s, tls) == [NoCR EXCEPT !.phase = "live", !.spec = s, !.certManager = tls]

Init ==
  /\ cr = NoCR /\ cache = NoCR /\ cacheFresh = TRUE
  /\ queued = FALSE
  /\ pc = "idle" /\ mem = NoCR /\ memFresh = FALSE
  /\ todo = {} /\ cur = None /\ unready = FALSE
  /\ obj = [k \in Kinds |-> {}] /\ seen = obj /\ pending = {}
  /\ certs = {} /\ issued = {}
  /\ edits = 0 /\ faults = 0

-----------------------------------------------------------------------------
(* Calls to the API server.                                                *)

\* Mutant: nothing asks for a retry.
ReturnForgets(requeue) ==
  /\ pc' = "idle" /\ mem' = NoCR /\ memFresh' = FALSE
  /\ todo' = {} /\ cur' = None /\ unready' = FALSE
  /\ UNCHANGED queued

\* The end of a reconcile.  A requested requeue (after an error, or after
\* RequeueAfter) puts the key back in the queue; an event that arrived
\* meanwhile has already put it there.
Return(requeue) ==
  /\ pc' = "idle" /\ mem' = NoCR /\ memFresh' = FALSE
  /\ todo' = {} /\ cur' = None /\ unready' = FALSE
  /\ queued' = (queued \/ requeue)

\* The namespaces toDelete returns: configured by an earlier reconcile and no
\* longer requested.
ToDelete(c) == c.status \ c.spec

\* Mutant: finalizers visit the namespaces of status instead of spec.
LoopOverStatus(l) ==
  CASE l \in {"roleBindings", "caSecret", "callbackServices"} -> mem.spec
    [] l \in {"oldRoleBindings", "oldCASecret", "oldServices"} -> ToDelete(mem)
    [] l \in {"finRoleBindings", "finServices"} -> mem.status
    [] l = "finCASecret" -> mem.status \ {InstallNamespace}
    [] OTHER -> {}

\* The namespaces the loop at a label visits.
LoopOver(l) ==
  CASE l \in {"roleBindings", "caSecret", "callbackServices", "finRoleBindings",
              "finServices"} -> mem.spec
    [] l \in {"oldRoleBindings", "oldCASecret", "oldServices"} -> ToDelete(mem)
    [] l = "finCASecret" -> mem.spec \ {InstallNamespace}
    [] OTHER -> {}

Goto(l) == pc' = l /\ todo' = LoopOver(l)

\* A write of the in-memory CR by Update or Status().Update.  The server
\* compares resource versions; a write that changes nothing gets no new one.
\* On success the response replaces the CR in memory.
WriteCR(c) ==
  /\ memFresh
  /\ cr' = c /\ mem' = c
  /\ cacheFresh' = (cacheFresh /\ c = cr)
  /\ UNCHANGED <<cache, memFresh>>

\* The same write refused: the server's copy has moved on, or is gone.
Conflict == ~memFresh /\ Return(TRUE) /\ UNCHANGED crVars

Put(k, p) ==
  /\ obj' = [obj EXCEPT ![k] = @ \union {p}]
  /\ pending' = pending \union {k}
  /\ UNCHANGED seen

\* controllerutil.CreateOrUpdate reads the cache first: an object found there
\* with the desired content is left alone, without a call.
CreateOrUpdate(k, p) ==
  IF p \in seen[k] THEN UNCHANGED objVars ELSE p \notin obj[k] /\ Put(k, p)

\* The create call of CreateOrUpdate when the object exists and is not yet cached.
AlreadyExists(k, p) == p \notin seen[k] /\ p \in obj[k] /\ UNCHANGED objVars

\* client.Delete: NotFound counts as success.
Delete(k, p) ==
  IF p \in obj[k]
  THEN /\ obj' = [obj EXCEPT ![k] = @ \ {p}]
       /\ pending' = pending \union {k}
       /\ UNCHANGED seen
  ELSE UNCHANGED objVars

-----------------------------------------------------------------------------
(* The reconcile of a live CR: Reconcile, then reconcileCryostat.          *)

\* One call of the running reconcile that leaves the CR alone.
Step(l) == pc = l /\ UNCHANGED <<crVars, certVars, bounds>>
Stay    == UNCHANGED <<queued, mem, memFresh>>

\* Reconcile reads the CR from the cache.  Nothing is left to do for a CR
\* that is gone, or that is being deleted without the operator's finalizer.
Reconcile ==
  /\ pc = "idle" /\ queued
  /\ queued' = FALSE
  /\ IF cache.phase = "absent" \/ (cache.phase = "deleting" /\ ~cache.finalizer)
     THEN UNCHANGED localVars
     ELSE /\ mem' = cache /\ memFresh' = cacheFresh
          /\ pc' = IF cache.phase = "deleting" THEN "finClusterRoleBinding"
                   ELSE IF cache.finalizer THEN "secrets" ELSE "addFinalizer"
          /\ UNCHANGED <<todo, cur, unready>>
  /\ UNCHANGED <<crVars, objVars, certVars, bounds>>

AddFinalizer ==
  /\ pc = "addFinalizer"
  /\ \/ /\ WriteCR([mem EXCEPT !.finalizer = TRUE])
        /\ Goto("secrets")
        /\ UNCHANGED <<queued, cur, unready>>
     \/ Conflict
  /\ UNCHANGED <<objVars, certVars, bounds>>

\* The lock config map and reconcileSecrets: objects the CR owns, then a
\* Status().Update on every pass, so a reconcile of a stale CR ends here.
ReconcileSecrets ==
  /\ pc = "secrets"
  /\ \/ /\ WriteCR([mem EXCEPT !.secretNames = TRUE])
        /\ Goto("roleBindings")
        /\ UNCHANGED <<queued, cur, unready>>
     \/ Conflict
  /\ UNCHANGED <<objVars, certVars, bounds>>

\* A loop that makes one CreateOrUpdate per namespace.
CreateLoop(l, k) ==
  /\ Step(l)
  /\ \E ns \in todo :
       \/ /\ CreateOrUpdate(k, ns)
          /\ todo' = todo \ {ns}
          /\ Stay /\ UNCHANGED <<pc, cur, unready>>
       \/ AlreadyExists(k, ns) /\ Return(TRUE)

\* A loop that makes one Delete per namespace.
DeleteLoop(l, k) ==
  /\ Step(l)
  /\ \E ns \in todo :
       /\ Delete(k, ns)
       /\ todo' = todo \ {ns}
  /\ Stay /\ UNCHANGED <<pc, cur, unready>>

\* What follows a loop once it has visited every namespace.
AfterLoop(l) ==
  CASE l = "roleBindings"     -> "oldRoleBindings"
    [] l = "oldRoleBindings"  -> "clusterRoleBinding"
    [] l = "caSecret"         -> IF unready THEN "waiting" ELSE "oldCASecret"
    [] l = "oldCASecret"      -> "tlsReady"
    [] l = "callbackServices" -> "oldServices"
    [] l = "oldServices"      -> "workloads"
    [] l = "finRoleBindings"  -> IF IsOpenShift THEN "finConsoleLink" ELSE "finServices"
    [] l = "finServices"      -> IF mem.certManager THEN "finCASecret" ELSE "removeFinalizer"
    [] l = "finCASecret"      -> "removeFinalizer"

Loops == {"roleBindings", "oldRoleBindings", "caSecret", "oldCASecret", "callbackServices",
          "oldServices", "finRoleBindings", "finServices", "finCASecret"}

LoopDone ==
  /\ pc \in Loops /\ todo = {}
  /\ Goto(AfterLoop(pc))
  /\ Stay /\ UNCHANGED <<crVars, cur, unready, objVars, certVars, bounds>>

CreateRoleBindings == CreateLoop("roleBindings", "RoleBinding")
DeleteRoleBindings == DeleteLoop("oldRoleBindings", "RoleBinding")

ReconcileClusterRoleBinding ==
  /\ Step("clusterRoleBinding")
  /\ \/ /\ CreateOrUpdate("ClusterRoleBinding", None)
        /\ Goto("tls")
        /\ Stay /\ UNCHANGED <<cur, unready>>
     \/ AlreadyExists("ClusterRoleBinding", None) /\ Return(TRUE)

-----------------------------------------------------------------------------
(* configureTLS and setupTLS.                                              *)

\* A status write after which the reconcile returns whatever its outcome.
WriteAndReturn(c, requeue) ==
  /\ cr' = IF memFresh THEN c ELSE cr
  /\ cacheFresh' = (cacheFresh /\ cr' = cr)
  /\ Return(requeue)
  /\ UNCHANGED cache

TLSDisabled ==
  /\ pc = "tls" /\ ~mem.certManager
  /\ \/ /\ WriteCR([mem EXCEPT !.tlsCondition = "Disabled"])
        /\ Goto("coreService")
        /\ UNCHANGED <<queued, cur, unready>>
     \/ Conflict
  /\ UNCHANGED <<objVars, certVars, bounds>>

\* Mutant: the missing cert-manager is reported and not looked for again.
CertManagerGivenUp ==
  /\ pc = "tls" /\ mem.certManager /\ ~CertManagerInstalled
  /\ WriteAndReturn([mem EXCEPT !.tlsCondition = "Unavailable"], FALSE)
  /\ UNCHANGED <<objVars, certVars, bounds>>

CertManagerMissing ==
  /\ pc = "tls" /\ mem.certManager /\ ~CertManagerInstalled
  /\ WriteAndReturn([mem EXCEPT !.tlsCondition = "Unavailable"], TRUE)
  /\ UNCHANGED <<objVars, certVars, bounds>>

\* Issuers and certificates are created; a certificate not ready when fetched
\* is remembered, and the CA's secret is needed before going on.
SetupTLS ==
  /\ pc = "tls" /\ mem.certManager /\ CertManagerInstalled
  /\ certs' = certs \union {"ca", "components"}
  /\ unready' = ("components" \notin issued)
  /\ Goto(IF "ca" \in issued THEN "caSecret" ELSE "waiting")
  /\ Stay /\ UNCHANGED <<crVars, cur, issued, objVars, bounds>>

CertsNotReady ==
  /\ pc = "waiting"
  /\ WriteAndReturn([mem EXCEPT !.tlsCondition = "Waiting"], TRUE)
  /\ UNCHANGED <<objVars, certVars, bounds>>

\* The CA secret is copied to the next target namespace, unless that is the
\* install namespace.
CopyCASecret ==
  /\ Step("caSecret")
  /\ \E ns \in todo :
       \/ /\ IF ns = InstallNamespace THEN UNCHANGED objVars
                                      ELSE CreateOrUpdate("CASecret", ns)
          /\ pc' = "agentSecret" /\ cur' = ns /\ todo' = todo \ {ns}
          /\ Stay /\ UNCHANGED unready
       \/ ns # InstallNamespace /\ AlreadyExists("CASecret", ns) /\ Return(TRUE)

\* reconcileAgentCertificate: a certificate that was just created is never
\* ready, so each pass makes at most one of the two writes.
ReconcileAgentCertificate ==
  /\ pc = "agentSecret"
  /\ certs' = certs \union {cur}
  /\ \/ /\ unready' = (unready \/ cur \notin issued)
        /\ IF cur \in issued /\ cur # InstallNamespace
           THEN CreateOrUpdate("AgentSecret", cur) ELSE UNCHANGED objVars
        /\ pc' = "caSecret" /\ cur' = None
        /\ Stay /\ UNCHANGED todo
     \/ /\ cur \in issued /\ cur # InstallNamespace
        /\ AlreadyExists("AgentSecret", cur) /\ Return(TRUE)
  /\ UNCHANGED <<crVars, issued, bounds>>

\* Cleanup of a namespace that is no longer requested: both secret copies,
\* then the certificate and the secret cert-manager keeps for it.  That secret
\* is owned by the certificate, so its own deletion is no separate step here.
DeleteCASecret ==
  /\ Step("oldCASecret")
  /\ \E ns \in todo :
       /\ IF ns = InstallNamespace THEN UNCHANGED objVars ELSE Delete("CASecret", ns)
       /\ pc' = "oldAgentSecret" /\ cur' = ns /\ todo' = todo \ {ns}
  /\ Stay /\ UNCHANGED unready

DeleteAgentSecret ==
  /\ Step("oldAgentSecret")
  /\ IF cur = InstallNamespace THEN UNCHANGED objVars ELSE Delete("AgentSecret", cur)
  /\ pc' = "oldAgentCert"
  /\ Stay /\ UNCHANGED <<todo, cur, unready>>

\* Mutant: the certificate goes and its secret stays.
DeleteAgentCertOnly ==
  /\ pc = "oldAgentCert"
  /\ certs' = certs \ {cur}
  /\ pc' = "oldCASecret" /\ cur' = None
  /\ Stay /\ UNCHANGED <<crVars, todo, unready, objVars, issued, bounds>>

DeleteAgentCert ==
  /\ pc = "oldAgentCert"
  /\ certs' = certs \ {cur} /\ issued' = issued \ {cur}
  /\ pc' = "oldCASecret" /\ cur' = None
  /\ Stay /\ UNCHANGED <<crVars, todo, unready, objVars, bounds>>

TLSReady ==
  /\ pc = "tlsReady"
  /\ \/ /\ WriteCR([mem EXCEPT !.tlsCondition = "Ready"])
        /\ Goto("coreService")
        /\ UNCHANGED <<queued, cur, unready>>
     \/ Conflict
  /\ UNCHANGED <<objVars, certVars, bounds>>

-----------------------------------------------------------------------------
(* The rest of reconcileCryostat.                                          *)

\* Config maps, core Service, Route or Ingress, network policies and agent
\* gateway: owned by the CR.
ReconcileCoreService ==
  /\ Step("coreService")
  /\ Goto("callbackServices")
  /\ Stay /\ UNCHANGED <<cur, unready, objVars>>

CreateCallbackServices == CreateLoop("callbackServices", "CallbackService")
DeleteCallbackServices == DeleteLoop("oldServices", "CallbackService")

\* A status write that changes at most conditions this module does not keep:
\* the server's copy may or may not get a new resourceVersion.
WriteConditions ==
  /\ memFresh
  /\ cacheFresh' \in {cacheFresh, FALSE}
  /\ UNCHANGED <<cr, cache>>

\* Database, storage, reports and main deployments with their conditions.
ReconcileWorkloads ==
  /\ pc = "workloads"
  /\ \/ WriteConditions /\ Goto("status") /\ Stay /\ UNCHANGED <<cur, unready>>
     \/ Conflict
  /\ UNCHANGED <<objVars, certVars, bounds>>

\* Mutant: status is patched without a resourceVersion.
PatchStatus ==
  /\ pc = "status" /\ cr.phase # "absent"
  /\ cr' = [cr EXCEPT !.status = mem.spec] /\ mem' = [mem EXCEPT !.status = mem.spec]
  /\ cacheFresh' = (cacheFresh /\ cr' = cr)
  /\ Goto(IF IsOpenShift THEN "consoleLink" ELSE "conditions")
  /\ UNCHANGED <<cache, memFresh, queued, cur, unready, objVars, certVars, bounds>>

UpdateStatus ==
  /\ pc = "status"
  /\ \/ /\ WriteCR([mem EXCEPT !.status = mem.spec])
        /\ Goto(IF IsOpenShift THEN "consoleLink" ELSE "conditions")
        /\ UNCHANGED <<queued, cur, unready>>
     \/ Conflict
  /\ UNCHANGED <<objVars, certVars, bounds>>

\* On OpenShift a reconcile that gets here knows its Route, so there is a URL to
\* link to.  The origins removed from the cluster's APIServer are left out.
ReconcileConsoleLink ==
  /\ Step("consoleLink")
  /\ \/ /\ CreateOrUpdate("ConsoleLink", None)
        /\ Goto("conditions")
        /\ Stay /\ UNCHANGED <<cur, unready>>
     \/ AlreadyExists("ConsoleLink", None) /\ Return(TRUE)

UpdateConditions ==
  /\ pc = "conditions"
  /\ \/ WriteConditions /\ Return(FALSE)
     \/ Conflict
  /\ UNCHANGED <<objVars, certVars, bounds>>

-----------------------------------------------------------------------------
(* finalizeCryostat.                                                       *)

\* Mutant: the ClusterRoleBinding is deleted only if the cache shows it.
FinalizeCachedClusterRoleBinding ==
  /\ Step("finClusterRoleBinding")
  /\ IF None \in seen["ClusterRoleBinding"] THEN Delete("ClusterRoleBinding", None)
                                            ELSE UNCHANGED objVars
  /\ Goto("finRoleBindings")
  /\ Stay /\ UNCHANGED <<cur, unready>>

FinalizeClusterRoleBinding ==
  /\ Step("finClusterRoleBinding")
  /\ Delete("ClusterRoleBinding", None)
  /\ Goto("finRoleBindings")
  /\ Stay /\ UNCHANGED <<cur, unready>>

FinalizeRoleBindings == DeleteLoop("finRoleBindings", "RoleBinding")

FinalizeOpenShift ==
  /\ Step("finConsoleLink")
  /\ Delete("ConsoleLink", None)
  /\ Goto("finServices")
  /\ Stay /\ UNCHANGED <<cur, unready>>

FinalizeCallbackServices == DeleteLoop("finServices", "CallbackService")

FinalizeCASecret ==
  /\ Step("finCASecret")
  /\ \E ns \in todo :
       /\ Delete("CASecret", ns)
       /\ pc' = "finAgentSecret" /\ cur' = ns /\ todo' = todo \ {ns}
  /\ Stay /\ UNCHANGED unready

FinalizeAgentSecret ==
  /\ Step("finAgentSecret")
  /\ Delete("AgentSecret", cur)
  /\ pc' = "finCASecret" /\ cur' = None
  /\ Stay /\ UNCHANGED <<todo, unready>>

\* Without its last finalizer the CR is gone, and what it owns with it.
RemoveFinalizer ==
  /\ pc = "removeFinalizer"
  /\ \/ /\ memFresh
        /\ cr' = NoCR /\ cacheFresh' = FALSE
        /\ certs' = {} /\ issued' = {}
        /\ Return(FALSE) /\ UNCHANGED cache
     \/ Conflict /\ UNCHANGED certVars
  /\ UNCHANGED <<objVars, bounds>>

-----------------------------------------------------------------------------
(* Informers, cert-manager and owned objects.                              *)

\* Mutant: the watch of the CR ignores the start of its deletion.
SyncLiveCR ==
  /\ ~cacheFresh
  /\ cache' = cr /\ cacheFresh' = TRUE /\ queued' = (queued \/ cr.phase = "live")
  /\ UNCHANGED <<cr, localVars, objVars, certVars, bounds>>

\* The CR's informer catches up and enqueues the CR.
SyncCR ==
  /\ ~cacheFresh
  /\ cache' = cr /\ cacheFresh' = TRUE /\ queued' = TRUE
  /\ UNCHANGED <<cr, localVars, objVars, certVars, bounds>>

\* Both secret copies come from one informer.
Informer(k) == IF k \in {"CASecret", "AgentSecret"} THEN {"CASecret", "AgentSecret"} ELSE {k}

\* Mutant: target namespaces are not watched.
SyncUnwatched(k) ==
  /\ k \in pending
  /\ seen' = [j \in Kinds |-> IF j \in Informer(k) THEN obj[j] ELSE seen[j]]
  /\ pending' = pending \ Informer(k)
  /\ UNCHANGED <<crVars, queued, localVars, obj, certVars, bounds>>

\* Another informer catches up.  Objects in target namespaces carry the labels
\* watchTargetNamespaces maps to the CR; the cluster-scoped ones are not watched.
SyncObjects(k) ==
  /\ k \in pending
  /\ seen' = [j \in Kinds |-> IF j \in Informer(k) THEN obj[j] ELSE seen[j]]
  /\ pending' = pending \ Informer(k)
  /\ queued' = (queued \/ k \in TargetKinds)
  /\ UNCHANGED <<crVars, localVars, obj, certVars, bounds>>

\* cert-manager marks a certificate ready; the Certificate is owned by the CR.
IssueCertificate(c) ==
  /\ c \in certs \ issued
  /\ issued' = issued \union {c}
  /\ queued' = TRUE
  /\ UNCHANGED <<crVars, localVars, objVars, certs, bounds>>

\* An event of some other owned object (a Deployment's status, a Route, ...).
OwnedObjectEvent ==
  /\ cr.phase # "absent" /\ ~queued
  /\ queued' = TRUE
  /\ UNCHANGED <<crVars, localVars, objVars, certVars, bounds>>

-----------------------------------------------------------------------------
(* Users of the cluster.                                                   *)

Edit ==
  /\ edits < MaxEdits /\ edits' = edits + 1
  /\ UNCHANGED faults

\* The CR changes under the feet of cache and reconcile.
Overwrite(c) ==
  /\ c # cr /\ cr' = c
  /\ cacheFresh' = FALSE /\ memFresh' = FALSE
  /\ UNCHANGED <<cache, queued, pc, mem, todo, cur, unready, objVars>>

\* A CR that has no finalizer yet has target namespaces: an empty list would be
\* replaced by the update that adds the finalizer (Admission).
CreateCR(s, tls) ==
  /\ Edit /\ cr.phase = "absent" /\ s # {}
  /\ Overwrite(NewCR(s, tls))
  /\ UNCHANGED certVars

EditCR(s, tls) ==
  /\ Edit /\ cr.phase # "absent" /\ (s # {} \/ cr.finalizer)
  /\ Overwrite([cr EXCEPT !.spec = s, !.certManager = tls])
  /\ UNCHANGED certVars

DeleteCR ==
  /\ Edit /\ cr.phase = "live"
  /\ IF cr.finalizer
     THEN Overwrite([cr EXCEPT !.phase = "deleting"]) /\ UNCHANGED certVars
     ELSE Overwrite(NoCR) /\ certs' = {} /\ issued' = {}

\* Somebody deletes one of the operator's objects in a target namespace.
Tamper(k, ns) ==
  /\ Edit /\ ns \in obj[k]
  /\ Delete(k, ns)
  /\ UNCHANGED <<crVars, queued, localVars, certVars>>

-----------------------------------------------------------------------------
(* Failures.                                                               *)

Fault ==
  /\ faults < MaxFaults /\ faults' = faults + 1
  /\ UNCHANGED edits

\* The Route or Ingress has no address yet: look again in 5 seconds.
IngressNotReady ==
  /\ Fault /\ pc = "coreService"
  /\ Return(TRUE)
  /\ UNCHANGED <<crVars, objVars, certVars>>

\* A call fails and the error is returned: retried with back-off.
CallFails ==
  /\ Fault /\ pc # "idle"
  /\ Return(TRUE)
  /\ UNCHANGED <<crVars, objVars, certVars>>

\* The operator restarts: memory is lost, the caches are listed anew, and the
\* initial list enqueues the CR and the CR of every labelled object.
Restart ==
  /\ Fault
  /\ pc' = "idle" /\ mem' = NoCR /\ memFresh' = FALSE
  /\ todo' = {} /\ cur' = None /\ unready' = FALSE
  /\ cache' = cr /\ cacheFresh' = TRUE
  /\ seen' = obj /\ pending' = {}
  /\ queued' = (cr.phase # "absent" \/ \E k \in TargetKinds : obj[k] # {})
  /\ UNCHANGED <<cr, obj, certVars>>

-----------------------------------------------------------------------------
Worker ==
  \/ Reconcile \/ AddFinalizer \/ ReconcileSecrets \/ LoopDone
  \/ CreateRoleBindings \/ DeleteRoleBindings \/ ReconcileClusterRoleBinding
  \/ TLSDisabled \/ CertManagerMissing \/ SetupTLS \/ CertsNotReady
  \/ CopyCASecret \/ ReconcileAgentCertificate
  \/ DeleteCASecret \/ DeleteAgentSecret \/ DeleteAgentCert \/ TLSReady
  \/ ReconcileCoreService \/ CreateCallbackServices \/ DeleteCallbackServices
  \/ ReconcileWorkloads \/ UpdateStatus \/ ReconcileConsoleLink \/ UpdateConditions
  \/ FinalizeClusterRoleBinding \/ FinalizeRoleBindings \/ FinalizeOpenShift
  \/ FinalizeCallbackServices \/ FinalizeCASecret \/ FinalizeAgentSecret
  \/ RemoveFinalizer

Environment ==
  \/ SyncCR \/ \E k \in Kinds : SyncObjects(k)
  \/ \E c \in CertNames : IssueCertificate(c)
  \/ OwnedObjectEvent
  \/ \E s \in Specs, tls \in CertManagerSettings : CreateCR(s, tls) \/ EditCR(s, tls)
  \/ DeleteCR
  \/ \E k \in TargetKinds, ns \in Namespaces : Tamper(k, ns)
  \/ IngressNotReady \/ CallFails \/ Restart

Next == Worker \/ Environment

Spec == Init /\ [][Next]_vars

\* What the system takes by itself: the controller's worker runs while its
\* queue is not empty, watches deliver their events, cert-manager issues what
\* it was asked for.  Nothing is assumed of users or failures; both are finite.
Fairness ==
  /\ WF_vars(Worker)
  /\ WF_vars(SyncCR)
  /\ \A k \in Kinds : WF_vars(SyncObjects(k))
  /\ \A c \in CertNames : WF_vars(IssueCertificate(c))

FairSpec == Spec /\ Fairness

-----------------------------------------------------------------------------
(* Properties.                                                             *)

FinalizeLabels == {"finClusterRoleBinding", "finRoleBindings", "finConsoleLink",
                   "finServices", "finCASecret", "finAgentSecret", "removeFinalizer"}

\* Labels reached only through the status write of reconcileSecrets.
TrustedLabels ==
  {"roleBindings", "oldRoleBindings", "clusterRoleBinding", "tls", "waiting",
   "caSecret", "agentSecret", "oldCASecret", "oldAgentSecret", "oldAgentCert",
   "tlsReady", "coreService", "callbackServices", "oldServices", "workloads",
   "status", "consoleLink", "conditions"}

Labels == {"idle", "addFinalizer", "secrets"} \union TrustedLabels \union FinalizeLabels

\* The labels inside a visit to a namespace that takes several calls.
VisitLabels == {"agentSecret", "oldAgentSecret", "oldAgentCert", "finAgentSecret"}

CRType    == /\ cr \in CRs /\ cache \in CRs /\ mem \in CRs
             /\ cacheFresh \in BOOLEAN /\ memFresh \in BOOLEAN /\ queued \in BOOLEAN
LocalType == /\ pc \in Labels
             /\ todo \subseteq Namespaces
             /\ unready \in BOOLEAN
             /\ cur \in IF pc \in VisitLabels THEN Namespaces ELSE {None}
ObjType   == /\ obj \in [Kinds -> SUBSET Places] /\ seen \in [Kinds -> SUBSET Places]
             /\ pending \subseteq Kinds
             /\ \A k \in ClusterKinds : obj[k] \subseteq {None}
CertType  == certs \subseteq CertNames /\ issued \subseteq certs
BoundType == edits \in 0..MaxEdits /\ faults \in 0..MaxFaults

\* Types; besides, a certificate is ready only while it exists, and a
\* namespace is held exactly between the calls of one visit to it.
TypeOK == CRType /\ LocalType /\ ObjType /\ CertType /\ BoundType

\* The ClusterRoleBinding and the ConsoleLink cannot have an owner reference:
\* only the finalizer removes them.  So they may exist only while the CR
\* exists and carries the finalizer, whatever the caches show and wherever a
\* reconcile or a finalization is interrupted.
ClusterObjectsGuarded ==
  \A k \in ClusterKinds : obj[k] # {} => cr.phase # "absent" /\ cr.finalizer

\* What reconcileCryostat owes a target namespace.
Needed(c, ns) ==
  {"RoleBinding", "CallbackService"} \union
  (IF c.certManager /\ ns # InstallNamespace THEN {"CASecret", "AgentSecret"} ELSE {})

Converged ==
  /\ cr.status = cr.spec
  /\ \A ns \in cr.spec : \A k \in Needed(cr, ns) : ns \in obj[k]

\* Nothing runs, nothing is queued, every watch event has been delivered.
Quiescent == pc = "idle" /\ ~queued /\ cacheFresh /\ pending \intersect TargetKinds = {}

\* No lost wakeup: when the operator has nothing left to do for a live CR, each
\* requested namespace has all of its objects on the server and status lists
\* exactly the requested namespaces -- although reconciles act on stale caches.
NoLostWakeup == Quiescent /\ cr.phase = "live" => Converged

\* The finalizer comes off only when the namespaces the CR asks for at that
\* moment have lost their RoleBinding and Service, and their secret copies if
\* cert-manager is enabled, and no cluster-scoped object is left.
CleanFinalization ==
  cr.finalizer /\ cr'.phase = "absent" =>
    /\ \A ns \in cr.spec : \A k \in Needed(cr, ns) : ns \notin obj[k]
    /\ \A k \in ClusterKinds : obj[k] = {}

FinalizedClean == [][CleanFinalization]_vars

\* status.targetNamespaces is only ever set to what the server's spec asks for
\* at that moment (not what a stale CR asked for), and for every namespace it
\* lists each object exists, or an event that will repair it is on its way.
BackedStatusWrite ==
  cr'.phase # "absent" /\ cr'.status # cr.status =>
    /\ cr'.status = cr.spec
    /\ \A ns \in cr.spec : \A k \in Needed(cr, ns) :
         ns \in obj[k] \/ k \in pending \/ queued

StatusBacked == [][BackedStatusWrite]_vars

\* Once users and failures leave it alone, a live CR is set up for good.
Convergence == <>[](cr.phase = "live" => Converged)

\* A deleted CR is finalized and disappears.
DeletionCompletes == cr.phase = "deleting" ~> cr.phase = "absent"

-----------------------------------------------------------------------------
(* The reconciler implements NamespaceAccess: access is the RoleBinding, a *)
(* setup task begins with the status write of reconcileSecrets, which      *)
(* succeeds only for a CR that is current, and a cleanup task is a         *)
(* finalization.                                                           *)

\* The task of a running reconcile, and what is left of it.
Task == IF pc \in TrustedLabels THEN "setup"
        ELSE IF pc \in FinalizeLabels THEN "cleanup" ELSE "none"

Left == IF pc \in {"roleBindings", "finRoleBindings"} THEN todo
        ELSE IF pc = "finClusterRoleBinding" THEN mem.spec ELSE {}

Dropped == IF pc = "roleBindings" THEN ToDelete(mem)
           ELSE IF pc = "oldRoleBindings" THEN todo ELSE {}

Ledger == INSTANCE NamespaceAccess WITH
  phase     <- IF cr.phase = "live" /\ ~cr.finalizer THEN "new" ELSE cr.phase,
  wanted    <- cr.spec,
  recorded  <- cr.status,
  access    <- obj["RoleBinding"],
  unnoticed <- "RoleBinding" \in pending,
  task      <- Task,
  view      <- IF Task = "none" THEN {} ELSE mem.spec,
  left      <- Left,
  drop      <- Dropped

\* Whatever the caches show, whoever edits the CR between two calls and wherever
\* a reconcile is cut off, the calls of the reconciler are steps of a task of
\* NamespaceAccess: access is granted only to what a current CR asked for, taken
\* only from recorded namespaces, recorded only while still asked for, and a
\* stale finalization never touches the access of a CR that is set up again.
ImplementsNamespaceAccess == Ledger!AccessSpec

-----------------------------------------------------------------------------
(* A statement of the documentation that the code does not meet.           *)

\* Cryostat keeps permissions only within the namespaces its CR specifies.
AccessOnlyWhereSpecified ==
  Quiescent /\ cr.phase = "live" => obj["RoleBinding"] \subseteq cr.spec

-----------------------------------------------------------------------------
(* The inductive invariant behind the safety properties.                   *)

\* Fresh copies are equal to what they are copies of.
CRCoherent  == (cacheFresh => cache = cr) /\ (memFresh => mem = cr)
ObjCoherent == \A k \in Kinds : k \notin pending => seen[k] = obj[k]

\* What the label of a running reconcile says about the CR it works for.
Stage ==
  /\ cr.phase = "absent" => cr = NoCR /\ ~memFresh
  /\ pc = "idle" => ~memFresh
  /\ pc \in {"addFinalizer", "secrets"} => mem.phase = "live"
  /\ pc = "secrets" => mem.finalizer
  /\ pc \in TrustedLabels => cr.phase # "absent" /\ cr.finalizer
  /\ pc \in {"consoleLink", "conditions"} => mem.status = mem.spec

\* A cluster-scoped object needs the finalizer, and none outlives its step of
\* the finalization.
ClusterInv ==
  /\ ClusterObjectsGuarded
  /\ ~IsOpenShift => obj["ConsoleLink"] = {} /\ pc # "consoleLink"
  /\ pc \in FinalizeLabels \ {"finClusterRoleBinding"} => obj["ClusterRoleBinding"] = {}
  /\ pc \in {"finServices", "finCASecret", "finAgentSecret", "removeFinalizer"} =>
       obj["ConsoleLink"] = {}

AfterServices == {"oldServices", "workloads", "status", "consoleLink", "conditions"}
AfterSecrets  == {"oldCASecret", "oldAgentSecret", "oldAgentCert", "tlsReady"}
AfterTLS      == {"coreService", "callbackServices"} \union AfterServices

\* The namespaces for which the running reconcile has dealt with a kind.
Served(k) ==
  CASE k = "RoleBinding" ->
         IF pc = "roleBindings" THEN mem.spec \ todo
         ELSE IF pc \in TrustedLabels THEN mem.spec ELSE {}
    [] k = "CallbackService" ->
         IF pc = "callbackServices" THEN mem.spec \ todo
         ELSE IF pc \in AfterServices THEN mem.spec ELSE {}
    [] k = "CASecret" ->
         (IF pc \in {"caSecret", "agentSecret"} THEN mem.spec \ todo
          ELSE IF pc \in AfterSecrets \/ (pc \in AfterTLS /\ mem.certManager)
          THEN mem.spec ELSE {}) \ {InstallNamespace}
    [] k = "AgentSecret" ->
         (IF unready THEN {}
          ELSE IF pc \in {"caSecret", "agentSecret"} THEN mem.spec \ (todo \union {cur})
          ELSE IF pc \in AfterSecrets \/ (pc \in AfterTLS /\ mem.certManager)
          THEN mem.spec ELSE {}) \ {InstallNamespace}
    [] OTHER -> {}

\* Each of these has its object, or an event is on its way.
ServedInv ==
  /\ \A k \in TargetKinds : \A ns \in Served(k) :
       ns \in obj[k] \/ k \in pending \/ queued
  /\ unready => pc \in {"caSecret", "agentSecret", "waiting"}

\* A reconcile that ended without a requeue has left nothing undone.
IdleInv ==
  pc = "idle" /\ ~queued /\ cacheFresh /\ cr.phase = "live" =>
    /\ cr.status = cr.spec
    /\ \A ns \in cr.spec : \A k \in Needed(cr, ns) : ns \in obj[k] \/ k \in pending

\* The namespaces from which the running finalization has removed a kind.
Cleared(k) ==
  CASE k = "RoleBinding" ->
         IF pc = "finRoleBindings" THEN mem.spec \ todo
         ELSE IF pc \in FinalizeLabels \ {"finClusterRoleBinding"} THEN mem.spec ELSE {}
    [] k = "CallbackService" ->
         IF pc = "finServices" THEN mem.spec \ todo
         ELSE IF pc \in {"finCASecret", "finAgentSecret", "removeFinalizer"}
         THEN mem.spec ELSE {}
    [] k \in {"CASecret", "AgentSecret"} ->
         (IF pc = "finCASecret" THEN mem.spec \ todo
          ELSE IF pc = "finAgentSecret"
          THEN mem.spec \ (todo \union IF k = "AgentSecret" THEN {cur} ELSE {})
          ELSE IF pc = "removeFinalizer" /\ mem.certManager
          THEN mem.spec ELSE {}) \ {InstallNamespace}
    [] OTHER -> {}

ClearedInv == \A k \in TargetKinds : Cleared(k) \intersect obj[k] = {}

IInv ==
  /\ TypeOK /\ CRCoherent /\ ObjCoherent /\ Stage
  /\ ClusterInv /\ ServedInv /\ IdleInv /\ ClearedInv
=============================================================================
