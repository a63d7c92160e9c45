# TLA+ models of the Cryostat operator

The Cryostat operator installs Cryostat (a JVM monitoring server) from a
`Cryostat` custom resource (CR), gives it access to a set of *target
namespaces*, injects the Cryostat agent into labelled pods and, on OpenShift,
installs a console plugin. This directory holds TLA+ models of its control
logic, TLC configurations that check them on small instances, and TLAPS proofs
of the main safety properties for all instances.

`PROJECT.json` lists components, runs, hazards, theorems and, under `map`, the
source lines every definition stands for.

## 1. The system

| Component | Source | State | Operations |
|---|---|---|---|
| Cryostat reconciler | `internal/controller/reconciler.go`, `cryostat_controller.go`, `rbac.go`, `common/finalizer_utils.go` | none of its own: the CR and its objects on the API server, seen through informer caches; the work queue | `Reconcile`, `reconcileCryostat`, `finalizeCryostat`, status writes, watches |
| TLS | `internal/controller/certmanager.go`, `common/tls.go`, `common/resource_definitions/certificates.go` | Issuers, Certificates and Secrets in the install namespace, copies in target namespaces | `setupTLS`, `reconcileAgentCertificate`, `finalizeTLS`, CA change |
| Secrets and config maps | `secrets.go`, `configmaps.go` | generated passwords, lock config map, status secret names | create-if-missing, delete-and-recreate |
| Workloads | `reconciler.go` (second half), `pvc.go`, `services.go`, `routes.go`, `ingresses.go`, `networkpolicy.go`, `common/` | Deployments, PVCs, Services, Routes/Ingresses | create or update, recreate on selector change, switch off, conditions |
| OpenShift integration | `openshift.go`, `routes.go` | ConsoleLink, CORS origins of the APIServer | create, delete, remove origins |
| Console plugin | `internal/console/plugin.go` | the ConsolePlugin object; one entry in the plugin list of the shared Console object | install or uninstall once per start |
| Agent webhooks | `internal/webhook/agent` | a lazily read image tag | mutate Deployments (copy labels) and Pods (inject the agent) |
| CR webhooks | `internal/webhook/v1beta2` | none | defaulting, permission check by SubjectAccessReview |
| API conversion | `api/v1beta1/cryostat_conversion.go` | none | v1beta1 <-> v1beta2 |
| Start-up | `cmd/main.go` | OpenShift, cert-manager and FIPS detected once | wiring |

How they interact. Users write CRs, Deployments and Pods to the API server. The
reconciler is woken by watches of the CR, of the objects it owns and (through
labels) of objects in target namespaces. It reads everything from caches and
writes straight to the server, where resource versions decide whether an update
of the CR is accepted. It hands `status.targetNamespaces` to the agent webhooks,
which decide by it whether a pod may be configured for this Cryostat, and it
waits for cert-manager, the Ingress controller and the Deployment controller.
The console plugin installer runs once per leader and shares the Console object
with every other plugin of the cluster.

What is hard. Every read may be stale and every write may fail or conflict; a
reconcile is dozens of calls that can be interrupted between any two; objects in
other namespaces and at cluster scope cannot have owner references, so only the
operator's own bookkeeping (finalizer, `status.targetNamespaces`, labels and
watches) removes or repairs them; nothing polls in general, so a wake-up that is
missed is missed for good. `PROJECT.json` lists the main hazards line by line.

## 2. Modules

| Module | Models | Kind |
|---|---|---|
| `NamespaceAccess` | what the reconciler promises about access to target namespaces | abstract specification |
| `TargetNamespaces` | the reconciler as the owner of what one CR leaves in target namespaces and at cluster scope; implements `NamespaceAccess` | state machine |
| `MCTargetNamespaces`, `TargetNamespacesProofs`, `TargetNamespacesRefinement` | its instance, its theorems, and the proof that it implements `NamespaceAccess` | TLC, TLAPS |
| `Certificates` | `setupTLS`: issuers, certificates, their secrets and the copies of them | state machine |
| `MCCertificates`, `CertificatesProofs` | its instance and its theorems | TLC, TLAPS |
| `FieldPaths`, `V1Beta1Types`, `V1Beta2Types` | the two versions of the CR's type | pure |
| `Conversion`, `ConversionProofs` | the conversion between them, and what the two directions have to do with each other | pure, TLAPS |
| `Admission` | requests for the CR: conversion, defaulter, validator, store; extends `NamespaceAccess` and `Conversion` | state machine |
| `MCAdmission`, `AdmissionProofs` | its instance and its theorems | TLC, TLAPS |
| `ConsolePlugin` | the installer of the console plugin and the Console object it shares | state machine |
| `MCConsolePlugin`, `ConsolePluginProofs` | its instance and its theorems | TLC, TLAPS |
| `AgentWebhook` | the webhooks for Deployments and Pods | state machine around two pure handlers |
| `MCAgentWebhook`, `AgentWebhookProofs` | its instance and its theorems | TLC, TLAPS |
| `Workloads` | the reconciler as the owner of what one CR has in its own namespace: secrets, config maps, Services, policies, volumes, Deployments | state machine |
| `MCWorkloads`, `WorkloadsProofs` | its instance and its theorems | TLC, TLAPS |

How they fit together. `NamespaceAccess` is the seam between the CR's way into
the cluster and the operator's work: `TargetNamespaces` implements it call by
call (`ImplementsNamespaceAccess`), and `Admission` extends it with the webhooks
and with users who have limited rights. What `Admission` shows about grants thus
holds of the reconciler. `TargetNamespaces`, `Workloads` and `Certificates` look
at the same reconcile from three sides: what the CR cannot own, what it owns, and
the chain of trust. `AgentWebhook` uses `status.targetNamespaces`, which
`TargetNamespaces` writes, as a value that changes at any time.

### 2.1 TargetNamespaces

State. `cr` is the CR on the server (phase, finalizer, spec, status and the TLS
condition), `cache` the informer's copy and `mem` the copy a running reconcile
holds. Resource versions are only ever compared for equality with the server's,
so they are represented by `cacheFresh` and `memFresh`. `obj[k]` is the set of
namespaces that have the object of kind `k` (the extra place `None` is the
cluster scope), `seen` the same in the caches, and `pending` the kinds whose
informer is behind. `certs` and `issued` are cert-manager's Certificates and
those that are ready. `queued` is the key in the work queue; the queue never
hands one key to two workers, so there is at most one reconcile (`pc`).

Actions follow the calls of the code one by one:

| Labels of `pc` | Code |
|---|---|
| `idle` -> `addFinalizer` | `Reconcile`: cached Get, deletion branch, `AddFinalizer` |
| `secrets` | lock config map and `reconcileSecrets`, which ends with a status update on every pass |
| `roleBindings`, `oldRoleBindings`, `clusterRoleBinding` | `reconcileRBAC` |
| `tls`, `caSecret`, `agentSecret`, `oldCASecret`, `oldAgentSecret`, `oldAgentCert`, `tlsReady`, `waiting` | `configureTLS`, `setupTLS`, `reconcileAgentCertificate` |
| `coreService`, `callbackServices`, `oldServices`, `workloads` | the middle of `reconcileCryostat` |
| `status`, `consoleLink`, `conditions` | the write of `status.targetNamespaces`, `finishOpenShift`, the last conditions |
| `fin*`, `removeFinalizer` | `finalizeCryostat` and `RemoveFinalizer` |

Around them: informers catching up (`SyncCR`, `SyncObjects`), cert-manager
(`IssueCertificate`), users (`CreateCR`, `EditCR`, `DeleteCR`, `Tamper`) and
failures (`CallFails`, `IngressNotReady`, `Restart`) between any two calls.

Abstractions, and why they are sound for the properties:

* An object is present or absent. Its content is a function of the CR and is
  written again by each `CreateOrUpdate`, so only presence needs history.
* A list of target namespaces is a set: the code visits every element and never
  uses the order. The loops visit in any order.
* An informer catches up with the present state of its kind in one step; the
  intermediate states it would pass through would only add enqueues.
* Objects the CR owns (lock and config maps, passwords, core Services,
  Deployments) go with the CR through Kubernetes' garbage collection. Their
  calls are labels at which a reconcile can fail, wait or conflict.
* Delays (back-off, "retry in 5 seconds") are immediate requeues: time never
  disables anything here.
* The secret of an agent certificate belongs to its certificate, so deleting
  both is one step; `Certificates` takes the step apart.
* Users ask for an empty list of namespaces only once the CR has its finalizer.
  Before, the operator's update for the finalizer goes through the defaulter with
  the list left out, which replaces it; that corner belongs to `Admission`.
* The branch of the ConsoleLink for an empty URL cannot be reached: on OpenShift
  a reconcile that gets there has read its Route.
* Target namespaces exist throughout; CORS origins are left out.

Bounds: `MaxEdits` (steps of users) and `MaxFaults` (failed calls and restarts).
They bound the environment only; the operator itself is not bounded. The proofs
hold for every value of both.

The refinement. `NamespaceAccess` knows a CR (absent, new, guarded by the
finalizer, being deleted), the namespaces it asks for and those recorded in its
status, the namespaces with access, and one task of the operator with its
snapshot. The mapping: access is the RoleBindings; the task is `setup` while the
reconcile works on a CR that was current when it wrote the secrets' status, and
`cleanup` during a finalization; the snapshot is `mem`; `unnoticed` is an
undelivered RoleBinding event. What has to be right for it is that every call on
an old copy of the CR is harmless: a setup records its snapshot only while the CR
still asks for it, a skipped grant means access or an event to come, and a
finalization decided on a stale cache never runs against a CR that is set up.

### 2.2 ConsolePlugin

State. `console` is the shared Console object: whether it exists, how often its
plugin list names Cryostat's plugin (`mine`) and which other plugins it names.
`plugin` is the ConsolePlugin object, without an owner or with the
ClusterRoleBinding that OLM manages as its owner. `cache` and `held` are the
Console in the informer's cache and in the installer's hands, with
`cacheFresh` and `heldFresh` in the place of resource versions. `pc` is the next
call of `installConsolePlugin`, `attempt` the attempt of `RetryOnConflict`.

Actions: `Start` (compatibility of the version), `CreateConsolePlugin`,
`RegisterGet` / `RegisterUpdate`, `UnregisterGet` / `UnregisterUpdate`,
`DeleteConsolePlugin`. A conflict goes back to the Get until the attempts are
used up; every other error ends the operator (`Exit`: `mgr.Start` returns the
error and `main` exits), which is started again with empty caches. Around them:
the cache, other operators, creation and removal of the Console, upgrades, OLM.

Abstractions: versions are numbers; the order of the plugin list does not
matter, except that one occurrence is removed at a time. A cluster version that
does not parse keeps the operator restarting, so `Start` is disabled. OLM removes
an operator that has ended. A finished installer does not look again before the
next start, so nothing is claimed about changes made after it finished.

### 2.3 AgentWebhook

State: the CR (existence, whether the namespace is in `status.targetNamespaces`,
TLS) on the server and in the cache, the agent labels of one Deployment and of
its pod template, and the pods made from it with what was injected.
`DeploymentDefault` and `PodDefault` are the two handlers as functions of the
labels and the cached CR, `Handle` the wrapper that admits everything. A request
may miss the webhook (`failurePolicy=ignore`). After the handlers the API server
validates what they added (`Valid`).

Abstractions: a label value is a number, a string of a small set, or `Bad` (does
not parse). The injected variables are kept where they are derived from a
checked label; the others are part `"env"`. Integers have 8 bits in the runs: 127
stands for the largest int32 and 100 for port 65535; the code's comparisons do not
depend on the width. A template that has no label map at all, in which
`copyLabelIfExists` panics and is recovered like an error, is left out, because
a Deployment whose selector matches its template has one.

### 2.4 Workloads

State. `cr`, `cache`, `mem` with `cacheFresh` and `memFresh` are as in
`TargetNamespaces`; the spec is reduced to the choices that decide which objects
there are, the status to the name of the database secret (`pin`) and the
secrets and Deployments it speaks of (`reported`). `obj[o]` is an object on the server:
whether it exists, the uid of the CR that owns it, whether only a new object can
bring it into shape (`bad`: another selector, an immutable config map; of a volume,
that its deletion has begun), and its `data`: the password of a secret; for a Deployment the secrets and volumes of
its pods, with the hashes of the secrets. `seen` is the same in the caches.
`disk` is the secret and password the database's volume was initialised with, and
`maker`, a history variable, the CR whose Deployment did it.

Actions. A reconcile visits the objects in the order of the calls in
`reconcileCryostat` (`Rank`), one call of the API server per step: `Create`,
`Update`, `Recreate` (one deletion; the recursion of `recreateDeployment` and
`recreateConfigMap` is the repetition of the visit), `Remove`, `Refused` (a secret
that the cache does not show, another name for the database secret), then `UpdateStatus` or `StatusRefused` where the code
writes the status. Around them: informers, the garbage collector, the database
that initialises an empty volume, users, failures and restarts.

Objects of a former CR. `SetControllerReference` refuses an object only if its
controller has another group, kind or name; the uid is not compared, and is
rewritten. A CR that is created again under its name therefore takes over the
secrets, volumes, config maps and Deployments of its predecessor that the garbage
collector has not taken yet (`Updated`), if the cache shows them as they are;
otherwise the update conflicts and is tried again.

Abstractions:

* Contents other than passwords, hashes and references are a function of the CR
  and are left out. Two objects are the same version if they are equal, which
  can only turn a conflict into a success that writes the same value.
* One switch stands for the network policies of all components, one for the
  volumes of database and storage. The order of the core policies is fixed: the
  code removes an unwanted egress policy before it creates the ingress policy.
* RBAC, TLS and finalizers are in `TargetNamespaces`; secrets of cert-manager, and
  secrets and config maps that users provide, exist and do not change. A
  storage secret of the user's is not among the choices.
* The two status writes after the core Deployment are one.
* A volume that pods use is not deleted at once, as Kubernetes does it: its deletion
  begins (`GarbageCollect`), goes on when the last pod ends (`Unmount`) and is not
  taken back by another owner.

`DatabaseOpens` is about generated and provided secrets alike: the pods get the
secret, with its password, with which the data were made -- if a Deployment of the
same CR made them (`maker`). Secret and volume of a former CR may be taken over, or
collected, each for itself, so data of a former CR may meet another secret or
another password; section 4 has that case. The property is not claimed either when a
user deletes the generated secret: the operator then generates a new password, and
nothing in the code could do better. `DataKept` excepts a volume whose deletion had
begun when the CR took it over.

The caches take over the present state of a kind at once. An object that is deleted
and made again in the same shape between two updates of the cache is therefore not
noticed in the model, where the watch would deliver both events. `AtRestInPlace` is
checked and proved for users who delete Deployments: what a reconcile finds in its
hands must not be replaced behind its back by an equal object.

### 2.5 Certificates

State. `cert` has, for the CA, the components and the agent of each target
namespace, the certificate's uid, spec (`old`: of an older operator; `legacy`:
without the PKCS12 profile; `new`), readiness and the version of the secret it
speaks of. `issuer` has the self-signed issuer and the secret that the CA issuer
names. `secret` has owner, spec, signing CA and version of every certificate
secret, of the keystore password and of the copies in target namespaces. A CA is the
name of its secret with a number: a CA certificate that is issued again, because it
is renewed or because its secret was deleted, makes another CA under the same name. The
three caches lag independently; `news` are the watches' undelivered events, with
`waking` for the secrets that wake the operator (owned by the CR, or labelled
copies; secrets that a certificate owns wake nobody). `lagged`, a history variable, has
the certificates whose secret the last reconcile read from a cache that did not have
its present content.

Actions follow `setupTLS` call by call: self-signed issuer, CA certificate, CA
issuer (`ReadCAIssuer`, `DeleteChainCert`, `DeleteChainSecret`, `UpdateCAIssuer`),
keystore password, components' certificates, the CA's bytes, then for each
namespace the copy of the CA and the agent's certificate and its copy, then the
owners of the secrets, the condition and the Route's CA. `createOrUpdateCertificate`
is `KeepCertificate`, `CreateCertificate` or `RecreateCertificate`, whose recursion
is the repetition of the visit with the spec it has already decided on (`want`).
Around them: cert-manager (`IssueCertificate`, `UpdateCertificate`, `Renew` of any
certificate, the CA's included),
the garbage collector, users who delete a secret, the informers' 10-hour resync,
an upgrade of cert-manager's CRD, failures and restarts.

Abstractions: the CR is live, its TLS is on and its spec does not change
(`TargetNamespaces` has those changes). Uids, contents and CAs are only compared,
so the least unused number serves as a new one, which keeps the state space
finite. cert-manager is external: it issues what is missing or does not fit the
spec, adopts a secret that fits, and reports readiness. It does not issue the
certificates of a CA again when that CA is renewed. Components, and the certificates
that `deleteCertChain` lists, are visited in any order.

`ChainCurrent` excepts behaviours in which a reconcile ended between deleting a
certificate and deleting its secret; there the code's own statement is false
(`certificates_chain`, section 4). The run has secrets of older
releases, which belong to the CR and change hands at the upgrade; the same instance with
secrets that belong to their certificates (`OldOwners = {"cert"}`, 3.5 million states)
passes as well. "Signed by the new CA" means by a CA of
the new name: a certificate keeps the signature of a CA that was renewed since, until
it is renewed itself.

`TrustCurrent` holds without that exception, with another one: what Route and copies
have is the present content of every secret that the last reconcile did not read from
a lagging cache (`lagged`). Where it did, they may have the former content at rest: the
certificate's status, which wakes the operator, may be delivered before the secret,
whose events wake nobody (section 4). All copies and the Route have the same CA even
then, and `TLSSettles` says that the next reconcile, at the latest that of the resync,
brings them up to date.

### 2.6 FieldPaths, V1Beta1Types, V1Beta2Types, Conversion

A type is the set of its field paths, one definition per Go struct; an object is a
function from the paths that are set to values. A converter is a set of assignments,
each of a field of the source to a field of the result, one definition per Go
function and direction; `Convert` carries them out. Lists have one element: the code converts them element by
element. Types that both versions take from Kubernetes are one field.

### 2.7 Admission

State: that of `NamespaceAccess`, the other fields of the stored spec (`fields`),
the users' rights (`permits`), one request per user under way, and the history
`vetted`: the lists of namespaces that, as a whole, some user was found to have
the right to in the life of this CR.

Actions: `SubmitV2` and `SubmitV1` (a new object, or what the client has read),
`Default`, `Review` (one SubjectAccessReview), `Reject`, `Store` (creation, or an
update of the version that was read), `ChangeRights`, `LoseAccess`, `DeleteCR`, and
the operator: `AddFinalizer`, which passes the webhooks as well, `Write` for its
other writes and `Reconcile` for the rest of its steps. Initially there is no CR,
or one that a release with v1beta1 in its store left behind.

External facts used: the webhooks are registered for v1beta2 and called for
v1beta1 requests with the object converted; the defaulted object is converted
back and stays a v1beta1 object until it is stored; `failurePolicy` is Fail; the
rule on `CertificateSecret` is part of the v1beta2 schema and checked for v1beta2
requests; an empty list is omitted from the operator's typed update, which is why
`AddFinalizer` may replace it.

### 2.8 Runs

| Run | Question | Instance |
|---|---|---|
| `targets_history` | cluster-scoped objects guarded by the finalizer, no lost wake-up, clean finalization, honest status, refinement of `NamespaceAccess`, over long histories | plain Kubernetes, a CR that wants TLS without cert-manager, empty list included, 3 edits, 1 failure |
| `targets_liveness` | types, convergence and completion of deletion, and again no lost wake-up and clean finalization, with all the objects there are | OpenShift, TLS on, 2 edits, 1 failure, fairness |
| `targets_access` | a statement the code does not meet (section 4) | TLS off, 3 edits |
| `certificates_upgrade` | a changed CA: everything is signed under its name and trusts it | one component with a keystore, one other namespace, old and present specs, secrets that the CR owns, 1 failure |
| `certificates_liveness` | TLS settles, with types and trust | from nothing; CRD upgrade, renewal of any certificate, or deletion of a secret, the CA's included; fairness |
| `certificates_chain` | a statement the code does not meet (section 4) | secrets that the CR owns, 1 failure |
| `admission` | grants are backed by a right, old clients are safe, audit defaulting | 2 users, 2 namespaces, both versions, empty and missing lists, 2 requests or deletions, 1 change of rights or access |
| `admission_fields` | a statement the code does not meet (section 4) | 1 request |
| `console_plugin` | one entry at most, other plugins kept, no entry without its plugin; the plugin ends up installed or removed | one other plugin, versions below, in and above the range and malformed, 4 attempts, 4 edits, 2 failures, fairness |
| `agent_safety` | complete injection, widths, agreement of the two webhooks' checks | 15 label maps, one per outcome of each label, 4 edits, 1 missed request |
| `workloads_database` | the database can open its CR's data, new Deployments stay, what a former CR left is taken over, convergence | database secret, volume, database and core; generated or provided secret, old Deployments, 2 edits, 1 failure, fairness |
| `workloads_liveness` | convergence; a component that is switched off is gone, data are kept | besides, reports, a spec with emptyDirs and a config map that users make immutable; 1 edit, 1 failure, fairness |

Why these bounds are enough. Two namespaces give one that is the install
namespace (special-cased for secrets) and one that is not; namespaces do not
interact otherwise. Three edits allow create, drop a namespace, and ask for it
again; or create, delete, create again. One failure or restart at any of the
calls is every partial execution; a second adds only the repetition of the first.
The proofs remove the bounds for the safety properties. For the console plugin
four attempts are those of `retry.DefaultBackoff`, and four edits allow an upgrade
out of the range, a conflicting edit, removal by OLM and re-installation in one
behaviour. For the webhooks four edits allow the CR to be served, lose its
service, and the Deployment to change its labels twice; each label map exercises
one getter, since getters are independent. For the workloads two edits allow
delete and create with another secret while the first CR's objects are still there,
some of them collected. Objects interact only through references from
Deployments to secrets, config maps and volumes, and through the order of the
visits; the instances have each kind of reference, a Deployment that can be
switched off and one that cannot. Services and policies have no references and
pass through the same actions, so the runs leave them out. For certificates one
component and one namespace give each kind of certificate once (with a keystore
and without, with a copy and without); certificates interact only through the CA
and its issuer. The run with renewals has no failures, which the upgrade has; the
proofs have both together. In `admission` two requests are two users racing, or one who
creates and one who changes the CR; the sampled fields are of every kind the
converters know (copied, renamed, in one version only, passed over), and
`OldClientSafe` besides evaluates the converters on the objects with every field
set.

`CHECK_DEADLOCK FALSE` in all runs: an operator with nothing to do, in a cluster where
nobody edits anything, rightly stops.

Fairness. `WF(Worker)`: controller-runtime's worker takes the next key while the
queue is not empty and runs a reconcile to its end. `WF(SyncCR)`,
`WF(SyncObjects)`: watches deliver. `WF(IssueCertificate)`: cert-manager issues
what it was asked for. In `ConsolePlugin`, `WF(Installer)`: the kubelet starts
the operator again and its calls return; `WF(SyncCache)`: as above;
`WF(DrainNode)`: an upgrade restarts every node, which is what makes the
installer look at the new version. In `Workloads` nothing is assumed
of the garbage collector: what it leaves is taken over. In `Certificates`, besides,
`WF(CertManager)`: cert-manager issues and reports, `WF(GarbageCollect)`: Kubernetes
collects secrets whose certificate is gone, and `WF(Resync)`: the
informers' periodic resync, which is what copies a renewed certificate, or CA, that a
reconcile read from a lagging cache. Nothing is assumed of users and failures; there are
finitely many of each.

## 3. What is proved

`TargetNamespacesProofs` proves, for any set of namespaces, on and off
OpenShift, with and without cert-manager, and for any bounds (assumption
`ConstantsAssumption` only):

* `TypeCorrect`: `Spec => []TypeOK`
* `Invariance`: `Spec => []IInv`, the inductive invariant
* `Guarded`: `Spec => []ClusterObjectsGuarded`
* `NoWakeupLost`: `Spec => []NoLostWakeup`
* `FinalizationIsClean`: `Spec => FinalizedClean`
* `StatusIsBacked`: `Spec => StatusBacked`

The argument. None of the four properties is inductive. `CRCoherent` and
`ObjCoherent` say when a copy can be trusted: a fresh copy equals the server's,
and a kind without undelivered events is cached exactly. `Stage` says what
reaching a label means: past `reconcileSecrets` the CR must have been current at
that status write, so its finalizer is on the server and stays there, because
only this reconcile could remove it. `ClusterInv` uses that for the objects only
the finalizer removes. `ServedInv` carries the heart of `NoLostWakeup` and
`StatusBacked`: when `CreateOrUpdate` skips a create because the cache shows an
object that is gone, the kind is in `pending`, so an event that wakes the
operator is still to come; otherwise the object is there. Any later deletion
puts the kind into `pending`, and the delivery of that event sets `queued`.
`IdleInv` is what remains at the only exit without a requeue (`UpdateConditions`,
which needs a fresh CR). `ClearedInv` is the mirror image for finalization.

`TargetNamespacesRefinement` proves `Refinement`: `Spec => ImplementsNamespaceAccess`.
Initial states map to initial states, and each action of `TargetNamespaces` maps to
an action of `NamespaceAccess` or to a stutter; there is one lemma per action, or per
group of actions with the same image. `IInv` says what the calls can rely on;
`TaskInv` adds what the abstract task is about: a setup works for a CR that was live
and guarded when its secrets were written, a finalization for one that is being
deleted, and no finalization runs while a guarded live CR is there. `Served` then
gives the guard of the abstract `Record`, and `Cleared` that of the end of a cleanup.

`ConsolePluginProofs` proves, for any plugins, versions, number of attempts and
bounds (again from `ConstantsAssumption` only):

* `TypeCorrect`: `Spec => []TypeOK`
* `Invariance`: `Spec => []IInv`
* `EntryIsUnique`: `Spec => []NoDuplicateEntry`
* `OthersAreKept`: `Spec => OthersKept`
* `EntriesDoNotDangle`: `Spec => NoDanglingEntry`

The argument. `Coherent`: a fresh copy equals the Console, and the Console held
for an update was read without (with) the entry; so an accepted update adds the
first entry or removes the only one and writes back the others as they are.
`Progress`: a registering operator has created its plugin, and the deleting one
has no entry left. The last needs that a stale cache cannot hide an entry from an
unregistering operator: only the operator adds the entry, and no cache outlives
the process that added it, so the cached count is at least the server's.

`AdmissionProofs` proves, for any users, namespaces, objects of both versions and
bounds:

* `TypeCorrect`: `Spec => []TypeOK`
* `Invariance`: `Spec => []IInv`
* `GrantsAreVetted`: `Spec => GrantsVetted`
* `EveryRoundTripSafe`: an old client that reads any v1beta2 object and writes it back
  changes nothing it can see, and no field that survives has another value
* `OldClientsSafe`: `Spec => OldClientSafe`
* `AuditForNewOnly`: `Spec => AuditOnlyForNewCRs`

The argument. `Reviewed`: what was reviewed and what is still to be reviewed make
up the list of a request, so a request that is stored was reviewed as a whole.
`WantedVetted`: the list of a stored CR is such a list, and the CR's own namespace
alone is covered too, by the right of its creator; the operator's update that
replaces an empty list needs that. `SetupVetted`: a setup works for a list that was
in the CR, and a guarded CR cannot disappear, and its history with it, before
the operator's own cleanup, which is another task. Nothing about the conversion is
needed there but that the list it makes up goes through the review like any other.
`AuditForNewOnly` rests on `AuditInv`: an update under way has the defaulter's audit
setting only if the CR has it, and the conversion to v1beta2 sets nothing about it.

`ConversionProofs` has the lemmas for `EveryRoundTripSafe`, about all objects and not
only those a run samples. `Pair` says that a set of assignments and one for the way
back make the same assignments in opposite directions, and that no two of the
assignments of one have a field in common. Pairs are made of copies, renamings, nested structs and
disjoint unions; for each Go converter there is a lemma that it makes a pair with its
opposite, from the lemmas of the converters it calls.

`AgentWebhookProofs` proves, for any labels, widths and bounds:

* `Invariance`: `Spec => []IInv`
* `TypeCorrect`: `Spec => []TypeOK`
* `AgentsComplete`: `Spec => []AgentComplete`
* `PropagationIsEnough`: `Spec => PropagationSuffices`

The argument. `TemplateChecked`: every label of the template has passed the Deployment
webhook's checks, since an update that fails them or misses the webhook copies none.
The Pod webhook's checks of these labels are the same, so they stop it never. The truncation of a maximum age stays in the range of an int32 (`Int32Range`).

`WorkloadsProofs` proves, for any specs, Deployments and bounds:

* `Invariance`: `Spec => []CoreInv`
* `TypeCorrect`: `Spec => []TypeOK`
* `DataIsKept`: `Spec => DataKept`
* `NewOnesStay`: `Spec => NewDeploymentsStay`
* `DatabaseAlwaysOpens`: if users do not delete the generated database secret,
  `Spec => []DatabaseOpens`
* `RestsInPlace`: if users delete Deployments only, `Spec => []AtRestInPlace`

The two hypotheses are explained in section 2.4; the runs are within them. The
argument. `CoreInv` has what every property needs: fresh copies equal the server's and
none is ahead of it (`Copies`), where a reconcile is (`Visiting`), and owners that were
CRs, passwords that were given out, and caches that show an object to be recreated
only while it was not recreated yet (`ObjectsSound`). The lemma `Losses` lists the
steps after which an object is no longer there: a recreation, a removal, the garbage
collector, a user. `DatabaseInv`: a secret that the cache shows in the CR's possession
is there (`Stays`), every copy of the CR that names a database secret names the CR's
(`Pinned`), a reconcile past the secret has made sure of it, by creating it or by taking
it over (`Ensured`), the CR's database uses the secret that the CR names
(`DatabaseSound`), and data that the CR's Deployment made were made with that secret's
password (`DiskSound`). Nothing is needed about the volume: whoever made it, what
counts is whose Deployment made the data.
`RestInv`: as long as the CR is live and nothing announces another reconcile
(`Trusted`), each object that was visited is as the CR wants it in terms of the cached
secrets (`Fits`), or differs from its cached copy so that an event is to come
(`Written`), and the status speaks of it (`Told`). `Adopted` adds that a volume under
deletion was taken over through the cache, so that its end is noticed.

`CertificatesProofs` proves, for any components, namespaces, releases it may follow
and bounds (assumptions `ConstantsAssumption` and `NamesAssumption`: components and
namespaces are finitely many and their names different, and `None` is no object):

* `Invariance`: `Spec => []CoreInv`
* `TypeCorrect`: `Spec => []TypeOK`
* `TrustInvariance`: `Spec => []TrustInv`
* `TrustIsCurrent`: `Spec => []TrustCurrent`
* `ChainInvariance`: `Spec => []ChainInv`
* `ChainIsCurrent`: `Spec => []ChainCurrent`

The argument. `CoreInv` has the shapes of all objects and copies, says that the secret of a CA
has one (`SecretsOfCAs`), and what the place of a reconcile says about what it holds
(`Where`). That a new uid, CA or content is always to be had needs that
the sets they are drawn against are finite and smaller than the range `Fresh` chooses
from. `CacheInv`: a cache that differs from the server has an event
to come that wakes the operator, except for the secrets of the install namespace,
whose events may wake nobody. `AnchorInv`: the agents' certificates come after the
issuer names the new CA, so only CAs of that name ever sign them and their copies, and
the CA that a reconcile reads for the new certificate has that name. Which CA it is
follows from freshness: by the lemma `CertificateSecret` a secret keeps its content,
goes, or gets a version that no certificate's status speaks of, so that a content that
was the present one when it was read (`lagged`) still is, or the certificate's status
has to change, and its event wakes the operator (`CAFresh`, `AgentFresh`).
`RestInv` is what the operator has done: as long as nothing announces another
reconcile (`Awake` is false), whatever the reconcile has passed is in order, and
between reconciles everything is. The lemmas `Quiet` and `Asleep` say which steps
leave this alone: a step that disturbs an object the operator is responsible for also
announces a reconcile. `TrustCurrent` follows from `AnchorInv` and `RestInv` between
reconciles. `ChainInv` is about the change of the CA: while the issuer names another CA, the operator's list of certificates is that of
all, and each loses its secret with it; once the issuer names the present one,
and unless a reconcile ended in between, the secrets of all components are signed by it.

Only model-checked: the liveness properties (fairness and `ENABLED` are outside the
prover's reach), and the runs of section 4, which end in a counterexample. Every
invariant and every action property of the other runs has its theorem.


## 4. Disagreements between documents and code

With a run:

* `targets_access`: `toDelete` compares spec with `status.targetNamespaces`,
  which is written near the end of a reconcile. A RoleBinding created by a
  reconcile that did not get so far, in a namespace dropped before the next one,
  is in neither list and stays.
* `certificates_chain`: "delete all certificates the previous CA issued": when the
  reconcile ends between deleting a certificate and deleting its secret, the
  secret stays, and the certificate that is created later adopts it.
* `admission_fields`: "Convert existing Spec fields": the storage and database
  security contexts, and the storage service's options, exist in both versions
  and are not converted.

Met while modelling, without a run:

* `finalizeRoleBindings` visits `spec.targetNamespaces` only; a dropped namespace
  not cleaned up yet keeps its RoleBinding after the CR is gone. `FinalizedClean`
  is therefore about the namespaces that spec lists.
* Secret copies are cleaned up inside `setupTLS`; a namespace dropped while
  cert-manager is disabled keeps them.
* "Modify the webhook to never deny the pod" (`webhooks.go`): a callback port of
  70000, or a smart triggers config map with a dot in its name, gives a pod the
  API server refuses; `CreatePod` has that outcome.
* A maximum age is truncated to 32 bits (`webhook_utils.go:125`), where its comment
  speaks of an error.
* `docs/config.md` says audit logging is on by default in newly created CRs. In one
  created through v1beta1 the default is lost when the defaulted object is
  converted back.
* Network policies are not among the watched kinds, and neither are secrets that
  users provide: a change of one is noticed with the next reconcile only. Nobody
  promises more; `AtRestInPlace` is stated for the watched kinds.
* `docs/config.md` says switching between a provided and a generated database secret
  is not allowed, to avoid a password mismatch. The pin that forbids it is in the CR's
  status and goes with the CR, while a CR created again under the same name takes over
  the volume if it comes before the garbage collector: with another secret, or with a
  password generated anew because the old secret was collected first, the database
  does not open these data. `DatabaseOpens` without `maker` is violated so.
* The same CR may take over a volume whose deletion has begun, and loses it, with all
  it has stored since, when the last pod that uses it ends.
* A reconcile that reads the CA's or an agent's secret from a lagging cache, after the
  certificate was renewed, gives the former content to Route and copies. Events of
  that secret wake nobody, so this stays until something else, or the resync, does.
  `TrustCurrent` without `lagged` is violated so.
* An old client's write turns a trusted certificate from a config map into an
  entry without a source.

## 5. Plan

Proofs next: what the abstract `NamespaceAccess` promises by itself, and with it, by
`Refinement`, of `TargetNamespaces`.

Models: composition of `AgentWebhook` with the reconciler's `status` and secrets (a
pod that mounts the agent certificate in a namespace that is dropped), target
namespaces that do not exist, storage and policies in a run of `Workloads`.

Not modelled, and why: pod specs and other resource contents (data, covered by
unit tests), start-up (wiring; what it finds out is a constant of the models), the
clean-up of CORS origins and changes of roleRef (both only after an upgrade from
particular releases, and one call each), generated deep copies (values have no
identity in TLA+), the scorecard test images and generators (test and build
tooling), FIPS detection (one read).
