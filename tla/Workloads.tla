------------------------------ MODULE Workloads ------------------------------
(***************************************************************************)
(* The objects that the reconciler keeps in the namespace of one Cryostat  *)
(* CR: secrets with generated passwords, config maps, Services, network    *)
(* policies, volumes and the four Deployments.  Every object has the CR as *)
(* its owner, is read from a cache, and is left to the garbage collector   *)
(* when the CR goes -- or taken over by a CR that is created again under   *)
(* the same name before the collector gets there.                          *)
(***************************************************************************)
EXTENDS Integers

CONSTANTS IsOpenShift,
          Modelled,    \* the objects of this instance
          Specs,       \* the specs users give the CR
          Tampered,    \* objects that users delete
          Frozen,      \* config maps that users make immutable
          MaxEdits,    \* bound: steps of users
          MaxFaults    \* bound: failed calls and restarts

ConfigMaps  == {"lock", "oauth2Config", "agentProxyConfig"}
Secrets     == {"cookie", "databaseSecret", "storageSecret"}
Services    == {"coreService", "agentService", "databaseService", "storageService",
                "reportsService"}
Exposed     == {"route", "ingress"}
Policies    == {"coreIngressPolicy", "coreEgressPolicy", "databasePolicy",
                "storagePolicy", "reportsPolicy"}
Volumes     == {"databasePVC", "storagePVC"}
Deployments == {"database", "storage", "reports", "core"}
Objects     == ConfigMaps \union Secrets \union Services \union Exposed
                 \union Policies \union Volumes \union Deployments

\* The order in which reconcileCryostat visits them.
Rank ==
  [lock            |-> 1,  cookie            |-> 2,  databaseSecret   |-> 3,
   storageSecret   |-> 4,  oauth2Config      |-> 5,  agentProxyConfig |-> 6,
   coreService     |-> 7,  route             |-> 8,  ingress          |-> 9,
   coreIngressPolicy |-> 10, coreEgressPolicy |-> 11, agentService    |-> 12,
   databasePVC     |-> 13, databaseService   |-> 14, databasePolicy   |-> 15,
   database        |-> 16, storagePVC        |-> 17, storageService   |-> 18,
   storagePolicy   |-> 19, storage           |-> 20, reportsService   |-> 21,
   reportsPolicy   |-> 22, reports           |-> 23, core             |-> 24]

\* What a spec says: a database secret of the user's, volumes or emptyDirs, a
\* managed or an external storage, reports, an Ingress, network policies.
SpecType == [provided : BOOLEAN, ephemeral : BOOLEAN, managed : BOOLEAN,
             reports : BOOLEAN, ingress : BOOLEAN, egress : BOOLEAN, isolated : BOOLEAN]

ASSUME ConstantsAssumption ==
  /\ IsOpenShift \in BOOLEAN
  /\ Modelled \subseteq Objects
  /\ {"databaseSecret", "databasePVC", "database", "core"} \subseteq Modelled
  /\ Specs \subseteq SpecType
  /\ Tampered \subseteq Modelled /\ Frozen \subseteq Modelled \intersect ConfigMaps
  /\ MaxEdits \in Nat /\ MaxFaults \in Nat

VARIABLES
  cr,         \* the CR: phase, uid, spec and status
  cache,      \* the CR in the informer's cache
  cacheFresh, \* the cached resourceVersion is the server's
  mem,        \* the CR a reconcile works on
  memFresh,   \* its resourceVersion is the server's
  obj,        \* the objects
  seen,       \* the objects in the caches
  disk,       \* the password the data on the database's volume was made with
  maker,      \* history: the CR whose Deployment made these data
  passwords,  \* number of the next generated password
  queued,     \* the CR's key is in the work queue
  pc,         \* "idle", "ensure" or "status"
  todo,       \* objects the reconcile has still to visit
  edits, faults

crVars   == <<cr, cache, cacheFresh>>
diskVars == <<disk, maker>>
objVars  == <<obj, seen, diskVars, passwords>>
recVars  == <<mem, memFresh, queued, pc, todo>>
bounds   == <<edits, faults>>
vars     == <<crVars, objVars, recVars, bounds>>

-----------------------------------------------------------------------------
(* Objects.                                                                *)

\* uid: the CR that is the object's controller.
\* bad: a selector, or an immutability, that only a new object can change; a
\* volume that is being deleted.
\* data: a secret's password; for a Deployment the secrets and volumes its pods
\* use, with the hashes of the secrets.
NoData == [r \in {} |-> 0]
Absent == [exists |-> FALSE, uid |-> 0, bad |-> FALSE, data |-> NoData]

SecretName(spec) == IF spec.provided THEN "provided" ELSE "databaseSecret"

\* What the pods of each Deployment refer to: volumes, and secrets and config
\* maps in environments and mounts.
DatabaseVolume(spec)    == IF spec.ephemeral THEN {} ELSE {"databasePVC"}
StorageVolume(spec)     == IF spec.ephemeral THEN {} ELSE {"storagePVC"}
DatabaseContainer(spec) == {SecretName(spec)}
StorageContainer        == {"storageSecret"}
AuthProxyContainer      == {"cookie"}
CoreContainer(spec)     == {SecretName(spec), "storageSecret"}
CoreVolumes             == {"agentProxyConfig"} \union (IF IsOpenShift THEN {} ELSE {"oauth2Config"})
ReportsPod              == {}

Uses(o, spec) ==
  (CASE o = "database" -> DatabaseContainer(spec) \union DatabaseVolume(spec)
     [] o = "storage"  -> StorageContainer \union StorageVolume(spec)
     [] o = "reports"  -> ReportsPod
     [] o = "core"     -> CoreContainer(spec) \union AuthProxyContainer \union CoreVolumes)
  \intersect (Modelled \union {"provided"})

\* The objects a spec asks for.
WantedConfigMaps       == {"lock", "agentProxyConfig"}
                            \union (IF IsOpenShift THEN {} ELSE {"oauth2Config"})
WantedSecrets(spec)    == {"cookie", "storageSecret"}
                            \union (IF spec.provided THEN {} ELSE {"databaseSecret"})
WantedServices(spec)   == {"coreService", "agentService", "databaseService"}
                            \union (IF spec.managed THEN {"storageService"} ELSE {})
                            \union (IF spec.reports THEN {"reportsService"} ELSE {})
WantedExposed(spec)    == IF IsOpenShift THEN {"route"}
                          ELSE IF spec.ingress THEN {"ingress"} ELSE {}
CorePolicies(spec)     == IF ~spec.isolated THEN {}
                          ELSE {"coreIngressPolicy"}
                                 \union (IF spec.egress THEN {"coreEgressPolicy"} ELSE {})
ComponentPolicies(spec) == IF ~spec.isolated THEN {}
                           ELSE {"databasePolicy", "reportsPolicy"}
                                  \union (IF spec.managed THEN {"storagePolicy"} ELSE {})
WantedVolumes(spec)    == IF spec.ephemeral THEN {}
                          ELSE {"databasePVC"} \union (IF spec.managed THEN {"storagePVC"} ELSE {})
WantedDeployments(spec) == {"database", "core"}
                             \union (IF spec.managed THEN {"storage"} ELSE {})
                             \union (IF spec.reports THEN {"reports"} ELSE {})

Wanted(o, spec) ==
  o \in WantedConfigMaps \union WantedSecrets(spec) \union WantedServices(spec)
        \union WantedExposed(spec) \union CorePolicies(spec) \union ComponentPolicies(spec)
        \union WantedVolumes(spec) \union WantedDeployments(spec)

\* Mutant: a volume that is not asked for is removed.
KeptByName(o) == o \in {"databaseSecret", "route"} \/ (o = "ingress" /\ IsOpenShift)

\* Objects that stay when they are not asked for: data, and what belongs to the
\* other platform.
Kept(o) == o \in Volumes \union {"databaseSecret", "route"} \/ (o = "ingress" /\ IsOpenShift)

\* What a reconcile writes into an object: the hashes of a Deployment are of the
\* secrets in the cache, and a password is generated once.
Data(o) ==
  IF o \in Deployments
  THEN [r \in Uses(o, mem.spec) |->
          IF r \in Secrets THEN seen[r].data[r] ELSE 0]
  ELSE IF o \in Secrets /\ ~seen[o].exists THEN [r \in {o} |-> passwords]
  ELSE seen[o].data

-----------------------------------------------------------------------------
(* The reconcile.                                                          *)

NoCR == [phase |-> "absent", uid |-> 0, spec |-> CHOOSE s \in SpecType : TRUE,
         pin |-> "none", reported |-> {}]

NewCR(uid, spec) ==
  [phase |-> "live", uid |-> uid, spec |-> spec, pin |-> "none", reported |-> {}]

\* Either no CR, or one with the Deployments of an operator that used other
\* selectors.
Init ==
  /\ \/ cr = NoCR /\ obj = [o \in Modelled |-> Absent]
     \/ /\ \E s \in Specs : cr = NewCR(1, s)
        /\ obj = [o \in Modelled |->
                    IF o \in Deployments
                    THEN [Absent EXCEPT !.exists = TRUE, !.uid = 1, !.bad = TRUE]
                    ELSE Absent]
  /\ cache = cr /\ cacheFresh = TRUE /\ mem = NoCR /\ memFresh = FALSE
  /\ seen = obj /\ disk = NoData /\ maker = 0 /\ passwords = 1
  /\ queued = (cr.phase = "live") /\ pc = "idle" /\ todo = {}
  /\ edits = 0 /\ faults = 0

Current(o) == o \in todo /\ \A p \in todo : Rank[o] <= Rank[p]

\* Mutant: an error does not put the key back.
ReturnForgets(again) ==
  /\ pc' = "idle" /\ todo' = {} /\ mem' = NoCR /\ memFresh' = FALSE
  /\ UNCHANGED queued

\* A reconcile ends; one that failed is tried again.
Return(again) ==
  /\ pc' = "idle" /\ todo' = {} /\ mem' = NoCR /\ memFresh' = FALSE
  /\ queued' = (queued \/ again)

Reconcile ==
  /\ pc = "idle" /\ queued /\ cache.phase = "live"
  /\ pc' = "ensure" /\ todo' = Modelled
  /\ mem' = cache /\ memFresh' = cacheFresh /\ queued' = FALSE
  /\ UNCHANGED <<crVars, objVars, bounds>>

\* A CR that is being deleted loses its finalizer and is gone; the update is
\* refused while the cached CR is not the server's.
Finalize ==
  /\ pc = "idle" /\ queued /\ cache.phase = "deleting" /\ cacheFresh
  /\ cr' = [NoCR EXCEPT !.uid = cr.uid] /\ cacheFresh' = FALSE /\ queued' = FALSE
  /\ UNCHANGED <<cache, objVars, mem, memFresh, pc, todo, bounds>>

NotFound ==
  /\ pc = "idle" /\ queued /\ cache.phase = "absent" /\ queued' = FALSE
  /\ UNCHANGED <<crVars, objVars, mem, memFresh, pc, todo, bounds>>

\* Visits that are followed by an update of the CR's status.
Reporting == {"databaseSecret", "storageSecret"} \union Deployments

Advance(o) ==
  /\ IF o \in Reporting THEN pc' = "status" /\ UNCHANGED todo
                        ELSE pc' = "ensure" /\ todo' = todo \ {o}
  /\ UNCHANGED <<mem, memFresh, queued>>

\* An object is deleted, and a volume's data with it.
Vanish(o) ==
  /\ obj' = [obj EXCEPT ![o] = Absent]
  /\ IF o = "databasePVC" THEN disk' = NoData /\ maker' = 0 ELSE UNCHANGED diskVars

Visit(o) == pc = "ensure" /\ Current(o) /\ UNCHANGED <<crVars, seen, bounds>>

\* Mutant: the name of the database secret may change.
PinUnchecked(o) == TRUE

\* errDatabaseSecretUpdated: the status names another database secret.
PinMatches(o) ==
  o = "databaseSecret" => mem.pin \in {"none", SecretName(mem.spec)}

\* AnnotateWithObjRefHashes finds what the pods refer to in the caches.
ReferencesSeen(o) ==
  o \in Deployments =>
    \A r \in Uses(o, mem.spec) \intersect (Secrets \union ConfigMaps) : seen[r].exists

\* Mutant: an object that has a controller keeps it.
UpdatedInPlace(o) == [seen[o] EXCEPT !.data = Data(o)]

\* What an update makes of the cached object.  SetControllerReference compares
\* the group, the kind and the name of the controller: an object of a former CR
\* of this name is taken over.
Updated(o) == [seen[o] EXCEPT !.uid = mem.uid, !.data = Data(o)]

\* The immutability of a config map, or the selector of a Deployment, has changed.
MustRecreate(o) == o \in ConfigMaps \union Deployments /\ seen[o].exists /\ seen[o].bad

Refused(o) ==
  /\ Visit(o)
  /\ ~PinMatches(o) \/ (Wanted(o, mem.spec) /\ ~ReferencesSeen(o))
  /\ Return(TRUE) /\ UNCHANGED <<obj, diskVars, passwords>>

\* The object is wanted and nothing speaks against it.
Admitted(o) == PinMatches(o) /\ Wanted(o, mem.spec) /\ ReferencesSeen(o)

\* Mutant: after the deletion the object is created without a look at the cache.
RecreateAtOnce(o) ==
  /\ Visit(o) /\ Admitted(o) /\ MustRecreate(o)
  /\ IF obj[o].exists THEN Vanish(o) /\ UNCHANGED recVars
     ELSE /\ obj' = [obj EXCEPT ![o] = [exists |-> TRUE, uid |-> mem.uid, bad |-> FALSE,
                                        data |-> Data(o)]]
          /\ Advance(o) /\ UNCHANGED diskVars
  /\ UNCHANGED passwords

\* recreateDeployment, recreateConfigMap: after the deletion the cache decides
\* again, so the deletion repeats until the cache has seen it.
Recreate(o) ==
  /\ Visit(o) /\ Admitted(o) /\ MustRecreate(o)
  /\ Vanish(o) /\ UNCHANGED <<passwords, recVars>>

Create(o) ==
  /\ Visit(o) /\ Admitted(o) /\ ~seen[o].exists
  /\ IF obj[o].exists
     THEN Return(TRUE) /\ UNCHANGED <<obj, passwords>>
     ELSE /\ obj' = [obj EXCEPT ![o] = [exists |-> TRUE, uid |-> mem.uid, bad |-> FALSE,
                                        data |-> Data(o)]]
          /\ passwords' = IF o \in Secrets THEN passwords + 1 ELSE passwords
          /\ Advance(o)
  /\ UNCHANGED diskVars

\* An object that is as wanted in the cache is not written.
Update(o) ==
  /\ Visit(o) /\ Admitted(o) /\ seen[o].exists /\ ~MustRecreate(o)
  /\ \/ Updated(o) = seen[o] /\ Advance(o) /\ UNCHANGED obj
     \/ /\ Updated(o) # seen[o] /\ obj[o] = seen[o]
        /\ obj' = [obj EXCEPT ![o] = Updated(o)]
        /\ Advance(o)
     \/ Updated(o) # seen[o] /\ obj[o] # seen[o] /\ Return(TRUE) /\ UNCHANGED obj
  /\ UNCHANGED <<diskVars, passwords>>

Remove(o) ==
  /\ Visit(o) /\ PinMatches(o) /\ ~Wanted(o, mem.spec)
  /\ IF Kept(o) THEN UNCHANGED <<obj, diskVars>> ELSE Vanish(o)
  /\ Advance(o) /\ UNCHANGED passwords

\* Mutant: the conditions of a Deployment that was switched off stay.
ReportedStays(o) ==
  IF o = "databaseSecret" THEN [mem EXCEPT !.pin = SecretName(mem.spec)]
  ELSE IF Wanted(o, mem.spec) THEN [mem EXCEPT !.reported = @ \union {o}] ELSE mem

\* The status after a visit: the names of the secrets, the conditions of a
\* Deployment.
Reported(o) ==
  IF o = "databaseSecret" THEN [mem EXCEPT !.pin = SecretName(mem.spec)]
  ELSE IF Wanted(o, mem.spec) THEN [mem EXCEPT !.reported = @ \union {o}]
  ELSE [mem EXCEPT !.reported = @ \ {o}]

\* The conditions are those of the cached Deployment.
CanReport(o) == memFresh /\ (o \in Deployments /\ Wanted(o, mem.spec) => seen[o].exists)

\* Mutant: the reconcile goes on after the last status.
UpdateStatusAndGoOn(o) ==
  /\ pc = "status" /\ Current(o) /\ CanReport(o)
  /\ cr' = Reported(o) /\ mem' = Reported(o)
  /\ cacheFresh' = (cacheFresh /\ Reported(o) = mem)
  /\ pc' = "ensure" /\ todo' = todo \ {o} /\ UNCHANGED <<memFresh, queued>>
  /\ UNCHANGED <<cache, objVars, bounds>>

UpdateStatus(o) ==
  /\ pc = "status" /\ Current(o) /\ CanReport(o)
  /\ cr' = Reported(o)
  /\ cacheFresh' = (cacheFresh /\ Reported(o) = mem)
  /\ IF todo = {o} THEN Return(FALSE)
     ELSE /\ pc' = "ensure" /\ todo' = todo \ {o} /\ mem' = Reported(o)
          /\ UNCHANGED <<memFresh, queued>>
  /\ UNCHANGED <<cache, objVars, bounds>>

StatusRefused(o) ==
  /\ pc = "status" /\ Current(o) /\ ~CanReport(o)
  /\ Return(TRUE)
  /\ UNCHANGED <<crVars, objVars, bounds>>

Worker ==
  \/ Reconcile \/ Finalize \/ NotFound
  \/ \E o \in Modelled : \/ Refused(o) \/ Recreate(o) \/ Create(o) \/ Update(o)
                         \/ Remove(o) \/ UpdateStatus(o) \/ StatusRefused(o)

-----------------------------------------------------------------------------
(* Informers, the garbage collector, the database, users and failures.     *)

SyncCR ==
  /\ ~cacheFresh
  /\ cache' = cr /\ cacheFresh' = TRUE /\ queued' = TRUE
  /\ UNCHANGED <<cr, objVars, mem, memFresh, pc, todo, bounds>>

\* Kinds that setupWithManager watches: all but network policies.
Watched == Objects \ Policies

SyncObject(o) ==
  /\ seen[o] # obj[o]
  /\ seen' = [seen EXCEPT ![o] = obj[o]]
  /\ queued' = (queued \/ o \in Watched)
  /\ UNCHANGED <<crVars, obj, diskVars, passwords, mem, memFresh, pc, todo, bounds>>

Orphaned(o) == obj[o].exists /\ (cr.phase = "absent" \/ obj[o].uid # cr.uid)
InUse(o)    == \E d \in Deployments \intersect Modelled : o \in DOMAIN obj[d].data

\* Objects whose owner is gone are deleted.  The deletion of a volume waits for
\* the pods that use it, and is not taken back when it gets another owner.
GarbageCollect(o) ==
  /\ Orphaned(o)
  /\ IF o \in Volumes /\ InUse(o)
     THEN ~obj[o].bad /\ obj' = [obj EXCEPT ![o].bad = TRUE] /\ UNCHANGED diskVars
     ELSE Vanish(o)
  /\ UNCHANGED <<crVars, seen, passwords, recVars, bounds>>

\* The last pod that uses a volume under deletion ends.
Unmount(o) ==
  /\ o \in Volumes /\ obj[o].bad
  /\ Vanish(o)
  /\ UNCHANGED <<crVars, seen, passwords, recVars, bounds>>

Password(s) == IF s = "provided" THEN 0 ELSE obj[s].data[s]

\* The database's pod initialises an empty volume with the password it is given.
StartDatabase(s) ==
  LET v == "databasePVC" IN
  /\ {s, v} \subseteq DOMAIN obj["database"].data
  /\ s # "provided" => obj[s].exists
  /\ obj[v].exists /\ disk = NoData /\ disk' = [r \in {s} |-> Password(s)]
  /\ maker' = obj["database"].uid
  /\ UNCHANGED <<crVars, obj, seen, passwords, recVars, bounds>>

Edit == edits < MaxEdits /\ edits' = edits + 1 /\ UNCHANGED faults

ChangeCR(c) ==
  /\ Edit
  /\ cr' = c /\ cacheFresh' = FALSE /\ memFresh' = FALSE
  /\ UNCHANGED <<cache, objVars, mem, queued, pc, todo>>

CreateCR(s) == cr.phase = "absent" /\ ChangeCR(NewCR(cr.uid + 1, s))
EditCR(s)   == cr.phase = "live" /\ s # cr.spec /\ ChangeCR([cr EXCEPT !.spec = s])
DeleteCR    == cr.phase = "live" /\ ChangeCR([cr EXCEPT !.phase = "deleting"])

Tamper(o) ==
  /\ Edit
  /\ obj[o].exists /\ Vanish(o)
  /\ UNCHANGED <<crVars, seen, passwords, recVars>>

Freeze(o) ==
  /\ Edit
  /\ obj[o].exists /\ obj' = [obj EXCEPT ![o].bad = TRUE]
  /\ UNCHANGED <<crVars, diskVars, seen, passwords, recVars>>

Fault == faults < MaxFaults /\ faults' = faults + 1 /\ UNCHANGED edits

\* A call fails, or the Route has no host yet.
CallFails ==
  /\ Fault
  /\ pc # "idle" /\ Return(TRUE)
  /\ UNCHANGED <<crVars, objVars>>

\* The operator restarts: its caches are listed anew and every CR is queued.
Restart ==
  /\ Fault
  /\ pc' = "idle" /\ todo' = {} /\ mem' = NoCR /\ memFresh' = FALSE
  /\ queued' = TRUE /\ cache' = cr /\ cacheFresh' = TRUE /\ seen' = obj
  /\ UNCHANGED <<cr, obj, diskVars, passwords>>

Next ==
  \/ Worker \/ SyncCR
  \/ \E o \in Modelled : SyncObject(o) \/ GarbageCollect(o) \/ Unmount(o)
  \/ \E s \in {"databaseSecret", "provided"} : StartDatabase(s)
  \/ \E s \in Specs : CreateCR(s) \/ EditCR(s)
  \/ DeleteCR
  \/ \E o \in Tampered : Tamper(o)
  \/ \E o \in Frozen : Freeze(o)
  \/ CallFails \/ Restart

Spec == Init /\ [][Next]_vars

\* Workers work and watches deliver; nothing waits for the garbage collector.
FairSpec ==
  /\ Spec /\ WF_vars(Worker) /\ WF_vars(SyncCR)
  /\ WF_vars(\E o \in Modelled : SyncObject(o))

-----------------------------------------------------------------------------
(* Properties.                                                             *)

Labels == {"idle", "ensure", "status"}
Phases == {"absent", "live", "deleting"}

CRType(c) ==
  /\ c.phase \in Phases /\ c.uid \in 0..(MaxEdits + 1) /\ c.spec \in SpecType
  /\ c.pin \in {"none", "databaseSecret", "provided"}
  /\ c.reported \subseteq Reporting \intersect Modelled

ObjectType(x) == /\ x.exists \in BOOLEAN /\ x.uid \in 0..(MaxEdits + 1) /\ x.bad \in BOOLEAN
                 /\ \A r \in DOMAIN x.data : x.data[r] \in 0..(passwords - 1)

\* Types; besides, a reconcile runs exactly as long as objects are left to be
\* visited, and it updates the status only for those that have one.
TypeOK ==
  /\ CRType(cr) /\ CRType(cache) /\ CRType(mem)
  /\ cacheFresh \in BOOLEAN /\ memFresh \in BOOLEAN /\ queued \in BOOLEAN
  /\ DOMAIN obj = Modelled /\ DOMAIN seen = Modelled
  /\ \A o \in Modelled : ObjectType(obj[o]) /\ ObjectType(seen[o])
  /\ pc \in Labels /\ todo \subseteq Modelled
  /\ pc = "idle" <=> todo = {}
  /\ pc = "status" => \E o \in Reporting : Current(o)
  /\ maker \in 0..(MaxEdits + 1) /\ edits \in 0..MaxEdits /\ faults \in 0..MaxFaults

\* The database and its data are the CR's, and its pods mount the volume.
DatabaseRuns ==
  LET d == obj["database"]
      v == obj["databasePVC"]
  IN  /\ cr.phase = "live" /\ d.exists /\ v.exists /\ d.uid = cr.uid /\ v.uid = cr.uid
      /\ "databasePVC" \in DOMAIN d.data

\* The pods are given the secret, and the password, that the data were made with.
PasswordFits ==
  \A s \in DOMAIN disk :
    /\ s \in DOMAIN obj["database"].data
    /\ s # "provided" /\ obj[s].exists => obj[s].data[s] = disk[s]

\* A database that the CR's Deployment starts can open the data that this CR's
\* Deployment made.  This has to survive edits of the secret's name, stale caches,
\* restarts, and secrets, volumes and Deployments taken over from a former CR, some
\* of which the garbage collector took first.
DatabaseOpens == DatabaseRuns /\ maker = cr.uid => PasswordFits

\* While the CR exists nothing but a user removes the database's data, also when
\* its volume is no longer asked for -- unless the volume was taken over from a
\* former CR when its deletion had begun.
DataKept ==
  [][disk # NoData /\ disk' # disk =>
       edits' # edits \/ Orphaned("databasePVC") \/ obj["databasePVC"].bad]_vars

\* The deletion of a Deployment with an old selector is decided on the cache and
\* may be repeated, but it never hits the new Deployment.
NewDeploymentsStay ==
  [][\A d \in Deployments \intersect Modelled :
       obj[d].exists /\ ~obj[d].bad /\ ~obj'[d].exists
       => edits' # edits \/ Orphaned(d) \/ ~Wanted(d, mem.spec)]_vars

\* The object is as the CR wants it; a volume under deletion is, until it goes.
InPlace(o) ==
  IF Wanted(o, cr.spec)
  THEN /\ obj[o].exists /\ obj[o].uid = cr.uid /\ (obj[o].bad => o \in Volumes)
       /\ o \in Deployments =>
            /\ o \in cr.reported
            /\ DOMAIN obj[o].data = Uses(o, cr.spec)
            /\ \A r \in Uses(o, cr.spec) \intersect Secrets : obj[o].data[r] = obj[r].data[r]
  ELSE /\ Kept(o) \/ ~obj[o].exists
       /\ o \notin cr.reported

\* Nothing is under way: no reconcile, none queued, no event of a watched kind
\* to come.
Quiet ==
  /\ pc = "idle" /\ ~queued /\ cacheFresh
  /\ \A o \in Modelled \intersect Watched : seen[o] = obj[o]

\* An operator at rest has a CR's Deployments, with the hashes of the present
\* secrets, and its other objects in place and in the CR's possession, whichever CR
\* they were made for, and reports no Deployment that was switched off.
AtRestInPlace ==
  Quiet /\ cr.phase = "live" => \A o \in Modelled \intersect Watched : InPlace(o)

\* A live CR that keeps its database secret gets all its objects and keeps them, in
\* spite of references that are not cached yet, objects of a former CR and of a
\* former operator version, failures and restarts.
Converges ==
  <>[](cr.phase = "live" /\ cr.pin \in {"none", SecretName(cr.spec)}
       => \A o \in Modelled : InPlace(o))
=============================================================================
