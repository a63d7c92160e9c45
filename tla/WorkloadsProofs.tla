-------------------------- MODULE WorkloadsProofs --------------------------
(***************************************************************************)
(* Proofs about Workloads.  CoreInv holds the types, how far the copies of *)
(* the CR and of its objects may lag behind, and where a reconcile is.     *)
(* DatabaseInv adds what the database's Deployment, secret, volume and     *)
(* data have to do with each other, and RestInv what a visit leaves behind *)
(* for an operator that has no further reconcile to run.                   *)
(***************************************************************************)
EXTENDS Workloads, TLAPS

\* The data and who made them change together.
USE DEF diskVars

-----------------------------------------------------------------------------
(* Forms.                                                                  *)

\* Forms of the CR, of what objects hold, and of objects.
CRs == [phase : Phases, uid : Nat, spec : SpecType, pin : {"none", "databaseSecret", "provided"},
        reported : SUBSET ((Reporting \ {"databaseSecret"}) \intersect Modelled)]

Datas == UNION {[S -> Nat] : S \in SUBSET (Modelled \union {"provided"})}

Objs == [exists : BOOLEAN, uid : Nat, bad : BOOLEAN, data : Datas]

\* The forms of all variables.
Shape ==
  /\ cr \in CRs /\ cache \in CRs /\ mem \in CRs
  /\ cacheFresh \in BOOLEAN /\ memFresh \in BOOLEAN /\ queued \in BOOLEAN
  /\ obj \in [Modelled -> Objs] /\ seen \in [Modelled -> Objs]
  /\ disk \in Datas /\ maker \in Nat /\ passwords \in Nat \ {0}
  /\ pc \in Labels /\ todo \subseteq Modelled
  /\ edits \in 0..MaxEdits /\ faults \in 0..MaxFaults

\* What objects hold is a number for each secret, config map or volume.
LEMMA DataForm ==
  ASSUME NEW x \in Datas
  PROVE  DOMAIN x \subseteq Modelled \union {"provided"} /\ \A r \in DOMAIN x : x[r] \in Nat
BY DEF Datas

\* Nothing is a case of it.
LEMMA NoDataForm == NoData \in Datas /\ DOMAIN NoData = {}
<1>1. NoData \in [{} -> Nat]
  BY DEF NoData
<1> QED BY <1>1 DEF Datas, NoData

\* An object that is not there.
LEMMA AbsentForm ==
  /\ Absent \in Objs /\ ~Absent.exists /\ Absent.uid = 0 /\ ~Absent.bad /\ Absent.data = NoData
BY NoDataForm DEF Absent, Objs

\* A CR that is not there.
LEMMA NoCRForm ==
  /\ NoCR \in CRs /\ NoCR.phase = "absent" /\ NoCR.uid = 0 /\ NoCR.pin = "none"
  /\ NoCR.reported = {}
<1>1. \E s : s \in SpecType
  <2>1. [provided |-> TRUE, ephemeral |-> TRUE, managed |-> TRUE, reports |-> TRUE,
         ingress |-> TRUE, egress |-> TRUE, isolated |-> TRUE] \in SpecType
    BY DEF SpecType
  <2> QED BY <2>1
<1>2. (CHOOSE s \in SpecType : TRUE) \in SpecType
  BY <1>1
<1> QED BY <1>2 DEF NoCR, CRs, Phases

\* A CR that users create.
LEMMA NewCRForm ==
  ASSUME NEW uid \in Nat, NEW s \in SpecType
  PROVE  NewCR(uid, s) \in CRs
BY DEF NewCR, CRs, Phases

\* The status changes nothing else of the CR, and the name of the secret in one place.
LEMMA ReportedForm ==
  ASSUME mem \in CRs, NEW o \in Reporting \intersect Modelled
  PROVE  /\ Reported(o) \in CRs
         /\ Reported(o).phase = mem.phase /\ Reported(o).uid = mem.uid
         /\ Reported(o).spec = mem.spec
         /\ Reported(o).pin = IF o = "databaseSecret" THEN SecretName(mem.spec) ELSE mem.pin
BY DEF Reported, CRs, SecretName

\* Pods refer to objects of the namespace or to the user's secret.
LEMMA UsesForm ==
  ASSUME NEW o \in Deployments, NEW s PROVE Uses(o, s) \subseteq Modelled \union {"provided"}
BY DEF Uses

\* A reconcile visits objects in the order of their ranks.
LEMMA Ranks ==
  /\ \A o, p \in Objects : Rank[o] = Rank[p] => o = p
  /\ \A o \in Objects : Rank[o] \in 1..24
  /\ \A o \in Objects : Rank[o] >= 24 => o = "core"
  /\ \A o \in Reporting : Rank[o] <= Rank["databaseSecret"] => o = "databaseSecret"
  /\ Rank["databaseSecret"] < Rank["database"] /\ Rank["databasePVC"] < Rank["database"]
BY DEF Rank, Objects, ConfigMaps, Secrets, Services, Exposed, Policies, Volumes, Deployments,
       Reporting

\* The object a reconcile is at is the only one.
LEMMA OneCurrent ==
  ASSUME todo \subseteq Modelled, NEW o, NEW p, Current(o), Current(p)
  PROVE  o = p
<1>1. o \in Objects /\ p \in Objects
  BY ConstantsAssumption DEF Current
<1>2. Rank[o] <= Rank[p] /\ Rank[p] <= Rank[o] /\ Rank[o] \in Nat /\ Rank[p] \in Nat
  BY <1>1, Ranks DEF Current
<1>3. Rank[o] = Rank[p]
  BY <1>2
<1> QED BY <1>1, <1>3, Ranks

\* The Deployment of Cryostat itself is the last.
LEMMA LastCurrent ==
  ASSUME todo \subseteq Modelled, Current("core")
  PROVE  todo = {"core"}
<1>1. \A o \in todo : o \in Objects /\ Rank[o] >= Rank["core"] /\ Rank[o] \in Nat
  BY ConstantsAssumption, Ranks DEF Current
<1>2. Rank["core"] = 24
  BY DEF Rank
<1> QED BY <1>1, <1>2, Ranks DEF Current

-----------------------------------------------------------------------------
(* The invariant.                                                          *)

\* A reconcile works on the CR that exists: only the worker ends a CR, and it is busy.
Running == pc # "idle"

\* A copy of the CR that is said to be current is, and no copy is ahead of the CR.
Copies ==
  /\ cacheFresh => cache = cr
  /\ memFresh => mem = cr /\ Running
  /\ cache.uid <= cr.uid /\ mem.uid <= cr.uid /\ maker <= cr.uid /\ cr.uid <= edits + 1
  /\ cache.phase = "live" => cache.uid = cr.uid /\ cr.phase # "absent"
  /\ Running => mem.uid = cr.uid /\ cr.phase # "absent"

\* A reconcile has objects left to visit, and "status" is for those with a status.
Visiting ==
  /\ pc = "idle" <=> todo = {}
  /\ Running => "core" \in todo
  /\ pc = "status" => \E o \in Reporting : Current(o)

\* An owner was a CR; a secret has a password, and passwords were given out.
Sound(x, o) ==
  /\ x.uid <= cr.uid
  /\ \A r \in DOMAIN x.data : x.data[r] < passwords
  /\ o \in Secrets /\ x.exists => o \in DOMAIN x.data
  /\ x.bad => o \in Deployments \union ConfigMaps \union Volumes

\* An object in the cache that must be recreated was not recreated yet.
Before(o) ==
  seen[o].exists /\ seen[o].bad /\ obj[o].exists => obj[o].bad

\* Both for the objects and for the caches.
ObjectsSound == \A o \in Modelled : Sound(obj[o], o) /\ Sound(seen[o], o) /\ Before(o)

\* The inductive invariant that the proofs below build on.
CoreInv == Shape /\ Copies /\ Visiting /\ ObjectsSound

-----------------------------------------------------------------------------
(* Steps that leave the objects alone.                                     *)

\* The objects stay, and the CR gets no smaller uid.
LEMMA ObjectsKept ==
  ASSUME Shape, ObjectsSound, UNCHANGED <<obj, seen, passwords>>, cr' \in CRs, cr'.uid >= cr.uid
  PROVE  ObjectsSound'
<1> SUFFICES ASSUME NEW o \in Modelled PROVE Sound(obj[o], o)' /\ Sound(seen[o], o)' /\ Before(o)'
  BY DEF ObjectsSound
<1>1. Sound(obj[o], o) /\ Sound(seen[o], o) /\ Before(o) /\ obj[o] \in Objs /\ seen[o] \in Objs
  BY DEF ObjectsSound, Shape
<1>2. cr.uid \in Nat /\ cr'.uid \in Nat /\ obj[o].uid \in Nat /\ seen[o].uid \in Nat
  BY <1>1 DEF Shape, CRs, Objs
<1> QED BY <1>1, <1>2 DEF Sound, Before

\* A reconcile ends.
LEMMA ReturnKeeps ==
  ASSUME CoreInv, NEW b \in BOOLEAN, Return(b), cr' \in CRs, cache' \in CRs,
         cacheFresh' \in BOOLEAN, UNCHANGED <<edits, faults>>
  PROVE  /\ mem' = NoCR /\ memFresh' = FALSE /\ pc' = "idle" /\ todo' = {}
         /\ queued' \in BOOLEAN /\ Visiting'
BY DEF CoreInv, Shape, Return, Visiting, Running

\* A reconcile takes over the cached CR.
LEMMA ReconcileCore == ASSUME CoreInv, Reconcile PROVE CoreInv'
<1>1. Shape'
  BY DEF CoreInv, Shape, Reconcile, crVars, objVars, bounds, Labels
<1>2. Copies'
  BY DEF CoreInv, Copies, Reconcile, crVars, objVars, bounds, Running
<1>3. Visiting'
  BY ConstantsAssumption DEF CoreInv, Visiting, Reconcile, Running
<1>4. ObjectsSound'
  BY ObjectsKept DEF CoreInv, Reconcile, crVars, objVars, Shape, CRs
<1> QED BY <1>1, <1>2, <1>3, <1>4 DEF CoreInv

\* The finalizer is removed while no reconcile runs.
LEMMA FinalizeCore == ASSUME CoreInv, Finalize PROVE CoreInv'
<1> DEFINE c == [NoCR EXCEPT !.uid = cr.uid]
<1>1. c \in CRs /\ c.uid = cr.uid /\ c.phase = "absent"
  BY NoCRForm DEF CRs, CoreInv, Shape
<1>2. cr' = c /\ cacheFresh' = FALSE /\ queued' = FALSE
      /\ UNCHANGED <<cache, obj, seen, diskVars, passwords, mem, memFresh, pc, todo, edits, faults>>
      /\ pc = "idle" /\ cache = cr /\ cache.phase = "deleting"
  BY DEF Finalize, objVars, bounds, CoreInv, Copies
<1> HIDE DEF c
<1>3. Shape'
  BY <1>1, <1>2 DEF CoreInv, Shape
<1>4. Copies'
  BY <1>1, <1>2 DEF CoreInv, Copies, Running, Visiting, Shape
<1>5. Visiting'
  BY <1>2 DEF CoreInv, Visiting, Running, Current
<1>6. ObjectsSound'
  BY <1>1, <1>2, ObjectsKept DEF CoreInv, Shape, CRs
<1> QED BY <1>3, <1>4, <1>5, <1>6 DEF CoreInv

\* A key without a CR.
LEMMA NotFoundCore == ASSUME CoreInv, NotFound PROVE CoreInv'
<1>1. /\ UNCHANGED <<cr, cache, cacheFresh, obj, seen, diskVars, passwords, mem, memFresh, pc, todo,
                     edits, faults>>
      /\ queued' = FALSE
  BY DEF NotFound, crVars, objVars, bounds
<1>2. Shape' /\ Copies' /\ Visiting'
  BY <1>1 DEF CoreInv, Shape, Copies, Visiting, Running, Current
<1>3. ObjectsSound'
  BY <1>1, ObjectsKept DEF CoreInv, Shape, CRs
<1> QED BY <1>2, <1>3 DEF CoreInv

\* The status of an object is written, and the reconcile goes on or has come to its end.
LEMMA UpdateStatusCore == ASSUME CoreInv, NEW o \in Modelled, UpdateStatus(o) PROVE CoreInv'
<1>1. mem = cr /\ Running /\ cr \in CRs /\ mem \in CRs /\ pc = "status"
  BY DEF CoreInv, Copies, Shape, UpdateStatus, CanReport
<1>2. /\ o \in Reporting /\ (o = "core" => todo = {o}) /\ "core" \in todo /\ o \in todo
      /\ todo \subseteq Modelled
  <2>1. PICK q \in Reporting : Current(q)
    BY <1>1 DEF CoreInv, Visiting
  <2>2. q = o
    BY <2>1, OneCurrent DEF CoreInv, Shape, UpdateStatus
  <2>3. o = "core" => todo = {o}
    BY LastCurrent DEF CoreInv, Shape, UpdateStatus
  <2> QED BY <1>1, <2>1, <2>2, <2>3 DEF CoreInv, Visiting, Shape, UpdateStatus, Current
<1>3. /\ Reported(o) \in CRs
      /\ Reported(o).phase = mem.phase /\ Reported(o).uid = mem.uid
  BY <1>1, <1>2, ReportedForm
<1>4. /\ cr' = Reported(o) /\ cacheFresh' = (cacheFresh /\ Reported(o) = mem)
      /\ UNCHANGED <<cache, obj, seen, diskVars, passwords, edits, faults>>
      /\ \/ todo = {o} /\ Return(FALSE)
         \/ /\ todo # {o} /\ pc' = "ensure" /\ todo' = todo \ {o} /\ mem' = Reported(o)
            /\ UNCHANGED <<memFresh, queued>>
  BY DEF UpdateStatus, objVars, bounds
<1>5. Shape'
  <2>1. cacheFresh' \in BOOLEAN
    BY <1>4
  <2>2. CASE todo = {o} /\ Return(FALSE)
    BY <1>3, <1>4, <2>1, <2>2, NoCRForm DEF CoreInv, Shape, Return, Labels
  <2>3. CASE /\ pc' = "ensure" /\ todo' = todo \ {o} /\ mem' = Reported(o)
             /\ UNCHANGED <<memFresh, queued>>
    BY <1>3, <1>4, <2>1, <2>3 DEF CoreInv, Shape, Labels
  <2> QED BY <1>4, <2>2, <2>3
<1>6. Copies'
  <2>1. cacheFresh' => cache' = cr'
    BY <1>1, <1>4 DEF CoreInv, Copies
  <2>2. cr'.uid = cr.uid /\ cr'.phase = cr.phase /\ cr.uid \in Nat
    BY <1>1, <1>3, <1>4 DEF CRs
  <2>3. cache'.phase = "live" => cache'.uid = cr'.uid /\ cr'.phase # "absent"
    BY <1>4, <2>2 DEF CoreInv, Copies
  <2>4. cache'.uid <= cr'.uid /\ maker' <= cr'.uid /\ cr'.uid <= edits' + 1
    BY <1>4, <2>2 DEF CoreInv, Copies
  <2>5. CASE todo = {o} /\ Return(FALSE)
    <3>1. mem'.uid = 0 /\ ~Running' /\ memFresh' = FALSE
      BY <2>5, NoCRForm DEF Return, Running
    <3> QED BY <2>1, <2>2, <2>3, <2>4, <3>1 DEF Copies
  <2>6. CASE pc' = "ensure" /\ mem' = Reported(o) /\ UNCHANGED memFresh
    <3>1. mem' = cr' /\ Running'
      BY <1>4, <2>6 DEF Running
    <3>2. cr'.phase # "absent"
      BY <1>1, <2>2 DEF CoreInv, Copies
    <3> QED BY <2>1, <2>2, <2>3, <2>4, <3>1, <3>2 DEF Copies
  <2> QED BY <1>4, <2>5, <2>6
<1>7. Visiting'
  BY <1>2, <1>4 DEF Visiting, Return, Running
<1>8. ObjectsSound'
  BY <1>1, <1>3, <1>4, ObjectsKept DEF CoreInv, CRs
<1> QED BY <1>5, <1>6, <1>7, <1>8 DEF CoreInv

\* A reconcile that ends early changes nothing but the queue.
LEMMA EndCore ==
  ASSUME CoreInv, NEW b \in BOOLEAN, Return(b), UNCHANGED <<crVars, objVars>>,
         edits' = edits, faults' \in 0..MaxFaults
  PROVE  CoreInv'
<1>1. Shape'
  BY NoCRForm DEF CoreInv, Shape, Return, Labels, crVars, objVars
<1>2. Copies'
  BY NoCRForm DEF CoreInv, Copies, Shape, Return, Running, crVars, objVars, CRs
<1>3. Visiting'
  BY DEF Visiting, Return, Running
<1>4. ObjectsSound'
  BY ObjectsKept DEF CoreInv, Shape, CRs, crVars, objVars
<1> QED BY <1>1, <1>2, <1>3, <1>4 DEF CoreInv

\* A conflict, or a Deployment that is not in the cache.
LEMMA StatusRefusedCore == ASSUME CoreInv, NEW o \in Modelled, StatusRefused(o) PROVE CoreInv'
BY EndCore DEF StatusRefused, bounds, CoreInv, Shape

\* An API call fails.
LEMMA CallFailsCore == ASSUME CoreInv, CallFails PROVE CoreInv'
<1>1. faults' \in 0..MaxFaults /\ edits' = edits
  BY ConstantsAssumption DEF CallFails, Fault, CoreInv, Shape
<1> QED BY <1>1, EndCore DEF CallFails

\* The cache takes over the CR.
LEMMA SyncCRCore == ASSUME CoreInv, SyncCR PROVE CoreInv'
<1>1. /\ cache' = cr /\ cacheFresh' = TRUE /\ queued' = TRUE
      /\ UNCHANGED <<cr, obj, seen, diskVars, passwords, mem, memFresh, pc, todo, edits, faults>>
  BY DEF SyncCR, objVars, bounds
<1>2. Shape'
  BY <1>1 DEF CoreInv, Shape
<1>3. Copies'
  BY <1>1 DEF CoreInv, Copies, Running, Shape, CRs
<1>4. Visiting'
  BY <1>1 DEF CoreInv, Visiting, Running, Current
<1>5. ObjectsSound'
  BY <1>1, ObjectsKept DEF CoreInv, Shape, CRs
<1> QED BY <1>2, <1>3, <1>4, <1>5 DEF CoreInv

\* Users create, edit and delete the CR.
LEMMA ChangeCRCore ==
  ASSUME CoreInv, NEW c \in CRs, ChangeCR(c), c.uid <= edits + 2, c.uid >= cr.uid,
         cache.phase = "live" => c.uid = cr.uid /\ c.phase # "absent",
         Running => c.uid = cr.uid /\ c.phase # "absent"
  PROVE  CoreInv'
<1>1. /\ cr' = c /\ cacheFresh' = FALSE /\ memFresh' = FALSE
      /\ UNCHANGED <<cache, obj, seen, diskVars, passwords, mem, queued, pc, todo, faults>>
      /\ edits' = edits + 1 /\ edits < MaxEdits
  BY DEF ChangeCR, Edit, objVars
<1>2. Shape'
  <2>1. edits' \in 0..MaxEdits
    BY <1>1, ConstantsAssumption DEF CoreInv, Shape
  <2> QED BY <1>1, <2>1 DEF CoreInv, Shape
<1>3. Copies'
  BY <1>1 DEF CoreInv, Copies, Running, Shape, CRs
<1>4. Visiting'
  BY <1>1 DEF CoreInv, Visiting, Running, Current
<1>5. ObjectsSound'
  BY <1>1, ObjectsKept DEF CoreInv, Shape, CRs
<1> QED BY <1>2, <1>3, <1>4, <1>5 DEF CoreInv

\* A CR that follows another has the next uid, and no reconcile and no cache is left of it.
LEMMA UserCore ==
  ASSUME CoreInv, DeleteCR \/ \E s \in Specs : CreateCR(s) \/ EditCR(s)
  PROVE  CoreInv'
<1>1. cr \in CRs /\ cr.uid \in Nat /\ cr.uid <= edits + 1 /\ edits \in Nat /\ cache.uid \in Nat
  BY DEF CoreInv, Shape, Copies, CRs
<1>2. CASE DeleteCR
  <2> DEFINE c == [cr EXCEPT !.phase = "deleting"]
  <2>1. c \in CRs /\ c.uid = cr.uid /\ c.phase # "absent"
    BY <1>1 DEF CRs, Phases
  <2>2. ChangeCR(c)
    BY <1>2 DEF DeleteCR
  <2> HIDE DEF c
  <2> QED BY <1>1, <2>1, <2>2, ChangeCRCore
<1>3. ASSUME NEW s \in Specs, EditCR(s) PROVE CoreInv'
  <2> DEFINE c == [cr EXCEPT !.spec = s]
  <2>1. c \in CRs /\ c.uid = cr.uid /\ c.phase # "absent"
    BY <1>1, <1>3, ConstantsAssumption DEF CRs, EditCR
  <2>2. ChangeCR(c)
    BY <1>3 DEF EditCR
  <2> HIDE DEF c
  <2> QED BY <1>1, <2>1, <2>2, ChangeCRCore
<1>4. ASSUME NEW s \in Specs, CreateCR(s) PROVE CoreInv'
  <2> DEFINE c == NewCR(cr.uid + 1, s)
  <2>1. c \in CRs /\ c.uid = cr.uid + 1
    BY <1>1, ConstantsAssumption, NewCRForm DEF NewCR
  <2>2. ChangeCR(c) /\ cr.phase = "absent"
    BY <1>4 DEF CreateCR
  <2>3. cache.phase # "live" /\ ~Running
    BY <2>2 DEF CoreInv, Copies
  <2> HIDE DEF c
  <2> QED BY <1>1, <2>1, <2>2, <2>3, ChangeCRCore
<1> QED BY <1>2, <1>3, <1>4

-----------------------------------------------------------------------------
(* Steps that change objects.                                              *)

\* One object is replaced by another of the right form.
LEMMA ObjectPut ==
  ASSUME CoreInv, NEW o \in Modelled, NEW x \in Objs, obj' = [obj EXCEPT ![o] = x],
         UNCHANGED <<cr, seen>>, passwords' \in Nat, passwords' >= passwords,
         x.uid <= cr.uid, \A r \in DOMAIN x.data : x.data[r] < passwords',
         o \in Secrets /\ x.exists => o \in DOMAIN x.data,
         x.bad => o \in Deployments \union ConfigMaps \union Volumes,
         seen[o].exists /\ seen[o].bad /\ x.exists => x.bad
  PROVE  obj' \in [Modelled -> Objs] /\ ObjectsSound'
<1>1. obj' \in [Modelled -> Objs] /\ obj'[o] = x /\ \A p \in Modelled \ {o} : obj'[p] = obj[p]
  BY DEF CoreInv, Shape
<1>2. ASSUME NEW p \in Modelled
      PROVE  Sound(obj[p], p)' /\ Sound(seen[p], p)' /\ Before(p)'
  <2>1. Sound(obj[p], p) /\ Sound(seen[p], p) /\ Before(p) /\ obj[p] \in Objs /\ seen[p] \in Objs
    BY DEF CoreInv, ObjectsSound, Shape
  <2>2. /\ \A r \in DOMAIN obj[p].data : obj[p].data[r] \in Nat
        /\ \A r \in DOMAIN seen[p].data : seen[p].data[r] \in Nat
    BY <2>1, DataForm DEF Objs
  <2>3. /\ \A r \in DOMAIN obj[p].data : obj[p].data[r] < passwords'
        /\ \A r \in DOMAIN seen[p].data : seen[p].data[r] < passwords'
    BY <2>1, <2>2 DEF Sound, CoreInv, Shape
  <2>4. Sound(seen[p], p)'
    BY <2>1, <2>3 DEF Sound
  <2>5. CASE p = o
    BY <1>1, <2>4, <2>5 DEF Before, Sound
  <2>6. CASE p # o
    BY <1>1, <2>1, <2>3, <2>4, <2>6 DEF Before, Sound
  <2> QED BY <2>5, <2>6
<1> QED BY <1>1, <1>2 DEF ObjectsSound

\* What a reconcile writes into an object has the right form, and its passwords were
\* given out.
LEMMA DataWritten ==
  ASSUME CoreInv, NEW o \in Modelled, ReferencesSeen(o)
  PROVE  /\ Data(o) \in Datas
         /\ \A r \in DOMAIN Data(o) :
              Data(o)[r] < IF o \in Secrets /\ ~seen[o].exists THEN passwords + 1 ELSE passwords
         /\ o \in Secrets => o \in DOMAIN Data(o)
<1>1. mem \in CRs /\ passwords \in Nat \ {0} /\ Secrets \intersect Deployments = {}
  BY DEF CoreInv, Shape, Secrets, Deployments
<1>2. CASE o \in Deployments
  <2> DEFINE S == Uses(o, mem.spec)
  <2>1. S \subseteq Modelled \union {"provided"}
    BY <1>2, UsesForm
  <2>2. ASSUME NEW r \in S, r \in Secrets
        PROVE  seen[r].data[r] \in Nat /\ seen[r].data[r] < passwords
    <3>1. r \in Modelled
      BY <2>1, <2>2 DEF Secrets
    <3>2. seen[r].exists
      BY <1>2, <2>2 DEF ReferencesSeen
    <3>3. Sound(seen[r], r) /\ seen[r].data \in Datas
      BY <3>1 DEF CoreInv, ObjectsSound, Shape, Objs
    <3> QED BY <2>2, <3>2, <3>3, DataForm DEF Sound
  <2>3. Data(o) = [r \in S |-> IF r \in Secrets THEN seen[r].data[r] ELSE 0]
    BY <1>2 DEF Data
  <2> HIDE DEF S
  <2>4. Data(o) \in [S -> Nat]
    BY <2>2, <2>3
  <2>5. Data(o) \in Datas
    BY <2>1, <2>4 DEF Datas
  <2> QED BY <1>1, <1>2, <2>2, <2>3, <2>5
<1>3. CASE o \notin Deployments /\ o \in Secrets /\ ~seen[o].exists
  <2>1. Data(o) = [r \in {o} |-> passwords]
    BY <1>3 DEF Data
  <2>2. Data(o) \in [{o} -> Nat] /\ {o} \in SUBSET (Modelled \union {"provided"})
    BY <1>1, <2>1
  <2> QED BY <1>1, <1>3, <2>1, <2>2 DEF Datas
<1>4. CASE o \notin Deployments /\ ~(o \in Secrets /\ ~seen[o].exists)
  <2>1. Data(o) = seen[o].data
    BY <1>4 DEF Data
  <2>2. Sound(seen[o], o) /\ seen[o].data \in Datas
    BY DEF CoreInv, ObjectsSound, Shape, Objs
  <2> QED BY <1>4, <2>1, <2>2 DEF Sound
<1> QED BY <1>2, <1>3, <1>4

\* A reconcile goes on from the object it is at.
LEMMA AdvanceKeeps ==
  ASSUME CoreInv, NEW o \in Modelled, pc = "ensure", Current(o), Advance(o)
  PROVE  pc' \in Labels /\ todo' \subseteq Modelled /\ Visiting' /\ Running /\ Running'
<1>1. "core" \in todo /\ "core" \in Reporting /\ o \in todo
  BY DEF CoreInv, Visiting, Running, Current, Reporting, Deployments
<1>2. CASE o \in Reporting
  <2>1. pc' = "status" /\ todo' = todo
    BY <1>2 DEF Advance
  <2> QED BY <1>1, <1>2, <2>1 DEF CoreInv, Shape, Labels, Visiting, Running, Current
<1>3. CASE o \notin Reporting
  <2>1. pc' = "ensure" /\ todo' = todo \ {o}
    BY <1>3 DEF Advance
  <2> QED BY <1>1, <1>3, <2>1 DEF CoreInv, Shape, Labels, Visiting, Running
<1> QED BY <1>2, <1>3

\* A step that changes objects and leaves the reconcile where it is.
LEMMA ObjectStep ==
  ASSUME CoreInv, UNCHANGED <<cr, cache, cacheFresh, seen, faults, recVars>>,
         obj' \in [Modelled -> Objs], ObjectsSound', disk' \in Datas, maker' \in 0..cr.uid,
         passwords' \in Nat \ {0},
         edits' \in 0..MaxEdits, edits' >= edits
  PROVE  CoreInv'
<1>1. cr.uid \in Nat /\ edits \in Nat /\ edits' \in Nat
  BY ConstantsAssumption DEF CoreInv, Shape, CRs
<1>2. Shape'
  BY DEF CoreInv, Shape, recVars
<1>3. Copies'
  BY <1>1 DEF CoreInv, Copies, recVars, Running
<1>4. Visiting'
  BY DEF CoreInv, Visiting, recVars, Running, Current
<1> QED BY <1>2, <1>3, <1>4 DEF CoreInv

\* A step of a reconcile that changes objects and goes on to the next.
LEMMA VisitStep ==
  ASSUME CoreInv, NEW o \in Modelled, pc = "ensure", Current(o), Advance(o),
         UNCHANGED <<cr, cache, cacheFresh, seen, edits, faults>>,
         obj' \in [Modelled -> Objs], ObjectsSound', disk' \in Datas, maker' \in 0..cr.uid,
         passwords' \in Nat \ {0}
  PROVE  CoreInv'
<1>1. pc' \in Labels /\ todo' \subseteq Modelled /\ Visiting' /\ Running /\ Running'
  BY AdvanceKeeps
<1>2. UNCHANGED <<mem, memFresh, queued>>
  BY DEF Advance
<1>3. Shape'
  BY <1>1, <1>2 DEF CoreInv, Shape
<1>4. Copies'
  BY <1>1, <1>2 DEF CoreInv, Copies
<1> QED BY <1>1, <1>3, <1>4 DEF CoreInv

\* An object is deleted.
LEMMA VanishKeeps ==
  ASSUME CoreInv, NEW o \in Modelled, Vanish(o), UNCHANGED <<cr, seen, passwords>>
  PROVE  obj' \in [Modelled -> Objs] /\ ObjectsSound' /\ disk' \in Datas /\ maker' \in 0..cr.uid
<1>1. /\ Absent \in Objs /\ ~Absent.exists /\ ~Absent.bad /\ DOMAIN Absent.data = {}
      /\ Absent.uid <= cr.uid
  BY AbsentForm, NoDataForm DEF CoreInv, Shape, CRs
<1>2. passwords' \in Nat /\ passwords' >= passwords
  BY DEF CoreInv, Shape
<1>3. disk' \in Datas /\ maker' \in 0..cr.uid
  BY NoDataForm DEF Vanish, CoreInv, Shape, Copies, CRs
<1> QED BY <1>1, <1>2, <1>3, ObjectPut DEF Vanish

\* A visit that fails.
LEMMA RefusedCore == ASSUME CoreInv, NEW o \in Modelled, Refused(o) PROVE CoreInv'
BY EndCore DEF Refused, Visit, objVars, bounds, CoreInv, Shape

\* A visit that deletes the object for good reason.
LEMMA RecreateCore == ASSUME CoreInv, NEW o \in Modelled, Recreate(o) PROVE CoreInv'
BY VanishKeeps, ObjectStep DEF Recreate, Visit, crVars, bounds, CoreInv, Shape

\* A visit that creates the object, with the next password if it is a secret.
LEMMA CreateCore == ASSUME CoreInv, NEW o \in Modelled, Create(o) PROVE CoreInv'
<1>1. /\ UNCHANGED <<cr, cache, cacheFresh, seen, edits, faults, diskVars>>
      /\ pc = "ensure" /\ Current(o) /\ ReferencesSeen(o) /\ ~seen[o].exists
  BY DEF Create, Visit, Admitted, crVars, bounds
<1>2. passwords \in Nat \ {0} /\ edits \in 0..MaxEdits /\ edits \in Nat /\ disk \in Datas
      /\ maker \in 0..cr.uid
  BY ConstantsAssumption DEF CoreInv, Shape, Copies, CRs
<1>3. CASE Return(TRUE) /\ UNCHANGED <<obj, passwords>>
  BY <1>1, <1>3, EndCore DEF CoreInv, Shape, crVars, objVars
<1>4. CASE ~obj[o].exists
  <2> DEFINE x == [exists |-> TRUE, uid |-> mem.uid, bad |-> FALSE, data |-> Data(o)]
  <2>1. /\ obj' = [obj EXCEPT ![o] = x] /\ Advance(o)
        /\ passwords' = IF o \in Secrets THEN passwords + 1 ELSE passwords
    BY <1>4 DEF Create
  <2>2. x \in Objs /\ x.exists /\ ~x.bad /\ x.data = Data(o) /\ x.uid = mem.uid
    BY <1>1, DataWritten DEF Objs, CoreInv, Shape, CRs
  <2>3. passwords' \in Nat \ {0} /\ passwords' >= passwords
    BY <1>2, <2>1
  <2>4. /\ \A r \in DOMAIN x.data : x.data[r] < passwords'
        /\ o \in Secrets => o \in DOMAIN x.data
    BY <1>1, <2>1, <2>2, DataWritten
  <2>6. x.uid <= cr.uid
    BY <2>2 DEF CoreInv, Copies
  <2> HIDE DEF x
  <2>5. obj' \in [Modelled -> Objs] /\ ObjectsSound'
    BY <1>1, <2>1, <2>2, <2>3, <2>4, <2>6, ObjectPut
  <2> QED BY <1>1, <1>2, <2>1, <2>3, <2>5, VisitStep
<1> QED BY <1>3, <1>4 DEF Create

\* A visit that updates the object, or finds it up to date.
LEMMA UpdateCore == ASSUME CoreInv, NEW o \in Modelled, Update(o) PROVE CoreInv'
<1>1. /\ UNCHANGED <<cr, cache, cacheFresh, seen, edits, faults, diskVars, passwords>>
      /\ pc = "ensure" /\ Current(o) /\ ReferencesSeen(o) /\ seen[o].exists
  BY DEF Update, Visit, Admitted, crVars, bounds
<1>2. passwords \in Nat \ {0} /\ edits \in 0..MaxEdits /\ edits \in Nat /\ disk \in Datas
      /\ maker \in 0..cr.uid
  BY ConstantsAssumption DEF CoreInv, Shape, Copies, CRs
<1>3. CASE Advance(o) /\ UNCHANGED obj
  <2>1. obj' \in [Modelled -> Objs] /\ ObjectsSound'
    BY <1>1, <1>3, ObjectsKept DEF CoreInv, Shape, CRs
  <2> QED BY <1>1, <1>2, <1>3, <2>1, VisitStep
<1>4. CASE Return(TRUE) /\ UNCHANGED obj
  BY <1>1, <1>4, EndCore DEF CoreInv, Shape, crVars, objVars
<1>5. CASE obj[o] = seen[o] /\ obj' = [obj EXCEPT ![o] = Updated(o)] /\ Advance(o)
  <2> DEFINE x == Updated(o)
  <2>1. seen[o] \in Objs /\ Sound(seen[o], o) /\ Data(o) \in Datas
    BY <1>1, DataWritten DEF CoreInv, ObjectsSound, Shape
  <2>2. /\ x \in Objs /\ x.exists /\ x.bad = seen[o].bad /\ x.data = Data(o)
        /\ x.uid = mem.uid
    BY <1>1, <2>1 DEF Objs, Updated, CoreInv, Shape, CRs
  <2>3. obj' = [obj EXCEPT ![o] = x]
    BY <1>5
  <2>4. /\ \A r \in DOMAIN x.data : x.data[r] < passwords'
        /\ o \in Secrets => o \in DOMAIN x.data
        /\ x.uid <= cr.uid /\ (x.bad => o \in Deployments \union ConfigMaps \union Volumes)
    <3>1. \A r \in DOMAIN Data(o) : Data(o)[r] < passwords
      BY <1>1, DataWritten
    <3> QED BY <1>1, <2>1, <2>2, <3>1, DataWritten DEF Sound, CoreInv, Copies
  <2> HIDE DEF x
  <2>5. obj' \in [Modelled -> Objs] /\ ObjectsSound'
    <3>1. passwords' \in Nat /\ passwords' >= passwords /\ (seen[o].bad => x.bad)
      BY <1>1, <1>2, <2>2
    <3> QED BY <1>1, <2>2, <2>3, <2>4, <3>1, ObjectPut
  <2> QED BY <1>1, <1>2, <1>5, <2>5, VisitStep
<1> QED BY <1>3, <1>4, <1>5 DEF Update

\* A visit of an object that is not wanted.
LEMMA RemoveCore == ASSUME CoreInv, NEW o \in Modelled, Remove(o) PROVE CoreInv'
<1>1. /\ UNCHANGED <<cr, cache, cacheFresh, seen, edits, faults, passwords>>
      /\ pc = "ensure" /\ Current(o) /\ Advance(o)
  BY DEF Remove, Visit, crVars, bounds
<1>2. obj' \in [Modelled -> Objs] /\ ObjectsSound' /\ disk' \in Datas /\ maker' \in 0..cr.uid
  <2>1. CASE UNCHANGED <<obj, diskVars>>
    BY <1>1, <2>1, ObjectsKept DEF CoreInv, Shape, Copies, CRs
  <2>2. CASE Vanish(o)
    BY <1>1, <2>2, VanishKeeps
  <2> QED BY <2>1, <2>2 DEF Remove
<1>3. passwords \in Nat \ {0} /\ edits \in 0..MaxEdits /\ edits \in Nat
  BY ConstantsAssumption DEF CoreInv, Shape
<1> QED BY <1>1, <1>2, <1>3, VisitStep

\* The cache takes over an object.
LEMMA SyncObjectCore == ASSUME CoreInv, NEW o \in Modelled, SyncObject(o) PROVE CoreInv'
<1>1. /\ UNCHANGED <<cr, cache, cacheFresh, obj, diskVars, passwords, mem, memFresh, pc, todo,
                     edits, faults>>
      /\ seen' = [seen EXCEPT ![o] = obj[o]]
  BY DEF SyncObject, crVars, bounds
<1>2. queued' \in BOOLEAN
  BY DEF SyncObject, CoreInv, Shape
<1>3. /\ seen' \in [Modelled -> Objs]
      /\ \A p \in Modelled : seen'[p] = IF p = o THEN obj[p] ELSE seen[p]
  BY <1>1 DEF CoreInv, Shape
<1>4. Shape'
  BY <1>1, <1>2, <1>3 DEF CoreInv, Shape
<1>5. Copies' /\ Visiting'
  BY <1>1 DEF CoreInv, Copies, Visiting, Running, Current
<1>6. ObjectsSound'
  BY <1>1, <1>3 DEF CoreInv, ObjectsSound, Sound, Before
<1> QED BY <1>4, <1>5, <1>6 DEF CoreInv

\* A config map gets immutable, or the deletion of a volume begins.
LEMMA MarkKeeps ==
  ASSUME CoreInv, NEW o \in Modelled, o \in ConfigMaps \union Volumes,
         obj' = [obj EXCEPT ![o].bad = TRUE], UNCHANGED <<cr, seen, passwords>>
  PROVE  obj' \in [Modelled -> Objs] /\ ObjectsSound'
<1> DEFINE x == [obj[o] EXCEPT !.bad = TRUE]
<1>1. obj[o] \in Objs /\ Sound(obj[o], o)
  BY DEF CoreInv, ObjectsSound, Shape
<1>2. /\ x \in Objs /\ x.exists = obj[o].exists /\ x.bad /\ x.data = obj[o].data
      /\ x.uid = obj[o].uid
  BY <1>1 DEF Objs
<1>3. obj' = [obj EXCEPT ![o] = x]
  OBVIOUS
<1>4. /\ \A r \in DOMAIN x.data : x.data[r] < passwords'
      /\ x.uid <= cr.uid /\ (o \in Secrets /\ x.exists => o \in DOMAIN x.data)
  BY <1>1, <1>2 DEF Sound
<1>5. passwords' \in Nat /\ passwords' >= passwords
  BY DEF CoreInv, Shape
<1> HIDE DEF x
<1> QED BY <1>2, <1>3, <1>4, <1>5, ObjectPut

\* The collector removes an object, or begins to remove a volume.
LEMMA GarbageCollectCore == ASSUME CoreInv, NEW o \in Modelled, GarbageCollect(o) PROVE CoreInv'
<1>1. UNCHANGED <<cr, cache, cacheFresh, seen, edits, faults, passwords, recVars>>
  BY DEF GarbageCollect, crVars, bounds
<1>2. CASE Vanish(o)
  BY <1>1, <1>2, VanishKeeps, ObjectStep DEF CoreInv, Shape
<1>3. CASE o \in Volumes /\ obj' = [obj EXCEPT ![o].bad = TRUE] /\ UNCHANGED diskVars
  <2>1. obj' \in [Modelled -> Objs] /\ ObjectsSound'
    BY <1>1, <1>3, MarkKeeps
  <2> QED BY <1>1, <1>3, <2>1, ObjectStep DEF CoreInv, Shape, Copies, CRs
<1> QED BY <1>2, <1>3 DEF GarbageCollect

\* A volume whose deletion had begun is gone.
LEMMA UnmountCore == ASSUME CoreInv, NEW o \in Modelled, Unmount(o) PROVE CoreInv'
BY VanishKeeps, ObjectStep DEF Unmount, crVars, bounds, CoreInv, Shape

\* The database initialises its volume with a password that was given out.
LEMMA StartDatabaseCore ==
  ASSUME CoreInv, NEW s \in {"databaseSecret", "provided"}, StartDatabase(s) PROVE CoreInv'
<1>1. /\ UNCHANGED <<cr, cache, cacheFresh, seen, obj, edits, faults, passwords, recVars>>
      /\ disk' = [r \in {s} |-> Password(s)] /\ maker' = obj["database"].uid
      /\ s # "provided" => obj[s].exists
  BY DEF StartDatabase, crVars, bounds
<1>2. Password(s) \in Nat
  <2>1. CASE s = "provided"
    BY <2>1 DEF Password
  <2>2. CASE s = "databaseSecret"
    <3>1. s \in Modelled /\ s \in Secrets
      BY <2>2, ConstantsAssumption DEF Secrets
    <3>2. obj[s].data \in Datas /\ s \in DOMAIN obj[s].data
      BY <1>1, <2>2, <3>1 DEF CoreInv, ObjectsSound, Sound, Shape, Objs
    <3> QED BY <2>2, <3>2, DataForm DEF Password
  <2> QED BY <2>1, <2>2
<1>3. disk' \in Datas
  <2>1. disk' \in [{s} -> Nat] /\ {s} \in SUBSET (Modelled \union {"provided"})
    BY <1>1, <1>2, ConstantsAssumption
  <2> QED BY <2>1 DEF Datas
<1>4. obj' \in [Modelled -> Objs] /\ ObjectsSound'
  BY <1>1, ObjectsKept DEF CoreInv, Shape, CRs
<1>5. passwords \in Nat \ {0} /\ edits \in 0..MaxEdits /\ edits \in Nat
  BY ConstantsAssumption DEF CoreInv, Shape
<1>6. maker' \in 0..cr.uid
  BY <1>1, ConstantsAssumption DEF CoreInv, ObjectsSound, Sound, Shape, Objs, CRs
<1> QED BY <1>1, <1>3, <1>4, <1>5, <1>6, ObjectStep

\* A user deletes an object.
LEMMA TamperCore == ASSUME CoreInv, NEW o \in Modelled, Tamper(o) PROVE CoreInv'
<1>1. /\ UNCHANGED <<cr, cache, cacheFresh, seen, faults, passwords, recVars>> /\ Vanish(o)
  BY DEF Tamper, Edit, crVars
<1>2. edits' \in 0..MaxEdits /\ edits' >= edits
  BY ConstantsAssumption DEF CoreInv, Shape, Tamper, Edit
<1>3. passwords \in Nat \ {0}
  BY DEF CoreInv, Shape
<1> QED BY <1>1, <1>2, <1>3, VanishKeeps, ObjectStep

\* A user makes a config map immutable.
LEMMA FreezeCore == ASSUME CoreInv, NEW o \in Frozen, Freeze(o) PROVE CoreInv'
<1>1. /\ UNCHANGED <<cr, cache, cacheFresh, seen, faults, passwords, diskVars, recVars>>
      /\ obj' = [obj EXCEPT ![o].bad = TRUE]
  BY DEF Freeze, Edit, crVars
<1>2. edits' \in 0..MaxEdits /\ edits' >= edits
  BY ConstantsAssumption DEF CoreInv, Shape, Freeze, Edit
<1>3. o \in Modelled /\ o \in ConfigMaps
  BY ConstantsAssumption
<1>4. obj' \in [Modelled -> Objs] /\ ObjectsSound'
  BY <1>1, <1>3, MarkKeeps
<1> QED BY <1>1, <1>2, <1>4, ObjectStep DEF CoreInv, Shape, Copies, CRs

\* A new process has fresh caches and no reconcile.
LEMMA RestartCore == ASSUME CoreInv, Restart PROVE CoreInv'
<1>1. /\ UNCHANGED <<cr, obj, diskVars, passwords, edits>>
      /\ pc' = "idle" /\ todo' = {} /\ mem' = NoCR /\ memFresh' = FALSE
      /\ queued' = TRUE /\ cache' = cr /\ cacheFresh' = TRUE /\ seen' = obj
  BY DEF Restart, Fault
<1>2. faults' \in 0..MaxFaults
  BY ConstantsAssumption DEF CoreInv, Shape, Restart, Fault
<1>3. Shape'
  BY <1>1, <1>2, NoCRForm DEF CoreInv, Shape, Labels
<1>4. Copies'
  BY <1>1, NoCRForm DEF CoreInv, Copies, Running, Shape, CRs
<1>5. Visiting'
  BY <1>1 DEF Visiting, Running
<1>6. ObjectsSound'
  BY <1>1 DEF CoreInv, ObjectsSound, Sound, Before
<1> QED BY <1>3, <1>4, <1>5, <1>6 DEF CoreInv

\* The first CR, if there is one, has nothing but Deployments of a former operator.
LEMMA InitCore == Init => CoreInv
<1> SUFFICES ASSUME Init PROVE CoreInv
  OBVIOUS
<1> DEFINE old == [Absent EXCEPT !.exists = TRUE, !.uid = 1, !.bad = TRUE]
<1>1. old \in Objs /\ old.exists /\ old.uid = 1 /\ old.bad /\ old.data = NoData
  BY AbsentForm DEF Absent, Objs
<1>2. cr \in CRs /\ cr.uid \in 0..1 /\ cr.phase \in {"absent", "live"}
      /\ (cr.phase = "live" => cr.uid = 1)
  <2>1. CASE cr = NoCR
    BY <2>1, NoCRForm
  <2>2. ASSUME NEW s \in Specs, cr = NewCR(1, s) PROVE cr \in CRs /\ cr.uid = 1 /\ cr.phase = "live"
    BY <2>2, ConstantsAssumption, NewCRForm DEF NewCR
  <2> QED BY <2>1, <2>2, NoCRForm DEF Init
<1>3. /\ \A o \in Modelled : obj[o] = Absent \/ (obj[o] = old /\ o \in Deployments /\ cr.uid = 1)
      /\ obj \in [Modelled -> Objs]
  <2>1. CASE cr = NoCR /\ obj = [o \in Modelled |-> Absent]
    BY <2>1, AbsentForm
  <2>2. CASE /\ \E s \in Specs : cr = NewCR(1, s)
             /\ obj = [o \in Modelled |-> IF o \in Deployments THEN old ELSE Absent]
    <3>1. cr.uid = 1
      BY <2>2 DEF NewCR
    <3> HIDE DEF old
    <3> QED BY <1>1, <2>2, <3>1, AbsentForm
  <2> QED BY <2>1, <2>2 DEF Init
<1> HIDE DEF old
<1>4. /\ cache = cr /\ cacheFresh = TRUE /\ mem = NoCR /\ memFresh = FALSE
      /\ seen = obj /\ disk = NoData /\ maker = 0 /\ passwords = 1
      /\ pc = "idle" /\ todo = {} /\ edits = 0 /\ faults = 0
  BY DEF Init
<1>5. queued \in BOOLEAN
  BY DEF Init
<1>6. Shape
  <2>1. edits \in 0..MaxEdits /\ faults \in 0..MaxFaults
    BY <1>4, ConstantsAssumption
  <2>2. disk \in Datas /\ maker \in Nat /\ passwords \in Nat \ {0} /\ pc \in Labels /\ todo \subseteq Modelled
    BY <1>4, NoDataForm DEF Labels
  <2>3. cache \in CRs /\ mem \in CRs /\ seen \in [Modelled -> Objs] /\ cacheFresh \in BOOLEAN
        /\ memFresh \in BOOLEAN
    BY <1>2, <1>3, <1>4, NoCRForm
  <2> QED BY <1>2, <1>3, <1>5, <2>1, <2>2, <2>3 DEF Shape
<1>7. Copies
  BY <1>2, <1>4, NoCRForm DEF Copies, Running
<1>8. Visiting
  BY <1>4 DEF Visiting, Running
<1>9. ObjectsSound
  <2> SUFFICES ASSUME NEW o \in Modelled PROVE Sound(obj[o], o) /\ Before(o)
    BY <1>4 DEF ObjectsSound, Sound, Before
  <2>1. Before(o)
    BY <1>4 DEF Before
  <2>2. CASE obj[o] = Absent
    BY <1>2, <2>1, <2>2, AbsentForm, NoDataForm DEF Sound
  <2>3. CASE obj[o] = old /\ o \in Deployments /\ cr.uid = 1
    BY <1>1, <2>1, <2>3, NoDataForm DEF Sound, Secrets, Deployments
  <2> QED BY <1>3, <2>2, <2>3
<1> QED BY <1>6, <1>7, <1>8, <1>9 DEF CoreInv

\* Steps of other components.
LEMMA StutterCore == ASSUME CoreInv, UNCHANGED vars PROVE CoreInv'
<1>1. UNCHANGED <<cr, cache, cacheFresh, obj, seen, diskVars, passwords, mem, memFresh, queued, pc,
                  todo, edits, faults>>
  BY DEF vars, crVars, objVars, recVars, bounds
<1>2. Shape' /\ Copies' /\ Visiting'
  BY <1>1 DEF CoreInv, Shape, Copies, Visiting, Running, Current
<1>3. ObjectsSound'
  BY <1>1, ObjectsKept DEF CoreInv, Shape, CRs
<1> QED BY <1>2, <1>3 DEF CoreInv

\* Every step keeps the invariant.
LEMMA NextCore == ASSUME CoreInv, [Next]_vars PROVE CoreInv'
<1>1. CASE Worker
  BY <1>1, ReconcileCore, FinalizeCore, NotFoundCore, RefusedCore, RecreateCore, CreateCore,
     UpdateCore, RemoveCore, UpdateStatusCore, StatusRefusedCore DEF Worker
<1>2. CASE SyncCR \/ CallFails \/ Restart \/ UNCHANGED vars
  BY <1>2, SyncCRCore, CallFailsCore, RestartCore, StutterCore
<1>3. CASE \E o \in Modelled : SyncObject(o) \/ GarbageCollect(o) \/ Unmount(o)
  BY <1>3, SyncObjectCore, GarbageCollectCore, UnmountCore
<1>4. CASE \E s \in {"databaseSecret", "provided"} : StartDatabase(s)
  BY <1>4, StartDatabaseCore
<1>5. CASE DeleteCR \/ \E s \in Specs : CreateCR(s) \/ EditCR(s)
  BY <1>5, UserCore
<1>6. CASE (\E o \in Tampered : Tamper(o)) \/ (\E o \in Frozen : Freeze(o))
  BY <1>6, TamperCore, FreezeCore, ConstantsAssumption
<1> QED BY <1>1, <1>2, <1>3, <1>4, <1>5, <1>6 DEF Next

\* The forms, the freshness of copies, the visits and the soundness of the objects are
\* invariant.
THEOREM Invariance == Spec => []CoreInv
BY InitCore, NextCore, PTL DEF Spec

\* Types, and the bounds of owners and passwords, are part of the invariant.
THEOREM TypeCorrect == Spec => []TypeOK
<1>1. CoreInv => TypeOK
  <2> SUFFICES ASSUME CoreInv PROVE TypeOK
    OBVIOUS
  <2>1. /\ cr \in CRs /\ cache \in CRs /\ mem \in CRs /\ edits \in 0..MaxEdits /\ MaxEdits \in Nat
        /\ passwords \in Nat \ {0}
    BY ConstantsAssumption DEF CoreInv, Shape
  <2>2. /\ cr.uid <= MaxEdits + 1 /\ cache.uid <= cr.uid /\ mem.uid <= cr.uid
        /\ maker \in 0..(MaxEdits + 1)
    BY <2>1 DEF CoreInv, Copies, Shape, CRs
  <2>3. CRType(cr) /\ CRType(cache) /\ CRType(mem)
    BY <2>1, <2>2 DEF CRType, CRs
  <2>4. ASSUME NEW o \in Modelled, NEW x \in Objs, Sound(x, o) PROVE ObjectType(x)
    <3>1. x.uid \in 0..(MaxEdits + 1)
      BY <2>1, <2>2, <2>4 DEF Sound, Objs, CRs
    <3>2. \A r \in DOMAIN x.data : x.data[r] \in 0..(passwords - 1)
      BY <2>1, <2>4, DataForm DEF Sound, Objs
    <3> QED BY <3>1, <3>2 DEF ObjectType, Objs
  <2>5. \A o \in Modelled : ObjectType(obj[o]) /\ ObjectType(seen[o])
    BY <2>4 DEF CoreInv, ObjectsSound, Shape
  <2> QED BY <2>2, <2>3, <2>5 DEF TypeOK, CoreInv, Shape, Visiting
<1> QED BY <1>1, Invariance, PTL

-----------------------------------------------------------------------------
(* What makes an object disappear.                                         *)

\* A user, the garbage collector, a deletion that had begun, a reconcile that replaces it,
\* or one that does not want it.
Loss(o) ==
  \/ edits' # edits \/ Orphaned(o) \/ (o \in Volumes /\ obj[o].bad) \/ MustRecreate(o)
  \/ ~Wanted(o, mem.spec) /\ ~Kept(o)

\* A step that deletes objects deletes one, and the database's data only with their volume.
LEMMA Losses ==
  ASSUME CoreInv, [Next]_vars
  PROVE  /\ \A o \in Modelled : obj[o].exists /\ ~obj'[o].exists => Loss(o)
         /\ disk # NoData /\ disk' # disk => Loss("databasePVC")
<1>1. ASSUME NEW p \in Modelled, Vanish(p), Loss(p)
      PROVE  /\ \A o \in Modelled : obj[o].exists /\ ~obj'[o].exists => Loss(o)
             /\ disk' # disk => Loss("databasePVC")
  BY <1>1 DEF Vanish, CoreInv, Shape
<1>2. CASE UNCHANGED <<obj, diskVars>> \/ UNCHANGED vars
  BY <1>2 DEF vars, objVars
<1>3. ASSUME NEW p \in Modelled, NEW x \in Objs, obj' = [obj EXCEPT ![p] = x],
             obj[p].exists => x.exists, UNCHANGED diskVars
      PROVE  \A o \in Modelled : obj[o].exists /\ ~obj'[o].exists => Loss(o)
  BY <1>3 DEF CoreInv, Shape
<1>4. CASE Reconcile \/ Finalize \/ NotFound \/ SyncCR \/ CallFails \/ Restart
  BY <1>2, <1>4 DEF Reconcile, Finalize, NotFound, SyncCR, CallFails, Restart, objVars
<1>5. CASE DeleteCR \/ \E s \in Specs : CreateCR(s) \/ EditCR(s)
  BY <1>2, <1>5 DEF DeleteCR, CreateCR, EditCR, ChangeCR, objVars
<1>6. ASSUME NEW o \in Modelled, Refused(o) \/ UpdateStatus(o) \/ StatusRefused(o) \/ SyncObject(o)
      PROVE  UNCHANGED <<obj, diskVars>>
  BY <1>6 DEF Refused, UpdateStatus, StatusRefused, SyncObject, objVars
<1>7. ASSUME NEW o \in Modelled, Recreate(o) PROVE Vanish(o) /\ Loss(o)
  BY <1>7 DEF Recreate, Loss
<1>8. ASSUME NEW o \in Modelled, Remove(o) PROVE UNCHANGED <<obj, diskVars>> \/ (Vanish(o) /\ Loss(o))
  BY <1>8 DEF Remove, Loss
<1>9. ASSUME NEW o \in Modelled, GarbageCollect(o) \/ Unmount(o), Vanish(o) PROVE Loss(o)
  BY <1>9 DEF GarbageCollect, Unmount, Loss
<1>10. ASSUME NEW o \in Modelled, Tamper(o) PROVE Vanish(o) /\ Loss(o)
  BY <1>10 DEF Tamper, Edit, Loss, CoreInv, Shape
<1>11. ASSUME NEW p \in Modelled, Create(p)
       PROVE  UNCHANGED diskVars /\ \A o \in Modelled : obj[o].exists /\ ~obj'[o].exists => Loss(o)
  <2>1. UNCHANGED diskVars
    BY <1>11 DEF Create
  <2>2. CASE UNCHANGED obj
    BY <2>1, <2>2
  <2>3. CASE obj' = [obj EXCEPT ![p] = [exists |-> TRUE, uid |-> mem.uid, bad |-> FALSE,
                                        data |-> Data(p)]]
    BY <2>1, <2>3 DEF CoreInv, Shape
  <2> QED BY <1>11, <2>2, <2>3, <2>1 DEF Create
<1>12. ASSUME NEW p \in Modelled,
              Update(p) \/ Freeze(p) \/ ((GarbageCollect(p) \/ Unmount(p)) /\ ~Vanish(p))
       PROVE  UNCHANGED diskVars /\ \A o \in Modelled : obj[o].exists /\ ~obj'[o].exists => Loss(o)
  <2>1. UNCHANGED diskVars
    BY <1>12 DEF Update, Freeze, GarbageCollect, Unmount
  <2>2. CASE UNCHANGED obj
    BY <2>1, <2>2
  <2>3. CASE \/ obj[p] = seen[p] /\ obj' = [obj EXCEPT ![p] = Updated(p)]
             \/ obj' = [obj EXCEPT ![p].bad = TRUE]
    <3>1. obj \in [Modelled -> Objs] /\ obj[p] \in Objs
      BY DEF CoreInv, Shape
    <3>2. obj'[p].exists = obj[p].exists /\ \A o \in Modelled \ {p} : obj'[o] = obj[o]
      BY <2>3, <3>1 DEF Objs, Updated
    <3> QED BY <2>1, <3>2
  <2> QED BY <1>12, <2>1, <2>2, <2>3 DEF Update, Freeze, GarbageCollect, Unmount
<1>13. ASSUME NEW s \in {"databaseSecret", "provided"}, StartDatabase(s)
       PROVE  UNCHANGED obj /\ disk = NoData
  BY <1>13 DEF StartDatabase
<1>14. CASE Worker
  BY <1>1, <1>2, <1>4, <1>6, <1>7, <1>8, <1>11, <1>12, <1>14 DEF Worker
<1>15. CASE \E o \in Modelled : SyncObject(o) \/ GarbageCollect(o) \/ Unmount(o)
  BY <1>1, <1>2, <1>6, <1>9, <1>12, <1>15
<1>16. CASE (\E o \in Tampered : Tamper(o)) \/ (\E o \in Frozen : Freeze(o))
  BY <1>1, <1>10, <1>12, <1>16, ConstantsAssumption
<1>17. CASE \E s \in {"databaseSecret", "provided"} : StartDatabase(s)
  BY <1>13, <1>17
<1> QED BY <1>2, <1>4, <1>5, <1>14, <1>15, <1>16, <1>17 DEF Next

\* The operator never removes the database's data: its volume is kept when it is no
\* longer asked for, and nothing about a volume makes a reconcile replace it.
THEOREM DataIsKept == Spec => DataKept
<1>1. CoreInv /\ [Next]_vars =>
        [disk # NoData /\ disk' # disk =>
           edits' # edits \/ Orphaned("databasePVC") \/ obj["databasePVC"].bad]_vars
  <2> SUFFICES ASSUME CoreInv, [Next]_vars, disk # NoData, disk' # disk
               PROVE  edits' # edits \/ Orphaned("databasePVC") \/ obj["databasePVC"].bad
    OBVIOUS
  <2>1. Loss("databasePVC")
    BY Losses
  <2>2. ~MustRecreate("databasePVC")
    BY DEF MustRecreate, Deployments, ConfigMaps
  <2>3. Kept("databasePVC")
    BY DEF Kept, Volumes
  <2> QED BY <2>1, <2>2, <2>3 DEF Loss
<1> QED BY <1>1, Invariance, PTL DEF DataKept, Spec

\* The Deployment that replaced one with an old selector is not deleted by mistake: as
\* long as the cache shows the old one, the new one has not been created.
THEOREM NewOnesStay == Spec => NewDeploymentsStay
<1> DEFINE A == \A d \in Deployments \intersect Modelled :
                  obj[d].exists /\ ~obj[d].bad /\ ~obj'[d].exists
                  => edits' # edits \/ Orphaned(d) \/ ~Wanted(d, mem.spec)
<1>1. CoreInv /\ [Next]_vars => A
  <2> SUFFICES ASSUME CoreInv, [Next]_vars, NEW d \in Deployments \intersect Modelled,
                      obj[d].exists, ~obj[d].bad, ~obj'[d].exists
               PROVE  edits' # edits \/ Orphaned(d) \/ ~Wanted(d, mem.spec)
    OBVIOUS
  <2>1. Loss(d)
    BY Losses
  <2>2. ~MustRecreate(d)
    BY DEF MustRecreate, CoreInv, ObjectsSound, Before
  <2>3. d \notin Volumes
    BY DEF Deployments, Volumes
  <2> QED BY <2>1, <2>2, <2>3 DEF Loss
<1>2. NewDeploymentsStay <=> [][A]_vars
  BY DEF NewDeploymentsStay
<1> HIDE DEF A
<1> QED BY <1>1, <1>2, Invariance, PTL DEF Spec

-----------------------------------------------------------------------------
(* The database.                                                           *)

\* The object is there and belongs to the CR.
Here(o) == obj[o].exists /\ obj[o].uid = cr.uid

\* What users leave alone is there when the cache says so.
Stays(o) == cr.phase # "absent" /\ seen[o].exists /\ seen[o].uid = cr.uid => Here(o)

\* The name of the database secret that a copy of the CR has is the CR's.
Pinned(c) == c.uid = cr.uid /\ cr.phase # "absent" /\ c.pin # "none" => c.pin = cr.pin

\* The secret that the reconcile's spec asks for is the CR's.
SecretReady == ~mem.spec.provided => Here("databaseSecret")

\* What a reconcile has made sure of when it has gone past the secret.
Ensured ==
  /\ pc = "status" /\ "databaseSecret" \in todo =>
       mem.pin \in {"none", SecretName(mem.spec)} /\ SecretReady
  /\ Running /\ "databaseSecret" \notin todo => mem.pin = SecretName(mem.spec) /\ SecretReady

\* A Deployment with a volume is there, and that of the CR uses the secret that the CR
\* names.
DatabaseSound ==
  "databasePVC" \in DOMAIN obj["database"].data =>
    /\ obj["database"].exists
    /\ Here("database") /\ cr.phase # "absent" =>
         /\ DOMAIN obj["database"].data \intersect {"databaseSecret", "provided"} = {cr.pin}
         /\ cr.pin = "databaseSecret" => Here("databaseSecret")

\* Data that the CR's Deployment made were made with the secret that the CR names.
DiskSound ==
  maker = cr.uid /\ cr.phase # "absent" =>
    \A s \in DOMAIN disk :
      /\ s = cr.pin /\ s # "none"
      /\ s = "databaseSecret" =>
           Here("databaseSecret") /\ obj["databaseSecret"].data["databaseSecret"] = disk[s]

\* Objects, copies and the disk fit each other.
Kin == /\ Stays("databaseSecret")
       /\ Pinned(cache) /\ Pinned(mem) /\ DatabaseSound /\ DiskSound

\* The inductive invariant of the database, together with CoreInv.
DatabaseInv == Kin /\ Ensured

\* The objects it is about.
Names == {"databaseSecret", "database"}

\* A spec asks for the operator's secret, or gives one.
LEMMA DatabaseWanted ==
  ASSUME NEW s \in SpecType PROVE Wanted("databaseSecret", s) <=> ~s.provided
BY DEF Wanted, WantedConfigMaps, WantedSecrets, WantedServices, WantedExposed, CorePolicies,
       ComponentPolicies, WantedVolumes, WantedDeployments

\* The secret that the pod of the database refers to.
LEMMA DatabaseUses ==
  ASSUME NEW s \in SpecType
  PROVE  Uses("database", s) \intersect {"databaseSecret", "provided"} = {SecretName(s)}
<1>1. Uses("database", s) = (DatabaseContainer(s) \union DatabaseVolume(s))
                              \intersect (Modelled \union {"provided"})
  BY DEF Uses
<1> QED BY <1>1, ConstantsAssumption DEF DatabaseContainer, DatabaseVolume, SecretName

\* Steps that touch nothing of the database.
LEMMA KinKept ==
  ASSUME Kin, UNCHANGED <<cr, cache, mem, diskVars>>, \A o \in Names : obj'[o] = obj[o],
         \A o \in Names : seen'[o] = seen[o]
  PROVE  Kin'
<1>1. UNCHANGED <<obj["databaseSecret"], obj["database"], seen["databaseSecret"]>>
  BY DEF Names
<1>2. Stays("databaseSecret")' /\ Pinned(cache)' /\ Pinned(mem)'
  BY <1>1 DEF Kin, Stays, Here, Pinned
<1>3. DatabaseSound'
  BY <1>1 DEF Kin, DatabaseSound, Here
<1>4. DiskSound'
  BY <1>1 DEF Kin, DiskSound, Here
<1> QED BY <1>2, <1>3, <1>4 DEF Kin

\* The secret stays, and so does the reconcile.
LEMMA EnsuredKept ==
  ASSUME Ensured, UNCHANGED <<cr, mem, pc, todo>>,
         Running /\ Here("databaseSecret") => Here("databaseSecret")'
  PROVE  Ensured'
BY DEF Ensured, Running, SecretReady

\* A reconcile that ends has nothing to make sure of.
LEMMA ReturnDatabase ==
  ASSUME NEW b, Return(b) PROVE Ensured' /\ Pinned(mem)'
BY NoCRForm DEF Return, Ensured, Running, Pinned

\* A reconcile ends early.
LEMMA EndDatabase ==
  ASSUME DatabaseInv, NEW b, Return(b), UNCHANGED <<crVars, objVars>> PROVE DatabaseInv'
<1>1. Ensured' /\ Pinned(mem)'
  BY ReturnDatabase
<1>2. UNCHANGED <<cr, cache, obj, seen, diskVars>>
  BY DEF crVars, objVars
<1>3. Kin'
  BY <1>1, <1>2 DEF DatabaseInv, Kin, Stays, Here, Pinned, DatabaseSound, DiskSound
<1> QED BY <1>1, <1>3 DEF DatabaseInv

\* A reconcile begins.
LEMMA ReconcileDatabase == ASSUME CoreInv, DatabaseInv, Reconcile PROVE DatabaseInv'
<1>1. /\ UNCHANGED <<cr, cache, obj, seen, diskVars>> /\ pc' = "ensure" /\ todo' = Modelled
      /\ mem' = cache
  BY DEF Reconcile, crVars, objVars
<1>2. Kin'
  BY <1>1 DEF DatabaseInv, Kin, Stays, Here, Pinned, DatabaseSound, DiskSound
<1>3. Ensured'
  BY <1>1, ConstantsAssumption DEF Ensured
<1> QED BY <1>2, <1>3 DEF DatabaseInv

\* The CR goes.
LEMMA FinalizeDatabase == ASSUME CoreInv, DatabaseInv, Finalize PROVE DatabaseInv'
<1>1. /\ cr' = [NoCR EXCEPT !.uid = cr.uid]
      /\ UNCHANGED <<cache, obj, seen, diskVars, mem, pc, todo>> /\ pc = "idle"
  BY DEF Finalize, objVars
<1>2. cr'.phase = "absent"
  BY <1>1, NoCRForm DEF CRs
<1>3. Kin'
  BY <1>1, <1>2 DEF DatabaseInv, Kin, Stays, Pinned, DatabaseSound, DiskSound
<1>4. Ensured'
  BY <1>1 DEF Ensured, Running
<1> QED BY <1>3, <1>4 DEF DatabaseInv

\* The status that names the secret does not rename it.
LEMMA UpdateStatusDatabase ==
  ASSUME CoreInv, DatabaseInv, NEW o \in Modelled, UpdateStatus(o) PROVE DatabaseInv'
<1>1. mem = cr /\ Running /\ cr \in CRs /\ mem \in CRs /\ pc = "status" /\ Current(o)
  BY DEF CoreInv, Copies, Shape, UpdateStatus, CanReport
<1>2. o \in Reporting
  <2>1. PICK q \in Reporting : Current(q)
    BY <1>1 DEF CoreInv, Visiting
  <2> QED BY <1>1, <2>1, OneCurrent DEF CoreInv, Shape
<1>3. /\ cr' = Reported(o) /\ UNCHANGED <<cache, obj, seen, diskVars>>
      /\ \/ Return(FALSE)
         \/ pc' = "ensure" /\ todo' = todo \ {o} /\ mem' = cr'
  BY DEF UpdateStatus, objVars
<1>4. /\ cr'.uid = cr.uid /\ cr'.phase = cr.phase /\ cr'.spec = cr.spec
      /\ cr'.pin = IF o = "databaseSecret" THEN SecretName(cr.spec) ELSE cr.pin
  BY <1>1, <1>2, <1>3, ReportedForm
<1>5. cr.pin # "none" => cr'.pin = cr.pin
  BY <1>1, <1>4 DEF DatabaseInv, Ensured, Current
<1>6. Stays("databaseSecret")'
  BY <1>3, <1>4 DEF DatabaseInv, Kin, Stays, Here
<1>7. Pinned(cache)'
  BY <1>3, <1>4, <1>5 DEF DatabaseInv, Kin, Pinned
<1>8. DatabaseSound'
  <2>1. ASSUME "databasePVC" \in DOMAIN obj["database"].data, Here("database"), cr.phase # "absent"
        PROVE  cr'.pin = cr.pin
    BY <1>5, <2>1 DEF DatabaseInv, Kin, DatabaseSound
  <2> QED BY <1>3, <1>4, <2>1 DEF DatabaseInv, Kin, DatabaseSound, Here
<1>9. DiskSound'
  BY <1>3, <1>4, <1>5 DEF DatabaseInv, Kin, DiskSound, Here
<1>10. Ensured' /\ Pinned(mem)'
  <2>1. CASE Return(FALSE)
    BY <2>1, ReturnDatabase
  <2>2. CASE pc' = "ensure" /\ todo' = todo \ {o} /\ mem' = cr'
    <3>1. Pinned(mem)'
      BY <2>2 DEF Pinned
    <3>2. SecretReady => SecretReady'
      BY <1>1, <1>3, <1>4, <2>2 DEF SecretReady, Here
    <3>3. SecretName(mem.spec)' = SecretName(mem.spec)
      BY <1>1, <1>4, <2>2 DEF SecretName
    <3> QED BY <1>1, <1>4, <2>2, <3>1, <3>2, <3>3
            DEF DatabaseInv, Ensured, Running, Current
  <2> QED BY <1>3, <2>1, <2>2
<1> QED BY <1>6, <1>7, <1>8, <1>9, <1>10 DEF DatabaseInv, Kin

\* The cache takes over the CR, with its name of the secret.
LEMMA SyncCRDatabase == ASSUME DatabaseInv, SyncCR PROVE DatabaseInv'
<1>1. UNCHANGED <<cr, obj, seen, diskVars, mem, pc, todo>> /\ cache' = cr
  BY DEF SyncCR, objVars
<1>2. Kin'
  BY <1>1 DEF DatabaseInv, Kin, Stays, Here, Pinned, DatabaseSound, DiskSound
<1>3. Ensured'
  BY <1>1, EnsuredKept DEF DatabaseInv, Here
<1> QED BY <1>2, <1>3 DEF DatabaseInv

\* A CR that is created has no objects and no data yet, only those of former CRs; an edit
\* leaves the name of the secret.
LEMMA UserDatabase ==
  ASSUME CoreInv, DatabaseInv, DeleteCR \/ \E s \in Specs : CreateCR(s) \/ EditCR(s)
  PROVE  DatabaseInv'
<1>0. cr \in CRs /\ cr.uid \in Nat
  BY DEF CoreInv, Shape, CRs
<1>1. UNCHANGED <<cache, obj, seen, diskVars, mem, pc, todo>>
  BY DEF DeleteCR, CreateCR, EditCR, ChangeCR, objVars
<1>2. CASE DeleteCR \/ \E s \in Specs : EditCR(s)
  <2>1. /\ cr'.uid = cr.uid /\ cr'.pin = cr.pin /\ cr.phase # "absent" /\ cr'.phase # "absent"
    BY <1>0, <1>2 DEF DeleteCR, EditCR, ChangeCR, CRs
  <2>2. \A o : Here(o)' <=> Here(o)
    BY <1>1, <2>1 DEF Here
  <2>3. Stays("databaseSecret")' /\ Pinned(cache)' /\ Pinned(mem)'
    BY <1>1, <2>1, <2>2 DEF DatabaseInv, Kin, Stays, Pinned
  <2>4. DatabaseSound' /\ DiskSound'
    BY <1>1, <2>1, <2>2 DEF DatabaseInv, Kin, DatabaseSound, DiskSound
  <2>5. Ensured'
    BY <1>1, <2>2 DEF DatabaseInv, Ensured, Running, SecretReady
  <2> QED BY <2>3, <2>4, <2>5 DEF DatabaseInv, Kin
<1>3. ASSUME NEW s \in Specs, CreateCR(s) PROVE DatabaseInv'
  <2>1. cr'.uid = cr.uid + 1 /\ cr.phase = "absent"
    BY <1>0, <1>3 DEF CreateCR, ChangeCR, NewCR
  <2>2. pc = "idle"
    BY <2>1 DEF CoreInv, Copies, Running
  <2>3. \A o \in Modelled : /\ obj[o].uid \in Nat /\ obj[o].uid <= cr.uid
                            /\ seen[o].uid \in Nat /\ seen[o].uid <= cr.uid
    BY DEF CoreInv, ObjectsSound, Sound, Shape, Objs
  <2>4. \A o \in Names : obj[o].uid # cr'.uid /\ seen[o].uid # cr'.uid
    BY <1>0, <2>1, <2>3, ConstantsAssumption DEF Names
  <2>5. cache.uid # cr'.uid /\ mem.uid # cr'.uid /\ maker # cr'.uid
    BY <1>0, <2>1 DEF CoreInv, Copies, Shape, CRs
  <2>6. Kin'
    BY <1>1, <2>4, <2>5 DEF DatabaseInv, Kin, Stays, Here, Pinned, DatabaseSound, DiskSound, Names
  <2>7. Ensured'
    BY <1>1, <2>2 DEF Ensured, Running
  <2> QED BY <2>6, <2>7 DEF DatabaseInv
<1> QED BY <1>2, <1>3

\* The cache takes over an object.
LEMMA SyncObjectDatabase ==
  ASSUME CoreInv, DatabaseInv, NEW o \in Modelled, SyncObject(o) PROVE DatabaseInv'
<1>1. UNCHANGED <<cr, cache, obj, diskVars, mem, pc, todo>> /\ seen' = [seen EXCEPT ![o] = obj[o]]
  BY DEF SyncObject, crVars
<1>2. \A p \in Modelled : seen'[p] = seen[p] \/ seen'[p] = obj[p]
  BY <1>1 DEF CoreInv, Shape
<1>3. Stays("databaseSecret")'
  BY <1>1, <1>2, ConstantsAssumption DEF DatabaseInv, Kin, Stays, Here
<1>4. Pinned(cache)' /\ Pinned(mem)' /\ DatabaseSound' /\ DiskSound'
  BY <1>1 DEF DatabaseInv, Kin, Here, Pinned, DatabaseSound, DiskSound
<1>5. Ensured'
  BY <1>1, EnsuredKept DEF DatabaseInv, Here
<1> QED BY <1>3, <1>4, <1>5 DEF DatabaseInv, Kin

\* A new process has fresh caches.
LEMMA RestartDatabase == ASSUME CoreInv, DatabaseInv, Restart PROVE DatabaseInv'
<1>1. /\ UNCHANGED <<cr, obj, diskVars>> /\ cache' = cr /\ mem' = NoCR /\ seen' = obj /\ pc' = "idle"
  BY DEF Restart
<1>2. Kin'
  BY <1>1, NoCRForm DEF DatabaseInv, Kin, Stays, Here, Pinned, DatabaseSound, DiskSound
<1>3. Ensured'
  BY <1>1 DEF Ensured, Running
<1> QED BY <1>2, <1>3 DEF DatabaseInv

\* Steps that change nothing of the database, the reconcile included.
LEMMA FrameDatabase ==
  ASSUME DatabaseInv, UNCHANGED <<cr, cache, mem, diskVars, pc, todo>>,
         \A o \in Names : obj'[o] = obj[o], \A o \in Names : seen'[o] = seen[o]
  PROVE  DatabaseInv'
<1>1. Kin'
  BY KinKept DEF DatabaseInv
<1>2. Ensured'
  BY EnsuredKept DEF DatabaseInv, Here, Names
<1> QED BY <1>1, <1>2 DEF DatabaseInv

\* A database that the CR's Deployment makes is made with the secret that the CR names.
LEMMA StartDatabaseDatabase ==
  ASSUME CoreInv, DatabaseInv, NEW s \in {"databaseSecret", "provided"}, StartDatabase(s)
  PROVE  DatabaseInv'
<1>1. /\ UNCHANGED <<cr, cache, obj, seen, mem, pc, todo>> /\ disk' = [r \in {s} |-> Password(s)]
      /\ maker' = obj["database"].uid
      /\ s \in DOMAIN obj["database"].data /\ "databasePVC" \in DOMAIN obj["database"].data
  BY DEF StartDatabase, crVars, recVars
<1>2. ASSUME maker' = cr.uid, cr.phase # "absent"
      PROVE  s = cr.pin /\ (s = "databaseSecret" => Here("databaseSecret"))
  BY <1>1, <1>2 DEF DatabaseInv, Kin, DatabaseSound, Here
<1>3. DiskSound'
  BY <1>1, <1>2 DEF DiskSound, Here, Password
<1>4. Kin'
  BY <1>1, <1>3 DEF DatabaseInv, Kin, Stays, Here, Pinned, DatabaseSound
<1>5. Ensured'
  BY <1>1, EnsuredKept DEF DatabaseInv, Here
<1> QED BY <1>4, <1>5 DEF DatabaseInv

\* The collector takes no secret of the CR; a volume takes its data along.
LEMMA VanishKin ==
  ASSUME CoreInv, DatabaseInv, NEW o \in Modelled, Vanish(o),
         UNCHANGED <<cr, cache, mem, seen>>, o = "databaseSecret" => Orphaned(o)
  PROVE  /\ Kin'
         /\ cr.phase # "absent" /\ Here("databaseSecret") => Here("databaseSecret")'
<1>1. /\ obj'[o] = Absent /\ \A p \in Modelled \ {o} : obj'[p] = obj[p]
      /\ IF o = "databasePVC" THEN disk' = NoData /\ maker' = 0 ELSE UNCHANGED <<disk, maker>>
  BY DEF Vanish, CoreInv, Shape
<1>2. Names \subseteq Modelled /\ "databasePVC" \notin Names
  BY ConstantsAssumption DEF Names
<1>3. CASE o \notin Names /\ o # "databasePVC"
  BY <1>1, <1>2, <1>3, KinKept DEF Names, DatabaseInv, Here
<1>4. CASE o = "database"
  <2>1. /\ UNCHANGED <<disk, maker>> /\ obj'["database"] = Absent
        /\ UNCHANGED obj["databaseSecret"]
    BY <1>1, <1>2, <1>4 DEF Names
  <2>2. DatabaseSound'
    BY <2>1, AbsentForm, NoDataForm DEF DatabaseSound
  <2>3. Kin'
    BY <2>1, <2>2 DEF DatabaseInv, Kin, Stays, Here, Pinned, DiskSound
  <2> QED BY <2>1, <2>3 DEF Here
<1>5. CASE o = "databaseSecret"
  <2>1. /\ UNCHANGED <<disk, maker>> /\ ~obj'["databaseSecret"].exists
        /\ UNCHANGED obj["database"]
    BY <1>1, <1>2, <1>5, AbsentForm DEF Names
  <2>2. cr.phase # "absent" => ~Here("databaseSecret")
    BY <1>5 DEF Orphaned, Here
  <2>3. Stays("databaseSecret")' /\ Pinned(cache)' /\ Pinned(mem)'
    BY <2>1, <2>2 DEF DatabaseInv, Kin, Stays, Here, Pinned
  <2>4. DatabaseSound' /\ DiskSound'
    BY <2>1, <2>2 DEF DatabaseInv, Kin, DatabaseSound, DiskSound, Here
  <2> QED BY <2>1, <2>2, <2>3, <2>4 DEF Kin, Here
<1>6. CASE o = "databasePVC"
  <2>1. disk' = NoData /\ UNCHANGED <<obj["database"], obj["databaseSecret"]>>
    BY <1>1, <1>2, <1>6 DEF Names
  <2>2. Stays("databaseSecret")' /\ Pinned(cache)' /\ Pinned(mem)' /\ DatabaseSound'
    BY <2>1 DEF DatabaseInv, Kin, Stays, Here, Pinned, DatabaseSound
  <2>3. DiskSound'
    BY <2>1, NoDataForm DEF DiskSound
  <2> QED BY <2>1, <2>2, <2>3 DEF Kin, Here
<1> QED BY <1>3, <1>4, <1>5, <1>6 DEF Names

\* An object disappears, and the reconcile stays where it is.
LEMMA VanishDatabase ==
  ASSUME CoreInv, DatabaseInv, NEW o \in Modelled, Vanish(o),
         UNCHANGED <<cr, cache, mem, seen, pc, todo>>, o = "databaseSecret" => Orphaned(o)
  PROVE  DatabaseInv'
<1>1. Running => cr.phase # "absent"
  BY DEF CoreInv, Copies
<1>2. Ensured'
  BY <1>1, VanishKin, EnsuredKept DEF DatabaseInv
<1> QED BY <1>2, VanishKin DEF DatabaseInv

\* A config map gets immutable, or the deletion of a volume begins.
LEMMA MarkDatabase ==
  ASSUME CoreInv, DatabaseInv, NEW o \in Modelled, o \in ConfigMaps \union Volumes,
         obj' = [obj EXCEPT ![o].bad = TRUE], UNCHANGED <<cr, cache, mem, diskVars, pc, todo, seen>>
  PROVE  DatabaseInv'
<1>1. o \notin Names /\ Names \subseteq Modelled
  BY ConstantsAssumption DEF Names, ConfigMaps, Volumes
<1>2. \A p \in Names : obj'[p] = obj[p]
  BY <1>1 DEF CoreInv, Shape
<1> QED BY <1>2, FrameDatabase

\* Config maps do not matter to the database.
LEMMA FreezeDatabase == ASSUME CoreInv, DatabaseInv, NEW o \in Frozen, Freeze(o) PROVE DatabaseInv'
BY MarkDatabase, ConstantsAssumption DEF Freeze, crVars, recVars

\* The collector removes an object, or begins to.
LEMMA GarbageCollectDatabase ==
  ASSUME CoreInv, DatabaseInv, NEW o \in Modelled, GarbageCollect(o) PROVE DatabaseInv'
<1>1. UNCHANGED <<cr, cache, mem, seen, pc, todo>> /\ Orphaned(o)
  BY DEF GarbageCollect, crVars, recVars
<1>2. CASE Vanish(o)
  BY <1>1, <1>2, VanishDatabase
<1>3. CASE o \in Volumes /\ obj' = [obj EXCEPT ![o].bad = TRUE] /\ UNCHANGED diskVars
  BY <1>1, <1>3, MarkDatabase
<1> QED BY <1>2, <1>3 DEF GarbageCollect

\* A volume goes whose deletion had begun.
LEMMA UnmountDatabase ==
  ASSUME CoreInv, DatabaseInv, NEW o \in Modelled, Unmount(o) PROVE DatabaseInv'
<1>1. UNCHANGED <<cr, cache, mem, seen, pc, todo>> /\ Vanish(o) /\ o # "databaseSecret"
  BY DEF Unmount, crVars, recVars, Volumes
<1> QED BY <1>1, VanishDatabase

\* A user deletes an object that holds no password.
LEMMA TamperDatabase ==
  ASSUME CoreInv, DatabaseInv, NEW o \in Modelled, Tamper(o), o # "databaseSecret"
  PROVE  DatabaseInv'
<1>1. UNCHANGED <<cr, cache, mem, seen, pc, todo>> /\ Vanish(o)
  BY DEF Tamper, crVars, recVars
<1> QED BY <1>1, VanishDatabase

\* Nothing about a secret makes a reconcile replace it.
LEMMA RecreateDatabase ==
  ASSUME CoreInv, DatabaseInv, NEW o \in Modelled, Recreate(o) PROVE DatabaseInv'
<1>1. UNCHANGED <<cr, cache, mem, seen, pc, todo>> /\ Vanish(o) /\ MustRecreate(o)
  BY DEF Recreate, Visit, crVars, recVars
<1>2. o # "databaseSecret"
  BY <1>1 DEF MustRecreate, Deployments, ConfigMaps
<1> QED BY <1>1, <1>2, VanishDatabase

\* A reconcile goes past the secret and the other objects.
LEMMA AdvanceDatabase ==
  ASSUME CoreInv, Ensured, NEW o \in Modelled, pc = "ensure", Current(o), Advance(o),
         UNCHANGED cr,
         Here("databaseSecret") => Here("databaseSecret")',
         o = "databaseSecret" => mem.pin \in {"none", SecretName(mem.spec)} /\ SecretReady'
  PROVE  Ensured'
<1>1. mem' = mem /\ Running /\ o \in todo
  BY DEF Advance, Running, Current
<1>2. SecretReady => SecretReady'
  BY <1>1 DEF SecretReady
<1>3. CASE o \in Reporting
  <2>1. pc' = "status" /\ todo' = todo
    BY <1>3 DEF Advance
  <2>2. o # "databaseSecret" => "databaseSecret" \notin todo
    BY <1>3, Ranks DEF Current
  <2> QED BY <1>1, <1>2, <2>1, <2>2 DEF Ensured
<1>4. CASE o \notin Reporting
  <2>1. pc' = "ensure" /\ todo' = todo \ {o} /\ o # "databaseSecret"
    BY <1>4 DEF Advance, Reporting
  <2> QED BY <1>1, <1>2, <2>1 DEF Ensured
<1> QED BY <1>3, <1>4

\* A reconcile that does not want the secret keeps it.
LEMMA RemoveDatabase ==
  ASSUME CoreInv, DatabaseInv, NEW o \in Modelled, Remove(o) PROVE DatabaseInv'
<1>1. /\ UNCHANGED <<cr, cache, mem, seen>> /\ pc = "ensure" /\ Current(o) /\ Advance(o)
      /\ PinMatches(o) /\ ~Wanted(o, mem.spec)
  BY DEF Remove, Visit, crVars, Advance
<1>2. mem.spec \in SpecType /\ cr.phase # "absent"
  BY <1>1 DEF CoreInv, Copies, Running, Shape, CRs
<1>3. o = "databaseSecret" => SecretReady' /\ mem.pin \in {"none", SecretName(mem.spec)}
  BY <1>1, <1>2, DatabaseWanted DEF SecretReady, PinMatches
<1>4. Kin' /\ (Here("databaseSecret") => Here("databaseSecret")')
  <2>1. CASE UNCHANGED <<obj, diskVars>>
    BY <1>1, <2>1, KinKept DEF DatabaseInv, Here
  <2>2. CASE Vanish(o) /\ ~Kept(o)
    <3>1. o # "databaseSecret"
      BY <2>2 DEF Kept
    <3> QED BY <1>1, <1>2, <2>2, <3>1, VanishKin
  <2> QED BY <2>1, <2>2 DEF Remove
<1>5. Ensured'
  BY <1>1, <1>3, <1>4, AdvanceDatabase DEF DatabaseInv
<1> QED BY <1>4, <1>5 DEF DatabaseInv

\* The Deployment is written after the secret has been seen to.
LEMMA DeploymentKin ==
  ASSUME CoreInv, DatabaseInv, pc = "ensure", Current("database"),
         obj'["database"].exists, obj'["database"].uid = cr.uid,
         DOMAIN obj'["database"].data = Uses("database", mem.spec),
         UNCHANGED <<cr, cache, mem, seen, diskVars, obj["databaseSecret"]>>
  PROVE  Kin'
<1>1. "databaseSecret" \notin todo
  <2>1. Rank["databaseSecret"] = 3 /\ Rank["database"] = 16
    BY DEF Rank
  <2> QED BY <2>1 DEF Current
<1>2. Running /\ mem.spec \in SpecType /\ cr.phase # "absent" /\ mem.uid = cr.uid
  BY DEF CoreInv, Copies, Running, Shape, CRs
<1>3. mem.pin = SecretName(mem.spec) /\ SecretReady
  BY <1>1, <1>2 DEF DatabaseInv, Ensured
<1>4. mem.pin = cr.pin
  BY <1>2, <1>3 DEF DatabaseInv, Kin, Pinned, SecretName
<1>5. cr.pin = "databaseSecret" => Here("databaseSecret")
  BY <1>2, <1>3, <1>4 DEF SecretName, SecretReady, SpecType
<1>6. DatabaseSound'
  BY <1>2, <1>3, <1>4, <1>5, DatabaseUses DEF DatabaseSound, Here
<1> QED BY <1>6 DEF DatabaseInv, Kin, Stays, Here, Pinned, DiskSound

\* The secret is new, or the CR's own, or taken over with its password.
LEMMA SecretKin ==
  ASSUME DatabaseInv, UNCHANGED <<cr, cache, mem, seen, diskVars, obj["database"]>>,
         Here("databaseSecret")',
         Here("databaseSecret") => obj'["databaseSecret"].data = obj["databaseSecret"].data
  PROVE  Kin'
<1>1. Stays("databaseSecret")' /\ Pinned(cache)' /\ Pinned(mem)'
  BY DEF DatabaseInv, Kin, Stays, Here, Pinned
<1>2. DatabaseSound'
  BY DEF DatabaseInv, Kin, DatabaseSound, Here
<1>3. DiskSound'
  BY DEF DatabaseInv, Kin, DiskSound, Here
<1> QED BY <1>1, <1>2, <1>3 DEF Kin

\* A visit that leaves the CR an object of its own.
LEMMA WriteDatabase ==
  ASSUME CoreInv, DatabaseInv, NEW o \in Modelled, pc = "ensure", Current(o), Advance(o),
         PinMatches(o), UNCHANGED <<cr, cache, seen, diskVars>>,
         \A p \in Modelled \ {o} : obj'[p] = obj[p],
         obj'[o].exists, obj'[o].uid = cr.uid,
         o \in Deployments => DOMAIN obj'[o].data = Uses(o, mem.spec),
         o = "databaseSecret" /\ Here(o) => obj'[o].data = obj[o].data
  PROVE  DatabaseInv'
<1>1. mem' = mem /\ Names \subseteq Modelled
  BY ConstantsAssumption DEF Advance, Names
<1>2. Here("databaseSecret") => Here("databaseSecret")'
  BY <1>1 DEF Names, Here
<1>3. Ensured'
  <2>1. o = "databaseSecret" => SecretReady' /\ mem.pin \in {"none", SecretName(mem.spec)}
    BY DEF SecretReady, PinMatches, Here
  <2> QED BY <1>2, <2>1, AdvanceDatabase DEF DatabaseInv
<1>4. CASE o \notin Names
  BY <1>1, <1>3, <1>4, KinKept DEF DatabaseInv
<1>5. CASE o = "database"
  <2>1. UNCHANGED obj["databaseSecret"] /\ o \in Deployments
    BY <1>1, <1>5 DEF Names, Deployments
  <2> QED BY <1>1, <1>3, <1>5, <2>1, DeploymentKin DEF DatabaseInv
<1>6. CASE o = "databaseSecret"
  <2>1. UNCHANGED obj["database"] /\ Here("databaseSecret")'
    BY <1>1, <1>6 DEF Names, Here
  <2> QED BY <1>1, <1>3, <1>6, <2>1, SecretKin DEF DatabaseInv
<1> QED BY <1>4, <1>5, <1>6 DEF Names

\* A new secret is not one that data of the CR were made with.
LEMMA CreateDatabase ==
  ASSUME CoreInv, DatabaseInv, NEW o \in Modelled, Create(o) PROVE DatabaseInv'
<1>1. /\ UNCHANGED <<cr, cache, cacheFresh, seen, diskVars>> /\ pc = "ensure" /\ Current(o)
      /\ PinMatches(o)
  BY DEF Create, Visit, Admitted, crVars
<1>2. mem.uid = cr.uid
  BY <1>1 DEF CoreInv, Copies, Running
<1>3. CASE Return(TRUE) /\ UNCHANGED <<obj, passwords>>
  BY <1>1, <1>3, EndDatabase DEF crVars, objVars
<1>4. CASE ~obj[o].exists
  <2> DEFINE x == [exists |-> TRUE, uid |-> mem.uid, bad |-> FALSE, data |-> Data(o)]
  <2>1. obj' = [obj EXCEPT ![o] = x] /\ Advance(o)
    BY <1>4 DEF Create
  <2>2. x.exists /\ x.uid = cr.uid /\ x.data = Data(o)
    BY <1>2
  <2> HIDE DEF x
  <2>3. obj'[o] = x /\ \A p \in Modelled \ {o} : obj'[p] = obj[p]
    BY <2>1 DEF CoreInv, Shape
  <2>4. o \in Deployments => DOMAIN Data(o) = Uses(o, mem.spec)
    BY DEF Data
  <2>5. ~Here(o)
    BY <1>4 DEF Here
  <2> QED BY <1>1, <2>1, <2>2, <2>3, <2>4, <2>5, WriteDatabase
<1> QED BY <1>3, <1>4 DEF Create

\* A secret of the CR is found, one of a former CR is taken over as it is, and the
\* Deployment is given it.
LEMMA UpdateDatabase ==
  ASSUME CoreInv, DatabaseInv, NEW o \in Modelled, Update(o) PROVE DatabaseInv'
<1>1. /\ UNCHANGED <<cr, cache, cacheFresh, seen, diskVars, passwords>> /\ pc = "ensure"
      /\ Current(o) /\ PinMatches(o) /\ seen[o].exists
  BY DEF Update, Visit, Admitted, crVars
<1>2. /\ cr.phase # "absent" /\ mem.uid = cr.uid
      /\ seen[o] \in Objs /\ obj \in [Modelled -> Objs]
  BY <1>1 DEF CoreInv, Copies, Running, Shape
<1>3. Updated(o).uid = cr.uid /\ Updated(o).exists /\ Updated(o).data = Data(o)
  BY <1>1, <1>2 DEF Updated, Objs
<1>4. /\ o \in Deployments => DOMAIN Data(o) = Uses(o, mem.spec)
      /\ o = "databaseSecret" => Data(o) = seen[o].data
  BY <1>1 DEF Data, Deployments
<1>5. CASE Return(TRUE) /\ UNCHANGED obj
  BY <1>1, <1>5, EndDatabase DEF crVars, objVars
<1>6. CASE Updated(o) = seen[o] /\ Advance(o) /\ UNCHANGED obj
  <2>1. mem' = mem
    BY <1>6 DEF Advance
  <2>2. Kin'
    BY <1>1, <1>6, <2>1, KinKept DEF DatabaseInv
  <2>3. o = "databaseSecret" => Here("databaseSecret")
    BY <1>1, <1>2, <1>3, <1>6 DEF DatabaseInv, Kin, Stays
  <2>4. o = "databaseSecret" => SecretReady' /\ mem.pin \in {"none", SecretName(mem.spec)}
    BY <1>1, <1>6, <2>3 DEF SecretReady, PinMatches, Here
  <2>5. Ensured'
    BY <1>1, <1>6, <2>4, AdvanceDatabase DEF DatabaseInv, Here
  <2> QED BY <2>2, <2>5 DEF DatabaseInv
<1>7. CASE obj[o] = seen[o] /\ obj' = [obj EXCEPT ![o] = Updated(o)] /\ Advance(o)
  <2>1. obj'[o] = Updated(o) /\ \A p \in Modelled \ {o} : obj'[p] = obj[p]
    BY <1>2, <1>7
  <2> QED BY <1>1, <1>3, <1>4, <1>7, <2>1, WriteDatabase
<1> QED BY <1>5, <1>6, <1>7 DEF Update

\* At first there is no secret.
LEMMA InitDatabase == Init => DatabaseInv
<1> SUFFICES ASSUME Init PROVE DatabaseInv
  OBVIOUS
<1>1. /\ cache = cr /\ mem = NoCR /\ seen = obj /\ disk = NoData /\ pc = "idle"
  BY DEF Init
<1>2. ~obj["databaseSecret"].exists /\ obj["database"].data = NoData
  <2>1. "databaseSecret" \notin Deployments /\ Names \subseteq Modelled
    BY ConstantsAssumption DEF Deployments, Names
  <2>2. CASE obj = [o \in Modelled |-> Absent]
    BY <2>1, <2>2, AbsentForm DEF Names
  <2>3. CASE obj = [o \in Modelled |->
                      IF o \in Deployments
                      THEN [Absent EXCEPT !.exists = TRUE, !.uid = 1, !.bad = TRUE] ELSE Absent]
    BY <2>1, <2>3, AbsentForm DEF Names, Absent
  <2> QED BY <2>2, <2>3 DEF Init
<1>3. Kin
  BY <1>1, <1>2, NoCRForm, NoDataForm DEF Kin, Stays, Pinned, DatabaseSound, DiskSound, Here
<1>4. Ensured
  BY <1>1 DEF Ensured, Running
<1> QED BY <1>3, <1>4 DEF DatabaseInv

\* Every step keeps the invariant of the database, as long as users leave the generated
\* secret alone.
LEMMA NextDatabase ==
  ASSUME CoreInv, DatabaseInv, [Next]_vars, "databaseSecret" \notin Tampered
  PROVE  DatabaseInv'
<1>1. CASE Reconcile \/ Finalize \/ SyncCR \/ Restart
  BY <1>1, ReconcileDatabase, FinalizeDatabase, SyncCRDatabase, RestartDatabase
<1>2. CASE NotFound \/ UNCHANGED vars
  <2>1. UNCHANGED <<cr, cache, mem, diskVars, pc, todo, obj, seen>>
    BY <1>2 DEF NotFound, vars, crVars, objVars, recVars
  <2> QED BY <2>1, FrameDatabase
<1>3. ASSUME NEW o \in Modelled, Refused(o) \/ StatusRefused(o) \/ CallFails PROVE DatabaseInv'
  <2>1. Return(TRUE) /\ UNCHANGED <<crVars, objVars>>
    BY <1>3 DEF Refused, StatusRefused, CallFails, Visit, objVars
  <2> QED BY <2>1, EndDatabase
<1>4. CASE Worker
  BY <1>1, <1>2, <1>3, <1>4, RecreateDatabase, CreateDatabase, UpdateDatabase, RemoveDatabase,
     UpdateStatusDatabase DEF Worker
<1>5. CASE \E o \in Modelled : SyncObject(o) \/ GarbageCollect(o) \/ Unmount(o)
  BY <1>5, SyncObjectDatabase, GarbageCollectDatabase, UnmountDatabase
<1>6. CASE \E s \in {"databaseSecret", "provided"} : StartDatabase(s)
  BY <1>6, StartDatabaseDatabase
<1>7. CASE DeleteCR \/ \E s \in Specs : CreateCR(s) \/ EditCR(s)
  BY <1>7, UserDatabase
<1>8. CASE \E o \in Tampered : Tamper(o)
  BY <1>8, TamperDatabase, ConstantsAssumption
<1>9. CASE \E o \in Frozen : Freeze(o)
  BY <1>9, FreezeDatabase
<1>10. CASE CallFails
  BY <1>3, <1>10, ConstantsAssumption
<1> QED BY <1>1, <1>2, <1>4, <1>5, <1>6, <1>7, <1>8, <1>9, <1>10 DEF Next

\* A database that the CR's Deployment starts opens the data that this CR's Deployment made,
\* whatever edits of the secret's name, stale caches, restarts, CRs that follow each other
\* and objects taken over from a former one do.  It takes users who do not delete the
\* generated secret: the operator would generate another password for the data that are
\* there.
THEOREM DatabaseAlwaysOpens ==
  ASSUME "databaseSecret" \notin Tampered PROVE Spec => []DatabaseOpens
<1>1. Init => CoreInv /\ DatabaseInv
  BY InitCore, InitDatabase
<1>2. CoreInv /\ DatabaseInv /\ [Next]_vars => (CoreInv /\ DatabaseInv)'
  BY NextCore, NextDatabase
<1>3. CoreInv /\ DatabaseInv => DatabaseOpens
  <2> SUFFICES ASSUME CoreInv, DatabaseInv, DatabaseRuns, maker = cr.uid, NEW s \in DOMAIN disk
               PROVE  /\ s \in DOMAIN obj["database"].data
                      /\ s # "provided" /\ obj[s].exists => obj[s].data[s] = disk[s]
    BY DEF DatabaseOpens, PasswordFits
  <2>1. /\ cr.phase # "absent" /\ Here("database")
        /\ "databasePVC" \in DOMAIN obj["database"].data
    BY DEF DatabaseRuns, Here
  <2>2. s = cr.pin /\ s # "none"
    BY <2>1 DEF DatabaseInv, Kin, DiskSound
  <2>3. s \in DOMAIN obj["database"].data
    BY <2>1, <2>2 DEF DatabaseInv, Kin, DatabaseSound
  <2>4. s # "provided" => s = "databaseSecret"
    BY <2>2 DEF CoreInv, Shape, CRs
  <2> QED BY <2>1, <2>3, <2>4 DEF DatabaseInv, Kin, DiskSound
<1> QED BY <1>1, <1>2, <1>3, PTL DEF Spec

-----------------------------------------------------------------------------
(* An operator at rest.                                                    *)

\* Objects that events tell of.
Seen == Modelled \intersect Watched

\* Nothing announces another reconcile of a live CR.
Trusted == ~queued /\ cacheFresh /\ cr.phase = "live"

\* The object was visited, and its status is next.
AtStatus(o) == pc = "status" /\ Current(o)

\* The cached object is as the CR wants it, in terms of the cached secrets.
Fits(o) ==
  /\ seen[o].exists /\ seen[o].uid = cr.uid /\ (seen[o].bad => o \in Volumes)
  /\ o \in Deployments =>
       /\ DOMAIN seen[o].data = Uses(o, cr.spec)
       /\ \A r \in Uses(o, cr.spec) \intersect Secrets : seen[o].data[r] = seen[r].data[r]

\* What a visit leaves behind: the object fits, or an event about it is to come.
Written(o) ==
  IF Wanted(o, cr.spec)
  THEN \/ Fits(o)
       \/ seen[o].exists /\ obj[o] # seen[o]
       \/ ~seen[o].exists /\ (o \in Deployments \/ (obj[o].exists /\ obj[o].uid = cr.uid))
  ELSE Kept(o) \/ ~obj[o].exists

\* What the status says after it.
Told(o) ==
  IF Wanted(o, cr.spec) THEN o \in Deployments => o \in cr.reported /\ seen[o].exists
  ELSE o \notin cr.reported

\* A volume that the CR took over when its deletion had begun was in the cache.
Adopted ==
  \A v \in Volumes \intersect Modelled :
    obj[v].exists /\ obj[v].bad /\ obj[v].uid = cr.uid => seen[v].exists \/ cr.phase = "absent"

\* The inductive invariant of rest, together with CoreInv and Adopted: without a
\* reconcile to come, the objects that were visited fit or are about to be heard of.
RestInv ==
  Trusted =>
    /\ Running => mem = cr
    /\ \A o \in Seen : /\ AtStatus(o) \/ o \notin todo => Written(o)
                       /\ o \notin todo => Told(o)

\* Objects stay, or what is written over a volume was in the cache or is not under
\* deletion.
LEMMA AdoptedKept ==
  ASSUME CoreInv, Adopted, cr'.uid = cr.uid, cr.phase = "absent" => cr'.phase = "absent",
         \A v \in Volumes \intersect Modelled :
           \/ obj'[v] = obj[v] /\ (seen'[v] = seen[v] \/ seen'[v] = obj[v])
           \/ seen'[v].exists \/ ~obj'[v].exists \/ ~obj'[v].bad
  PROVE  Adopted'
BY DEF Adopted

\* Only the collector begins to delete volumes, and not those of the CR.
LEMMA NextAdopted == ASSUME CoreInv, Adopted, [Next]_vars PROVE Adopted'
<1>0. /\ obj \in [Modelled -> Objs] /\ seen \in [Modelled -> Objs] /\ cr \in CRs
      /\ \A o \in Modelled : obj[o] \in Objs /\ seen[o] \in Objs
  BY DEF CoreInv, Shape
<1>1. ASSUME UNCHANGED <<obj, seen>>, cr'.uid = cr.uid,
             cr.phase = "absent" => cr'.phase = "absent"
      PROVE  Adopted'
  BY <1>1, AdoptedKept
<1>2. ASSUME NEW o \in Modelled, Vanish(o), UNCHANGED <<cr, seen>> PROVE Adopted'
  <2>1. ~obj'[o].exists /\ \A p \in Modelled \ {o} : obj'[p] = obj[p]
    BY <1>0, <1>2, AbsentForm DEF Vanish
  <2> QED BY <1>2, <2>1, AdoptedKept
<1>3. CASE UNCHANGED vars \/ Reconcile \/ NotFound \/ SyncCR \/ CallFails
           \/ \E s \in {"databaseSecret", "provided"} : StartDatabase(s)
  <2>1. UNCHANGED <<cr, obj, seen>>
    BY <1>3 DEF vars, Reconcile, NotFound, SyncCR, CallFails, StartDatabase, crVars, objVars
  <2> QED BY <1>1, <2>1
<1>4. CASE Finalize
  <2>1. cr'.uid = cr.uid /\ cr'.phase = "absent" /\ UNCHANGED <<obj, seen>>
    BY <1>4, NoCRForm DEF Finalize, objVars, CRs
  <2> QED BY <1>1, <2>1
<1>5. ASSUME NEW o \in Modelled, Refused(o) \/ StatusRefused(o) PROVE Adopted'
  <2>1. UNCHANGED <<cr, obj, seen>>
    BY <1>5 DEF Refused, StatusRefused, Visit, crVars, objVars
  <2> QED BY <1>1, <2>1
<1>6. ASSUME NEW o \in Modelled, UpdateStatus(o) PROVE Adopted'
  <2>1. mem = cr /\ mem \in CRs /\ cr' = Reported(o) /\ UNCHANGED <<obj, seen>>
    BY <1>6 DEF CoreInv, Copies, Shape, UpdateStatus, CanReport, objVars
  <2>2. Reported(o).uid = mem.uid /\ Reported(o).phase = mem.phase
    BY <2>1 DEF Reported, CRs
  <2> QED BY <1>1, <2>1, <2>2
<1>7. ASSUME NEW o \in Modelled, Recreate(o) \/ Remove(o) \/ Unmount(o) PROVE Adopted'
  <2>1. UNCHANGED <<cr, seen>> /\ (Vanish(o) \/ UNCHANGED obj)
    BY <1>7 DEF Recreate, Remove, Unmount, Visit, crVars
  <2> QED BY <1>1, <1>2, <2>1
<1>8. ASSUME NEW o \in Modelled, Create(o) PROVE Adopted'
  <2>1. UNCHANGED <<cr, seen>>
    BY <1>8 DEF Create, Visit, crVars
  <2>2. CASE UNCHANGED obj
    BY <1>1, <2>1, <2>2
  <2>3. CASE obj' = [obj EXCEPT ![o] = [exists |-> TRUE, uid |-> mem.uid, bad |-> FALSE,
                                        data |-> Data(o)]]
    <3>1. ~obj'[o].bad /\ \A p \in Modelled \ {o} : obj'[p] = obj[p]
      BY <1>0, <2>3
    <3> QED BY <2>1, <3>1, AdoptedKept
  <2> QED BY <1>8, <2>2, <2>3 DEF Create
<1>9. ASSUME NEW o \in Modelled, Update(o) PROVE Adopted'
  <2>1. UNCHANGED <<cr, seen>> /\ seen[o].exists
        /\ (UNCHANGED obj \/ obj' = [obj EXCEPT ![o] = Updated(o)])
    BY <1>9 DEF Update, Visit, crVars
  <2>2. \A p \in Modelled \ {o} : obj'[p] = obj[p]
    BY <1>0, <2>1
  <2> QED BY <2>1, <2>2, AdoptedKept
<1>10. ASSUME NEW o \in Modelled, SyncObject(o) PROVE Adopted'
  <2>1. UNCHANGED <<cr, obj>> /\ \A p \in Modelled : seen'[p] = seen[p] \/ seen'[p] = obj[p]
    BY <1>0, <1>10 DEF SyncObject, crVars
  <2> QED BY <2>1, AdoptedKept
<1>11. ASSUME NEW o \in Modelled, GarbageCollect(o) PROVE Adopted'
  <2>1. UNCHANGED <<cr, seen>> /\ Orphaned(o)
    BY <1>11 DEF GarbageCollect, crVars
  <2>2. CASE Vanish(o)
    BY <1>2, <2>1, <2>2
  <2>3. CASE obj' = [obj EXCEPT ![o].bad = TRUE]
    <3>1. obj'[o].uid = obj[o].uid /\ \A p \in Modelled \ {o} : obj'[p] = obj[p]
      BY <1>0, <2>3 DEF Objs
    <3> QED BY <2>1, <3>1 DEF Adopted, Orphaned
  <2> QED BY <1>11, <2>2, <2>3 DEF GarbageCollect
<1>12. CASE Restart
  <2>1. UNCHANGED <<cr, obj>> /\ seen' = obj
    BY <1>12 DEF Restart
  <2> QED BY <2>1, AdoptedKept
<1>13. CASE DeleteCR \/ \E s \in Specs : EditCR(s)
  <2>1. cr'.uid = cr.uid /\ cr.phase = "live" /\ UNCHANGED <<obj, seen>>
    BY <1>0, <1>13 DEF DeleteCR, EditCR, ChangeCR, objVars, CRs
  <2> QED BY <1>1, <2>1
<1>14. ASSUME NEW s \in Specs, CreateCR(s) PROVE Adopted'
  <2>1. cr'.uid = cr.uid + 1 /\ UNCHANGED <<obj, seen>>
    BY <1>14 DEF CreateCR, ChangeCR, NewCR, objVars
  <2>2. \A o \in Modelled : obj[o].uid \in Nat /\ obj[o].uid <= cr.uid
    BY DEF CoreInv, ObjectsSound, Sound, Shape, Objs
  <2>3. \A o \in Modelled : obj[o].uid # cr'.uid
    BY <1>0, <2>1, <2>2 DEF CRs
  <2> QED BY <2>1, <2>3 DEF Adopted
<1>15. ASSUME NEW o \in Tampered, Tamper(o) PROVE Adopted'
  BY <1>2, <1>15, ConstantsAssumption DEF Tamper, crVars
<1>16. ASSUME NEW o \in Frozen, Freeze(o) PROVE Adopted'
  <2>1. UNCHANGED <<cr, seen>> /\ obj' = [obj EXCEPT ![o].bad = TRUE] /\ o \notin Volumes
        /\ o \in Modelled
    BY <1>16, ConstantsAssumption DEF Freeze, crVars, ConfigMaps, Volumes
  <2>2. \A p \in Volumes \intersect Modelled : obj'[p] = obj[p]
    BY <1>0, <2>1
  <2> QED BY <2>1, <2>2, AdoptedKept
<1>17. CASE Worker
  BY <1>3, <1>4, <1>5, <1>6, <1>7, <1>8, <1>9, <1>17 DEF Worker
<1> QED BY <1>3, <1>7, <1>10, <1>11, <1>12, <1>13, <1>14, <1>15, <1>16, <1>17 DEF Next

\* What a visit left behind stays while nobody touches it.
LEMMA WrittenKept ==
  ASSUME NEW o, Written(o), UNCHANGED seen, cr'.spec = cr.spec, cr'.uid = cr.uid, obj'[o] = obj[o]
  PROVE  Written(o)'
<1>1. Fits(o) => Fits(o)'
  BY DEF Fits
<1> QED BY <1>1 DEF Written

\* Steps that change neither the CR, nor the reconcile, nor the cached objects.
LEMMA RestFrame ==
  ASSUME RestInv, UNCHANGED <<cr, cacheFresh, queued, pc, todo, mem>>,
         \A o \in Seen : seen'[o] = seen[o],
         \A o \in Seen : Trusted /\ Written(o) => Written(o)'
  PROVE  RestInv'
<1>1. Trusted' => Trusted
  BY DEF Trusted
<1>2. \A o \in Seen : AtStatus(o)' => AtStatus(o)
  BY DEF AtStatus, Current
<1>3. \A o \in Seen : Told(o) => Told(o)'
  BY DEF Told
<1> QED BY <1>1, <1>2, <1>3 DEF RestInv, Running

\* A reconcile is to come.
LEMMA BusyRest == ASSUME queued' = TRUE \/ cacheFresh' = FALSE PROVE RestInv'
BY DEF RestInv, Trusted

\* A reconcile of the current CR begins; one of a CR that is not live is none.
LEMMA BeginRest ==
  ASSUME CoreInv, Reconcile \/ Finalize \/ NotFound PROVE RestInv'
<1>1. cacheFresh => cache = cr
  BY DEF CoreInv, Copies
<1>2. CASE Reconcile
  <2>1. /\ pc' = "ensure" /\ todo' = Modelled /\ mem' = cache
        /\ UNCHANGED <<cr, cache, cacheFresh>>
    BY <1>2 DEF Reconcile, crVars
  <2>2. \A o \in Seen : o \in todo' /\ ~AtStatus(o)'
    BY <2>1 DEF Seen, AtStatus
  <2>3. Trusted' => mem' = cr'
    BY <1>1, <2>1 DEF Trusted
  <2> QED BY <2>2, <2>3 DEF RestInv
<1>3. CASE Finalize
  BY <1>3, BusyRest DEF Finalize
<1>4. CASE NotFound
  <2>1. ~Trusted'
    BY <1>1, <1>4 DEF NotFound, Trusted, crVars
  <2> QED BY <2>1 DEF RestInv
<1> QED BY <1>2, <1>3, <1>4

\* A reconcile that failed is tried again.
LEMMA EndRest == ASSUME Return(TRUE) PROVE RestInv'
BY BusyRest DEF Return

\* A change of the CR is yet to be heard of.
LEMMA UserRest ==
  ASSUME DeleteCR \/ \E s \in Specs : CreateCR(s) \/ EditCR(s) PROVE RestInv'
BY BusyRest DEF DeleteCR, CreateCR, EditCR, ChangeCR

\* An event about a watched object queues the CR.
LEMMA SyncObjectRest ==
  ASSUME CoreInv, RestInv, NEW o \in Modelled, SyncObject(o) PROVE RestInv'
<1>1. CASE o \in Watched
  BY <1>1, BusyRest DEF SyncObject
<1>2. CASE o \notin Watched
  <2>1. /\ UNCHANGED <<cr, cacheFresh, pc, todo, mem, obj>> /\ seen' = [seen EXCEPT ![o] = obj[o]]
    BY DEF SyncObject, crVars
  <2>2. queued' = queued
    BY <1>2 DEF SyncObject, CoreInv, Shape
  <2>3. \A p \in Seen : seen'[p] = seen[p]
    BY <1>2, <2>1 DEF Seen, CoreInv, Shape
  <2>4. Secrets \intersect Modelled \subseteq Seen
    BY DEF Seen, Watched, Objects, Secrets, Policies
  <2>5. ASSUME NEW p \in Seen, Written(p) PROVE Written(p)'
    <3>1. Fits(p) => Fits(p)'
      <4>1. SUFFICES ASSUME Fits(p) PROVE Fits(p)'
        OBVIOUS
      <4>2. seen'[p] = seen[p] /\ cr' = cr
        BY <2>1, <2>3
      <4>3. p \in Deployments => \A r \in Uses(p, cr.spec) \intersect Secrets : seen'[r] = seen[r]
        BY <2>3, <2>4, UsesForm DEF Secrets
      <4> QED BY <4>1, <4>2, <4>3 DEF Fits
    <3> QED BY <2>1, <2>3, <2>5, <3>1 DEF Written
  <2> QED BY <2>1, <2>2, <2>3, <2>5, RestFrame
<1> QED BY <1>1, <1>2

\* An object disappears: an event is to come, unless the cache had never seen it.
LEMMA VanishRest ==
  ASSUME CoreInv, RestInv, NEW o \in Modelled, Vanish(o),
         UNCHANGED <<cr, cacheFresh, queued, pc, todo, mem, seen>>,
         Trusted /\ obj[o].exists /\ obj[o].uid = cr.uid => o \in Deployments \/ seen[o].exists
  PROVE  RestInv'
<1>1. ~obj'[o].exists /\ \A p \in Modelled \ {o} : obj'[p] = obj[p]
  BY AbsentForm DEF Vanish, CoreInv, Shape
<1>2. ASSUME NEW p \in Seen, Trusted, Written(p) PROVE Written(p)'
  <2>1. CASE p # o
    BY <1>1, <1>2, <2>1, WrittenKept DEF Seen
  <2>2. CASE p = o
    <3>1. Fits(o) => Fits(o)'
      BY DEF Fits
    <3>2. seen[o].exists => obj'[o] # seen'[o]
      BY <1>1
    <3> QED BY <1>1, <1>2, <2>2, <3>1, <3>2 DEF Written
  <2> QED BY <2>1, <2>2
<1> QED BY <1>2, RestFrame

\* The status of a Deployment waits for the cache.
LEMMA TamperRest ==
  ASSUME CoreInv, RestInv, NEW o \in Modelled, Tamper(o), o \in Deployments PROVE RestInv'
BY VanishRest DEF Tamper, crVars, recVars

\* What is replaced was in the cache.
LEMMA RecreateRest ==
  ASSUME CoreInv, RestInv, NEW o \in Modelled, Recreate(o) PROVE RestInv'
BY VanishRest DEF Recreate, Visit, MustRecreate, crVars, recVars

\* An object that gets immutable, or under deletion, is not the one in the cache.
LEMMA MarkRest ==
  ASSUME CoreInv, RestInv, NEW o \in Modelled, o \in ConfigMaps \union Volumes,
         obj[o].exists, obj' = [obj EXCEPT ![o].bad = TRUE],
         UNCHANGED <<cr, cacheFresh, queued, pc, todo, mem, seen>>
  PROVE  RestInv'
<1>1. obj[o] \in Objs /\ obj \in [Modelled -> Objs] /\ seen[o] \in Objs
  BY DEF CoreInv, Shape
<1>2. /\ obj'[o] = [obj[o] EXCEPT !.bad = TRUE] /\ obj'[o].exists /\ obj'[o].uid = obj[o].uid
      /\ obj'[o].bad
      /\ \A p \in Modelled \ {o} : obj'[p] = obj[p]
  BY <1>1 DEF Objs
<1>3. seen[o].exists /\ obj[o] # seen[o] => obj'[o] # seen[o]
  <2> SUFFICES ASSUME seen[o].exists, obj'[o] = seen[o] PROVE obj[o] = seen[o]
    OBVIOUS
  <2>1. obj[o].bad
    BY <1>2 DEF CoreInv, ObjectsSound, Before
  <2>2. obj[o].bad = TRUE
    BY <1>1, <2>1 DEF Objs
  <2>3. [obj[o] EXCEPT !.bad = TRUE] = obj[o]
    BY <1>1, <2>2 DEF Objs
  <2> QED BY <1>2, <2>3
<1>4. ASSUME NEW p \in Seen, Trusted, Written(p) PROVE Written(p)'
  <2>1. CASE p # o
    BY <1>2, <1>4, <2>1, WrittenKept DEF Seen
  <2>2. CASE p = o
    <3>1. Fits(o) => Fits(o)'
      BY DEF Fits
    <3>2. o \notin Deployments
      BY DEF ConfigMaps, Volumes, Deployments
    <3>3. Wanted(o, cr.spec) \/ Kept(o)
      BY <1>4, <2>2 DEF Written
    <3> QED BY <1>2, <1>3, <1>4, <2>2, <3>1, <3>2, <3>3 DEF Written
  <2> QED BY <2>1, <2>2
<1> QED BY <1>4, RestFrame

\* A user makes a config map immutable.
LEMMA FreezeRest == ASSUME CoreInv, RestInv, NEW o \in Frozen, Freeze(o) PROVE RestInv'
BY MarkRest, ConstantsAssumption DEF Freeze, crVars, recVars

\* The collector does not take what belongs to a live CR.
LEMMA GarbageCollectRest ==
  ASSUME CoreInv, RestInv, NEW o \in Modelled, GarbageCollect(o) PROVE RestInv'
<1>1. UNCHANGED <<cr, cacheFresh, queued, pc, todo, mem, seen>> /\ Orphaned(o)
  BY DEF GarbageCollect, crVars, recVars
<1>2. CASE Vanish(o)
  BY <1>1, <1>2, VanishRest DEF Orphaned, Trusted
<1>3. CASE o \in Volumes /\ obj' = [obj EXCEPT ![o].bad = TRUE]
  BY <1>1, <1>3, MarkRest DEF Orphaned
<1> QED BY <1>2, <1>3 DEF GarbageCollect

\* A volume that goes in the end was in the cache.
LEMMA UnmountRest ==
  ASSUME CoreInv, RestInv, Adopted, NEW o \in Modelled, Unmount(o) PROVE RestInv'
<1>1. /\ UNCHANGED <<cr, cacheFresh, queued, pc, todo, mem, seen>>
      /\ Vanish(o) /\ o \in Volumes /\ obj[o].bad
  BY DEF Unmount, crVars, recVars
<1>2. Trusted /\ obj[o].exists /\ obj[o].uid = cr.uid => seen[o].exists
  BY <1>1 DEF Adopted, Trusted
<1> QED BY <1>1, <1>2, VanishRest

\* The status is written for an object that was visited.
LEMMA UpdateStatusRest ==
  ASSUME CoreInv, RestInv, NEW o \in Modelled, UpdateStatus(o) PROVE RestInv'
<1>1. /\ mem = cr /\ pc = "status" /\ Current(o) /\ mem \in CRs /\ o \in todo
      /\ o \in Deployments /\ Wanted(o, mem.spec) => seen[o].exists
  BY DEF CoreInv, Copies, Shape, UpdateStatus, CanReport, Current
<1>2. o \in Reporting
  <2>1. PICK q \in Reporting : Current(q)
    BY <1>1 DEF CoreInv, Visiting
  <2> QED BY <1>1, <2>1, OneCurrent DEF CoreInv, Shape
<1>3. /\ cr' = Reported(o) /\ UNCHANGED <<obj, seen>> /\ todo' = todo \ {o}
      /\ pc' # "status" /\ (pc' # "idle" => mem' = cr')
      /\ cacheFresh' => cacheFresh
  BY DEF UpdateStatus, objVars, Return
<1>4. queued' = queued
  BY DEF UpdateStatus, Return, CoreInv, Shape
<1>5. cr'.uid = cr.uid /\ cr'.phase = cr.phase /\ cr'.spec = cr.spec
  BY <1>1, <1>2, <1>3, ReportedForm
<1>6. cr'.reported = IF o = "databaseSecret" THEN cr.reported
                     ELSE IF Wanted(o, cr.spec) THEN cr.reported \union {o}
                     ELSE cr.reported \ {o}
  BY <1>1, <1>3 DEF Reported, CRs
<1>7. "databaseSecret" \notin cr.reported
  BY <1>1 DEF CRs
<1>8. Trusted' => Trusted
  BY <1>3, <1>4, <1>5 DEF Trusted
<1>9. ASSUME Trusted', NEW p \in Seen
      PROVE  /\ AtStatus(p)' \/ p \notin todo' => Written(p)'
             /\ p \notin todo' => Told(p)'
  <2>1. SUFFICES ASSUME p \notin todo' PROVE Written(p)' /\ Told(p)'
    BY <1>3 DEF AtStatus
  <2>2. Written(p)
    BY <1>1, <1>3, <1>8, <1>9, <2>1 DEF RestInv, AtStatus
  <2>3. Written(p)'
    BY <1>3, <1>5, <2>2, WrittenKept
  <2>4. CASE p # o
    <3>1. Told(p)
      BY <1>3, <1>8, <1>9, <2>1, <2>4 DEF RestInv
    <3> QED BY <1>3, <1>5, <1>6, <2>3, <2>4, <3>1 DEF Told
  <2>5. CASE p = o
    <3>1. "databaseSecret" \notin Deployments
      BY DEF Deployments
    <3> QED BY <1>1, <1>3, <1>5, <1>6, <1>7, <2>3, <2>5, <3>1 DEF Told
  <2> QED BY <2>4, <2>5
<1> QED BY <1>3, <1>9 DEF RestInv, Running

\* A visit leaves the object behind as it should be, and the others as they are.
LEMMA VisitRest ==
  ASSUME CoreInv, RestInv, NEW o \in Modelled, pc = "ensure", Current(o), Advance(o),
         UNCHANGED <<cr, cacheFresh, seen>>, \A p \in Modelled \ {o} : obj'[p] = obj[p],
         Trusted => Written(o)'
  PROVE  RestInv'
<1>1. UNCHANGED <<mem, queued>> /\ Running /\ todo \subseteq Modelled
  BY DEF Advance, Running, CoreInv, Shape
<1>2. Trusted' => Trusted
  BY <1>1 DEF Trusted
<1>3. ASSUME Trusted', NEW p \in Seen
      PROVE  /\ AtStatus(p)' \/ p \notin todo' => Written(p)'
             /\ p \notin todo' => Told(p)'
  <2>1. CASE p = o
    <3>1. Written(o)'
      BY <1>2, <1>3
    <3>2. ASSUME o \notin todo' PROVE Told(o)'
      <4>1. o \notin Reporting
        BY <3>2 DEF Advance, Current
      <4>2. o \notin Deployments /\ o \notin cr.reported
        BY <4>1 DEF Reporting, CoreInv, Shape, CRs
      <4> QED BY <4>2 DEF Told
    <3> QED BY <2>1, <3>1, <3>2
  <2>2. CASE p # o
    <3>1. p \notin todo' => p \notin todo
      BY <2>2 DEF Advance
    <3>2. ~AtStatus(p)'
      <4> SUFFICES ASSUME pc' = "status", Current(p)' PROVE FALSE
        BY DEF AtStatus
      <4>1. todo' = todo
        BY DEF Advance
      <4>2. Current(p)
        BY <4>1 DEF Current
      <4> QED BY <1>1, <2>2, <4>2, OneCurrent
    <3>3. Written(p) => Written(p)'
      BY <2>2, WrittenKept DEF Seen
    <3>4. Told(p) => Told(p)'
      BY DEF Told
    <3> QED BY <1>2, <1>3, <3>1, <3>2, <3>3, <3>4 DEF RestInv
  <2> QED BY <2>1, <2>2
<1> QED BY <1>1, <1>2, <1>3 DEF RestInv

\* A new object is the CR's.
LEMMA CreateRest == ASSUME CoreInv, RestInv, NEW o \in Modelled, Create(o) PROVE RestInv'
<1>1. /\ UNCHANGED <<cr, cacheFresh, seen>> /\ pc = "ensure" /\ Current(o)
      /\ Wanted(o, mem.spec) /\ ~seen[o].exists
  BY DEF Create, Visit, Admitted, crVars
<1>2. CASE Return(TRUE)
  BY <1>2, EndRest
<1>3. CASE ~obj[o].exists
  <2> DEFINE x == [exists |-> TRUE, uid |-> mem.uid, bad |-> FALSE, data |-> Data(o)]
  <2>1. obj' = [obj EXCEPT ![o] = x] /\ Advance(o)
    BY <1>3 DEF Create
  <2>2. x.exists /\ x.uid = mem.uid
    OBVIOUS
  <2> HIDE DEF x
  <2>3. obj'[o] = x /\ \A p \in Modelled \ {o} : obj'[p] = obj[p]
    BY <2>1 DEF CoreInv, Shape
  <2>4. Trusted => mem = cr
    BY <1>1 DEF RestInv, Running
  <2>5. Trusted => Written(o)'
    BY <1>1, <2>2, <2>3, <2>4 DEF Written
  <2> QED BY <1>1, <2>1, <2>3, <2>5, VisitRest
<1> QED BY <1>2, <1>3 DEF Create

\* An object that is not written fits, one that is written differs from the cache.
LEMMA UpdateRest == ASSUME CoreInv, RestInv, NEW o \in Modelled, Update(o) PROVE RestInv'
<1>1. /\ UNCHANGED <<cr, cacheFresh, seen>> /\ pc = "ensure" /\ Current(o)
      /\ Wanted(o, mem.spec) /\ seen[o].exists /\ (seen[o].bad => o \in Volumes)
  BY DEF Update, Visit, Admitted, crVars, MustRecreate, CoreInv, ObjectsSound, Sound
<1>2. CASE Return(TRUE)
  BY <1>2, EndRest
<1>3. Trusted => mem = cr
  BY <1>1 DEF RestInv, Running
<1>4. CASE Updated(o) = seen[o] /\ Advance(o) /\ UNCHANGED obj
  <2>0. seen[o].uid = mem.uid /\ seen[o].data = Data(o)
    <3>1. seen[o] \in Objs
      BY DEF CoreInv, Shape
    <3>2. Updated(o).uid = mem.uid /\ Updated(o).data = Data(o)
      BY <3>1 DEF Updated, Objs
    <3> QED BY <1>4, <3>2
  <2>1. ASSUME Trusted PROVE Fits(o)'
    <3>1. o \in Deployments =>
            seen[o].data = [r \in Uses(o, cr.spec) |-> IF r \in Secrets THEN seen[r].data[r] ELSE 0]
      BY <1>3, <2>0, <2>1 DEF Data
    <3> QED BY <1>1, <1>3, <2>0, <2>1, <3>1 DEF Fits
  <2>2. Trusted => Written(o)'
    BY <1>1, <1>3, <2>1 DEF Written
  <2> QED BY <1>1, <1>4, <2>2, VisitRest
<1>5. CASE Updated(o) # seen[o] /\ obj' = [obj EXCEPT ![o] = Updated(o)] /\ Advance(o)
  <2>1. obj'[o] = Updated(o) /\ \A p \in Modelled \ {o} : obj'[p] = obj[p]
    BY <1>5 DEF CoreInv, Shape
  <2>2. obj'[o] # seen'[o]
    BY <1>1, <1>5, <2>1
  <2>3. Trusted => Written(o)'
    BY <1>1, <1>3, <2>2 DEF Written
  <2> QED BY <1>1, <1>5, <2>1, <2>3, VisitRest
<1> QED BY <1>2, <1>4, <1>5 DEF Update

\* What is not wanted is kept on purpose or gone.
LEMMA RemoveRest == ASSUME CoreInv, RestInv, NEW o \in Modelled, Remove(o) PROVE RestInv'
<1>1. /\ UNCHANGED <<cr, cacheFresh, seen>> /\ pc = "ensure" /\ Current(o) /\ Advance(o)
      /\ ~Wanted(o, mem.spec)
      /\ IF Kept(o) THEN UNCHANGED obj ELSE obj' = [obj EXCEPT ![o] = Absent]
  BY DEF Remove, Visit, crVars, Vanish
<1>2. Trusted => mem = cr
  BY <1>1 DEF RestInv, Running
<1>3. (Kept(o) \/ ~obj'[o].exists) /\ \A p \in Modelled \ {o} : obj'[p] = obj[p]
  BY <1>1, AbsentForm DEF CoreInv, Shape
<1>4. Trusted => Written(o)'
  BY <1>1, <1>2, <1>3 DEF Written
<1> QED BY <1>1, <1>3, <1>4, VisitRest

\* Every step keeps the invariant, as long as users delete only Deployments.
LEMMA NextRest ==
  ASSUME CoreInv, Adopted, RestInv, [Next]_vars, Tampered \subseteq Deployments PROVE RestInv'
<1>1. CASE Reconcile \/ Finalize \/ NotFound
  BY <1>1, BeginRest
<1>2. CASE SyncCR \/ CallFails \/ Restart
  BY <1>2, BusyRest, EndRest DEF SyncCR, CallFails, Restart
<1>3. CASE UNCHANGED vars \/ \E s \in {"databaseSecret", "provided"} : StartDatabase(s)
  <2>1. UNCHANGED <<cr, cacheFresh, queued, pc, todo, mem, seen, obj>>
    BY <1>3 DEF StartDatabase, vars, crVars, objVars, recVars
  <2>2. \A o \in Seen : Written(o) => Written(o)'
    BY <2>1, WrittenKept
  <2> QED BY <2>1, <2>2, RestFrame
<1>4. ASSUME NEW o \in Modelled, Refused(o) \/ StatusRefused(o) PROVE RestInv'
  BY <1>4, EndRest DEF Refused, StatusRefused
<1>5. CASE Worker
  BY <1>1, <1>4, <1>5, RecreateRest, CreateRest, UpdateRest, RemoveRest, UpdateStatusRest
     DEF Worker
<1>6. CASE \E o \in Modelled : SyncObject(o) \/ GarbageCollect(o) \/ Unmount(o)
  BY <1>6, SyncObjectRest, GarbageCollectRest, UnmountRest
<1>7. CASE DeleteCR \/ \E s \in Specs : CreateCR(s) \/ EditCR(s)
  BY <1>7, UserRest
<1>8. CASE \E o \in Tampered : Tamper(o)
  BY <1>8, TamperRest, ConstantsAssumption
<1>9. CASE \E o \in Frozen : Freeze(o)
  BY <1>9, FreezeRest
<1> QED BY <1>2, <1>3, <1>5, <1>6, <1>7, <1>8, <1>9 DEF Next

\* An operator at rest has every watched object of a live CR in place and in the CR's
\* possession, those of a former CR of this name included, and reports what is there.  It
\* takes users who delete only Deployments: the model's cache does not notice an
\* object that is created and deleted between two of its updates, and the status of a
\* Deployment is what makes the reconcile wait for the cache.
THEOREM RestsInPlace ==
  ASSUME Tampered \subseteq Deployments PROVE Spec => []AtRestInPlace
<1>1. Init => CoreInv /\ Adopted /\ RestInv
  <2>1. Init => RestInv
    BY DEF Init, RestInv, Trusted
  <2>2. Init => Adopted
    BY DEF Init, Adopted
  <2> QED BY <2>1, <2>2, InitCore
<1>2. CoreInv /\ Adopted /\ RestInv /\ [Next]_vars => (CoreInv /\ Adopted /\ RestInv)'
  BY NextCore, NextAdopted, NextRest
<1>3. CoreInv /\ RestInv => AtRestInPlace
  <2> SUFFICES ASSUME CoreInv, RestInv, Quiet, cr.phase = "live", NEW o \in Seen PROVE InPlace(o)
    BY DEF AtRestInPlace, Seen
  <2>1. Trusted /\ todo = {} /\ \A p \in Seen : seen[p] = obj[p]
    BY DEF Trusted, Quiet, Seen, CoreInv, Visiting
  <2>2. Written(o) /\ Told(o)
    BY <2>1 DEF RestInv
  <2>3. CASE ~Wanted(o, cr.spec)
    BY <2>2, <2>3 DEF Written, Told, InPlace
  <2>4. CASE Wanted(o, cr.spec)
    <3>1. Fits(o)
      BY <2>1, <2>2, <2>4 DEF Written, Told
    <3>2. o \in Deployments => \A r \in Uses(o, cr.spec) \intersect Secrets : seen[r] = obj[r]
      BY <2>1, UsesForm DEF Seen, Watched, Objects, Secrets, Policies
    <3> QED BY <2>1, <2>2, <2>4, <3>1, <3>2 DEF Told, InPlace, Fits
  <2> QED BY <2>3, <2>4
<1> QED BY <1>1, <1>2, <1>3, PTL DEF Spec
=============================================================================
