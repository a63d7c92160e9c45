-------------------------- MODULE AdmissionProofs --------------------------
(***************************************************************************)
(* Proofs, for any users, namespaces, objects and bounds, that the         *)
(* operator grants access only for lists of namespaces that were reviewed  *)
(* as a whole, that old clients lose nothing they can see, and that audit  *)
(* logging is turned on by default in new CRs only.                        *)
(***************************************************************************)
EXTENDS Admission, ConversionProofs

\* A request, whatever the objects it carries.
RequestFields == {"stage", "version", "verb", "sent", "fields", "targets", "left", "held", "fresh"}
IsRequest(r) == DOMAIN r = RequestFields /\ r = [f \in RequestFields |-> r[f]]

RequestShape == /\ DOMAIN request = Users /\ request = [u \in Users |-> request[u]]
                /\ \A u \in Users : IsRequest(request[u])

\* The namespaces that were reviewed and those still to review are the list.
Reviewed ==
  \A u \in Users :
    /\ request[u].stage = "default" => request[u].held = {}
    /\ request[u].stage = "validate" =>
         request[u].held \union request[u].left = request[u].targets

\* The list of a CR was reviewed, and so was the one it gets if it is left out.
WantedVetted == phase # "absent" => wanted \in vetted /\ {InstallNamespace} \in vetted

\* A setup works for a list that was reviewed; its CR cannot go meanwhile.
SetupVetted == task = "setup" => phase \in {"live", "deleting"} /\ view \in vetted

IInv == RequestShape /\ Reviewed /\ WantedVetted /\ SetupVetted

\* There is no request yet, and no operator at work.
LEMMA InitInv == AdmissionInit => IInv
<1>1. SUFFICES ASSUME AdmissionInit PROVE IInv
  OBVIOUS
<1>2. RequestShape
  BY <1>1 DEF AdmissionInit, RequestShape, IsRequest, RequestFields, NoRequest
<1>3. Reviewed
  BY <1>1 DEF AdmissionInit, Reviewed, NoRequest
<1>4. WantedVetted
  BY <1>1 DEF AdmissionInit, WantedVetted, To, ConvertTo
<1>5. SetupVetted
  BY <1>1 DEF AdmissionInit, SetupVetted
<1> QED BY <1>2, <1>3, <1>4, <1>5 DEF IInv

\* Making requests stale changes nothing else about them.
LEMMA OutdateKeeps ==
  ASSUME RequestShape
  PROVE  /\ DOMAIN Outdate = Users /\ Outdate = [u \in Users |-> Outdate[u]]
         /\ \A u \in Users :
              /\ IsRequest(Outdate[u])
              /\ Outdate[u].stage = request[u].stage /\ Outdate[u].held = request[u].held
              /\ Outdate[u].left = request[u].left /\ Outdate[u].targets = request[u].targets
BY ZenonT(60) DEF RequestShape, IsRequest, RequestFields, Outdate

\* The steps that leave the stored CR and the operator alone.
LEMMA RequestStep ==
  ASSUME IInv, NEW u \in Users, NEW r, IsRequest(r),
         r.stage = "default" => r.held = {},
         r.stage = "validate" => r.held \union r.left = r.targets,
         request' = [request EXCEPT ![u] = r],
         UNCHANGED <<accessSpecVars, vetted>>
  PROVE  IInv'
<1>1. /\ DOMAIN request' = Users /\ request' = [v \in Users |-> request'[v]]
      /\ \A v \in Users : request'[v] = IF v = u THEN r ELSE request[v]
  BY DEF IInv, RequestShape
<1>2. RequestShape'
  BY <1>1 DEF IInv, RequestShape, IsRequest
<1>3. Reviewed'
  BY <1>1 DEF IInv, Reviewed
<1>4. WantedVetted' /\ SetupVetted'
  BY DEF IInv, WantedVetted, SetupVetted, accessSpecVars, claimVars, accessVars, taskVars
<1> QED BY <1>2, <1>3, <1>4 DEF IInv

\* The place of a request that is not there holds an empty one.
LEMMA NoRequestFits == IsRequest(NoRequest) /\ NoRequest.stage = "none"
BY DEF IsRequest, RequestFields, NoRequest

\* A request begins with its whole list still to be reviewed.
LEMMA SubmitInv ==
  ASSUME IInv, NEW u \in Users, NEW version, NEW sent, NEW hub, NEW targets,
         Submit(u, version, sent, hub, targets)
  PROVE  IInv'
<1> DEFINE r == [stage |-> "default", version |-> version,
        verb |-> IF phase = "absent" THEN "create" ELSE "update",
        sent |-> sent, fields |-> hub, targets |-> targets,
        left |-> {}, held |-> {}, fresh |-> TRUE]
<1>1. IsRequest(r) /\ r.stage = "default" /\ r.held = {}
  BY DEF IsRequest, RequestFields
<1>2. request' = [request EXCEPT ![u] = r] /\ UNCHANGED <<accessSpecVars, vetted>>
  BY DEF Submit
<1> HIDE DEF r
<1> QED BY <1>1, <1>2, RequestStep

\* The defaulter and the conversions of a request leave its reviews alone.
LEMMA DefaultedShape ==
  ASSUME NEW r, IsRequest(r)
  PROVE  /\ IsRequest(Handled(Defaulted(r)))
         /\ Handled(Defaulted(r)).stage = r.stage /\ Handled(Defaulted(r)).held = r.held
<1>1. IsRequest(Defaulted(r)) /\ Defaulted(r).stage = r.stage /\ Defaulted(r).held = r.held
  BY DEF Defaulted, IsRequest, RequestFields
<1>2. ASSUME NEW q, IsRequest(q)
      PROVE  IsRequest(Handled(q)) /\ Handled(q).stage = q.stage /\ Handled(q).held = q.held
  BY <1>2 DEF Handled, IsRequest, RequestFields
<1> QED BY <1>1, <1>2

\* The defaulter settles the list, and the review of it begins there.
LEMMA DefaultInv ==
  ASSUME IInv, NEW u \in Users, Default(u)
  PROVE  IInv'
<1> DEFINE r == Handled(Defaulted(request[u]))
           q == [r EXCEPT !.stage = "validate", !.left = r.targets, !.sent = Empty]
<1>1. IsRequest(request[u]) /\ request[u].held = {}
  BY DEF IInv, RequestShape, Reviewed, Default
<1>2. IsRequest(r) /\ r.held = {}
  BY <1>1, DefaultedShape
<1>3. request' = [request EXCEPT ![u] = q] \/ request' = [request EXCEPT ![u] = NoRequest]
  BY DEF Default
<1>4. UNCHANGED <<accessSpecVars, vetted>>
  BY DEF Default
<1> HIDE DEF r
<1>5. IsRequest(q) /\ q.stage = "validate" /\ q.held \union q.left = q.targets
  BY <1>2 DEF IsRequest, RequestFields
<1> HIDE DEF q
<1> QED BY <1>3, <1>4, <1>5, RequestStep, NoRequestFits

\* A review moves one namespace from those to be reviewed to those reviewed.
LEMMA ReviewInv ==
  ASSUME IInv, NEW u \in Users, NEW n, Review(u, n)
  PROVE  IInv'
<1> DEFINE r == request[u]
           q == [r EXCEPT !.left = r.left \ {n}, !.held = r.held \union {n}]
<1>1. IsRequest(r) /\ r.stage = "validate" /\ n \in r.left /\ r.held \union r.left = r.targets
  BY DEF IInv, RequestShape, Reviewed, Review
<1>2. request' = [request EXCEPT ![u] = q] \/ request' = [request EXCEPT ![u] = NoRequest]
  BY DEF IInv, RequestShape, Review
<1>3. UNCHANGED <<accessSpecVars, vetted>>
  BY DEF Review
<1> HIDE DEF r
<1>4. IsRequest(q) /\ q.stage = "validate" /\ q.held \union q.left = q.targets
  BY <1>1 DEF IsRequest, RequestFields
<1> HIDE DEF q
<1> QED BY <1>2, <1>3, <1>4, RequestStep, NoRequestFits

\* A refused request disappears.
LEMMA RejectInv ==
  ASSUME IInv, NEW u \in Users, Reject(u)
  PROVE  IInv'
BY RequestStep, NoRequestFits DEF Reject

\* The steps that leave the requests alone but for their freshness.
LEMMA StaleStep ==
  ASSUME IInv, request' = Outdate
  PROVE  RequestShape' /\ Reviewed'
BY OutdateKeeps DEF IInv, RequestShape, Reviewed

\* The steps that leave the requests alone keep what is said of requests.
LEMMA SameRequests ==
  ASSUME IInv, UNCHANGED request
  PROVE  RequestShape' /\ Reviewed'
BY DEF IInv, RequestShape, Reviewed, IsRequest

\* A request that is stored was reviewed as a whole, so its list is vetted.
LEMMA StoreInv ==
  ASSUME IInv, NEW u \in Users, Store(u)
  PROVE  IInv'
<1> DEFINE r == request[u]
<1>1. r.held = r.targets
  <2>1. r.held \union r.left = r.targets /\ r.left = {}
    BY DEF IInv, Reviewed, Store
  <2> QED BY <2>1
<1>2. request' = [Outdate EXCEPT ![u] = NoRequest]
  BY DEF Store
<1>3. RequestShape' /\ Reviewed'
  <2>1. /\ DOMAIN request' = Users /\ request' = [v \in Users |-> request'[v]]
        /\ \A v \in Users : request'[v] = IF v = u THEN NoRequest ELSE Outdate[v]
    BY <1>2, OutdateKeeps DEF IInv
  <2>2. RequestShape'
    BY <2>1, OutdateKeeps, NoRequestFits, ZenonT(60) DEF IInv, RequestShape, IsRequest
  <2>3. Reviewed'
    BY <2>1, OutdateKeeps, NoRequestFits DEF IInv, Reviewed
  <2> QED BY <2>2, <2>3
<1>4. CASE r.verb = "create"
  <2>1. /\ phase = "absent" /\ wanted' = r.held
        /\ vetted' = {{InstallNamespace}, r.held} /\ UNCHANGED task
    BY <1>1, <1>4 DEF Store, taskVars
  <2>2. WantedVetted' /\ SetupVetted'
    BY <2>1 DEF IInv, WantedVetted, SetupVetted
  <2> QED BY <1>3, <2>2 DEF IInv
<1>5. CASE r.verb # "create"
  <2>1. /\ phase # "absent" /\ wanted' = r.held /\ phase' = phase
        /\ vetted' = vetted \union {r.held} /\ UNCHANGED <<task, view>>
    BY <1>1, <1>5 DEF Store, taskVars
  <2>2. WantedVetted' /\ SetupVetted'
    BY <2>1 DEF IInv, WantedVetted, SetupVetted
  <2> QED BY <1>3, <2>2 DEF IInv
<1> QED BY <1>4, <1>5

\* A change of a user's rights does not undo the reviews there were.
LEMMA ChangeRightsInv ==
  ASSUME IInv, NEW u \in Users, NEW n, ChangeRights(u, n)
  PROVE  IInv'
<1>1. UNCHANGED <<phase, wanted, task, view, vetted, request>>
  BY DEF ChangeRights, accessSpecVars, claimVars, taskVars
<1>2. WantedVetted' /\ SetupVetted'
  BY <1>1 DEF IInv, WantedVetted, SetupVetted
<1> QED BY <1>1, <1>2, SameRequests DEF IInv

\* Access that is lost is none of the history's business.
LEMMA LoseAccessInv ==
  ASSUME IInv, NEW n, LoseAccess(n)
  PROVE  IInv'
<1>1. UNCHANGED <<phase, wanted, task, view, vetted, request>>
  BY DEF LoseAccess, Lose, claimVars, taskVars, admissionVars
<1>2. WantedVetted' /\ SetupVetted'
  BY <1>1 DEF IInv, WantedVetted, SetupVetted
<1> QED BY <1>1, <1>2, SameRequests DEF IInv

\* A CR that a setup works for is guarded: its deletion does not end it.
LEMMA DeleteCRInv ==
  ASSUME IInv, DeleteCR
  PROVE  IInv'
<1>1. request' = Outdate /\ UNCHANGED <<task, view>>
  BY DEF DeleteCR, Withdraw, taskVars
<1>2. CASE phase = "new" /\ phase' = "absent"
  BY <1>1, <1>2, StaleStep DEF IInv, WantedVetted, SetupVetted
<1>3. CASE phase = "live" /\ phase' = "deleting" /\ UNCHANGED <<wanted, vetted>>
  BY <1>1, <1>3, StaleStep DEF IInv, WantedVetted, SetupVetted
<1> QED BY <1>2, <1>3 DEF DeleteCR, Withdraw, Stored

\* The list that the defaulter gives the operator's own update is covered by the
\* right of whoever created the CR.
LEMMA AddFinalizerInv ==
  ASSUME IInv, AddFinalizer
  PROVE  IInv'
<1>1. /\ request' = Outdate /\ UNCHANGED <<task, view, vetted>>
      /\ phase = "new" /\ phase' = "live" /\ task = "none"
      /\ wanted' = wanted \/ wanted' = {InstallNamespace}
  BY DEF AddFinalizer, taskVars
<1> QED BY <1>1, StaleStep DEF IInv, WantedVetted, SetupVetted

\* A step in which an actor writes the CR or its requests keeps the invariant.
LEMMA WriteInv ==
  ASSUME IInv, Write
  PROVE  IInv'
<1>1. request' = Outdate
  BY DEF Write
<1>2. CASE Record
  <2>1. UNCHANGED <<phase, wanted, task, view, vetted>>
    <3>1. UNCHANGED <<phase, wanted, task, view>> /\ phase = "live"
      BY <1>2 DEF Record, taskVars
    <3> QED BY <3>1 DEF Write, Stored
  <2> QED BY <1>1, <2>1, StaleStep DEF IInv, WantedVetted, SetupVetted
<1>3. CASE Release
  <2>1. phase' = "absent" /\ task' = "none"
    BY <1>3 DEF Release, NoTask
  <2> QED BY <1>1, <2>1, StaleStep DEF IInv, WantedVetted, SetupVetted
<1> QED BY <1>2, <1>3 DEF Write

\* The other steps of the operator start a setup for the CR's own list, or keep
\* the task they have, or end it.
LEMMA ReconcileInv ==
  ASSUME IInv, Reconcile
  PROVE  IInv'
<1>1. UNCHANGED <<phase, wanted, vetted, request>>
  BY DEF Reconcile, admissionVars, StartSetup, Stop, Notice, StartCleanup, Grant, Revoke,
         CleanUp, claimVars
<1>2. \/ phase = "live" /\ view' = wanted
      \/ task' # "setup"
      \/ UNCHANGED <<task, view>>
  BY DEF Reconcile, StartSetup, Stop, Notice, StartCleanup, Grant, Revoke, CleanUp, NoTask,
         taskVars
<1>3. WantedVetted'
  BY <1>1 DEF IInv, WantedVetted
<1>4. SetupVetted'
  BY <1>1, <1>2 DEF IInv, WantedVetted, SetupVetted
<1> QED BY <1>1, <1>3, <1>4, SameRequests DEF IInv

\* Every step keeps the invariant.
LEMMA NextInv == IInv /\ [Next]_vars => IInv'
<1>1. SUFFICES ASSUME IInv, [Next]_vars PROVE IInv'
  OBVIOUS
<1>2. CASE \E u \in Users : SubmitV2(u) \/ SubmitV1(u)
  BY <1>1, <1>2, SubmitInv DEF SubmitV2, SubmitV1
<1>3. CASE \E u \in Users : Default(u) \/ Reject(u) \/ Store(u)
  BY <1>1, <1>3, DefaultInv, RejectInv, StoreInv
<1>4. CASE \E u \in Users, n \in Namespaces : Review(u, n) \/ ChangeRights(u, n)
  BY <1>1, <1>4, ReviewInv, ChangeRightsInv
<1>5. CASE \E n \in Namespaces : LoseAccess(n)
  BY <1>1, <1>5, LoseAccessInv
<1>6. CASE DeleteCR \/ AddFinalizer \/ Write \/ Reconcile
  BY <1>1, <1>6, DeleteCRInv, AddFinalizerInv, WriteInv, ReconcileInv
<1>7. CASE UNCHANGED vars
  <2>1. UNCHANGED <<phase, wanted, task, view, vetted, request>>
    BY <1>7 DEF vars, accessSpecVars, claimVars, taskVars, admissionVars
  <2> QED BY <1>1, <2>1, SameRequests DEF IInv, WantedVetted, SetupVetted
<1> QED BY <1>1, <1>2, <1>3, <1>4, <1>5, <1>6, <1>7 DEF Next

\* Only a grant adds access, and it belongs to a setup.
LEMMA GrantsOnly ==
  ASSUME IInv, [Next]_vars, access' \ access # {}
  PROVE  task = "setup"
<1>1. CASE \E u \in Users : SubmitV2(u) \/ SubmitV1(u)
  BY <1>1 DEF SubmitV2, SubmitV1, Submit, accessSpecVars, accessVars
<1>2. CASE \E u \in Users : Default(u) \/ Reject(u) \/ Store(u)
  BY <1>2 DEF Default, Reject, Store, accessSpecVars, accessVars
<1>3. CASE \E u \in Users, n \in Namespaces : Review(u, n) \/ ChangeRights(u, n)
  BY <1>3 DEF Review, ChangeRights, accessSpecVars, accessVars
<1>4. CASE \E n \in Namespaces : LoseAccess(n)
  BY <1>4 DEF LoseAccess, Lose
<1>5. CASE DeleteCR \/ AddFinalizer \/ Write
  BY <1>5 DEF DeleteCR, Withdraw, AddFinalizer, Write, Record, Release, accessVars
<1>6. CASE Reconcile
  BY <1>6 DEF Reconcile, StartSetup, Stop, Notice, StartCleanup, Grant, Revoke, CleanUp,
              accessVars
<1>7. CASE UNCHANGED vars
  BY <1>7 DEF vars, accessSpecVars, accessVars
<1> QED BY <1>1, <1>2, <1>3, <1>4, <1>5, <1>6, <1>7 DEF Next

\* The inductive invariant holds in every behaviour.
THEOREM Invariance == Spec => []IInv
BY InitInv, NextInv, PTL DEF Spec

\* Whatever users, rights, versions, conversions and deletions do between the
\* review of a request (validate) and the creation of a RoleBinding: access is
\* granted only for a list that was reviewed, as a whole, for one user.
THEOREM GrantsAreVetted == Spec => GrantsVetted
<1>1. ASSUME IInv, [Next]_vars
      PROVE  [access' \ access # {} => view \in vetted]_vars
  BY <1>1, GrantsOnly DEF IInv, SetupVetted
<1> QED BY <1>1, Invariance, PTL DEF Spec, GrantsVetted

-----------------------------------------------------------------------------
(* Types.                                                                  *)

\* The types of a request's stage and list.
RequestType(r) ==
  /\ r.stage \in {"none", "default", "validate"}
  /\ IF r.targets = None THEN r.stage = "default" ELSE r.targets \subseteq Namespaces

ClaimType ==
  /\ phase \in {"absent", "new", "live", "deleting"}
  /\ task \in {"none", "setup", "cleanup"} /\ unnoticed \in BOOLEAN
  /\ {wanted, recorded, access, view, left, drop} \subseteq SUBSET Namespaces

RightsType ==
  /\ vetted \subseteq SUBSET Namespaces /\ permits \in [Users -> SUBSET Namespaces]
  /\ phase = "absent" => wanted = {} /\ fields = Empty /\ vetted = {}

\* The type invariant in three parts: the CR and the operator, the rights, the requests.
LEMMA TypeParts == TypeOK <=> ClaimType /\ RightsType /\ \A u \in Users : RequestType(request[u])
BY DEF TypeOK, ClaimType, RightsType, RequestType

\* A list of namespaces is never mistaken for a list that is left out.
LEMMA ListGiven == {InstallNamespace} # None /\ {InstallNamespace} \subseteq Namespaces
BY AdmissionAssumption

\* The empty request is well typed.
LEMMA NoRequestType == RequestType(NoRequest)
BY AdmissionAssumption DEF RequestType, NoRequest

\* A request that is made stale keeps its type.
LEMMA OutdateType ==
  ASSUME RequestShape, \A u \in Users : RequestType(request[u])
  PROVE  \A u \in Users : RequestType(Outdate[u])
BY OutdateKeeps DEF RequestType

\* Changing one request for a well-typed one keeps the types.
LEMMA RequestTypeStep ==
  ASSUME IInv, TypeOK, NEW u \in Users, NEW r, RequestType(r),
         request' = [request EXCEPT ![u] = r],
         UNCHANGED <<accessSpecVars, fields, permits, vetted>>
  PROVE  TypeOK'
<1>1. \A v \in Users : request'[v] = IF v = u THEN r ELSE request[v]
  BY DEF IInv, RequestShape
<1>2. \A v \in Users : RequestType(request'[v])
  BY <1>1, TypeParts
<1>3. ClaimType' /\ RightsType'
  BY TypeParts DEF ClaimType, RightsType, accessSpecVars, claimVars, accessVars, taskVars
<1> QED BY <1>2, <1>3 DEF TypeOK, ClaimType, RightsType, RequestType

\* A request is submitted with a list of namespaces or, as v1beta2, without one.
LEMMA SubmitType ==
  ASSUME IInv, TypeOK, NEW u \in Users, SubmitV2(u) \/ SubmitV1(u)
  PROVE  TypeOK'
<1>1. ASSUME NEW version, NEW sent, NEW hub, NEW targets \in (SUBSET Namespaces) \union {None},
             Submit(u, version, sent, hub, targets)
      PROVE  TypeOK'
  <2> DEFINE r == [stage |-> "default", version |-> version,
        verb |-> IF phase = "absent" THEN "create" ELSE "update",
        sent |-> sent, fields |-> hub, targets |-> targets,
        left |-> {}, held |-> {}, fresh |-> TRUE]
  <2>1. RequestType(r)
    BY DEF RequestType
  <2>2. /\ request' = [request EXCEPT ![u] = r]
        /\ UNCHANGED <<accessSpecVars, fields, permits, vetted>>
    BY <1>1 DEF Submit
  <2> HIDE DEF r
  <2> QED BY <2>1, <2>2, RequestTypeStep
<1>2. \A o : To(o).targetNamespaces = {InstallNamespace}
  BY DEF To, ConvertTo
<1>3. Specs \union {None} \subseteq (SUBSET Namespaces) \union {None}
  BY AdmissionAssumption
<1> QED BY <1>1, <1>2, <1>3, ListGiven DEF SubmitV2, SubmitV1

\* The defaulter gives every request a list of namespaces (cryostatDefaulter).
LEMMA DefaultType ==
  ASSUME IInv, TypeOK, NEW u \in Users, Default(u)
  PROVE  TypeOK'
<1> DEFINE d == Defaulted(request[u])
           r == Handled(d)
           q == [r EXCEPT !.stage = "validate", !.left = r.targets, !.sent = Empty]
<1>1. IsRequest(request[u]) /\ RequestType(request[u])
  BY TypeParts DEF IInv, RequestShape
<1>2. IsRequest(d) /\ d.targets # None /\ d.targets \subseteq Namespaces
  BY <1>1, ListGiven DEF Defaulted, IsRequest, RequestFields, RequestType
<1>3. IsRequest(r)
  BY <1>1, DefaultedShape
<1>4. /\ request' = [request EXCEPT ![u] = q] \/ request' = [request EXCEPT ![u] = NoRequest]
      /\ UNCHANGED <<accessSpecVars, fields, permits, vetted>>
  BY DEF Default
<1>5. \A o : To(o).targetNamespaces = {InstallNamespace}
  BY DEF To, ConvertTo
<1> HIDE DEF d
<1>6. r.targets # None /\ r.targets \subseteq Namespaces
  <2>1. r.targets = d.targets \/ r.targets = {InstallNamespace}
    BY <1>2, <1>5 DEF Handled, IsRequest, RequestFields
  <2> QED BY <1>2, <2>1, ListGiven
<1> HIDE DEF r
<1>7. RequestType(q)
  BY <1>3, <1>6 DEF RequestType, IsRequest, RequestFields
<1> HIDE DEF q
<1> QED BY <1>4, <1>7, NoRequestType, RequestTypeStep

\* A review or a refusal keeps the list of the request.
LEMMA ReviewType ==
  ASSUME IInv, TypeOK, NEW u \in Users, NEW n, Review(u, n) \/ Reject(u)
  PROVE  TypeOK'
<1> DEFINE r == request[u]
           q == [r EXCEPT !.left = r.left \ {n}, !.held = r.held \union {n}]
<1>1. IsRequest(r) /\ RequestType(r)
  BY TypeParts DEF IInv, RequestShape
<1>2. request' = [request EXCEPT ![u] = q] \/ request' = [request EXCEPT ![u] = NoRequest]
  BY DEF Review, Reject
<1>3. UNCHANGED <<accessSpecVars, fields, permits, vetted>>
  BY DEF Review, Reject
<1> HIDE DEF r
<1>4. RequestType(q)
  BY <1>1 DEF RequestType, IsRequest, RequestFields
<1> HIDE DEF q
<1> QED BY <1>2, <1>3, <1>4, NoRequestType, RequestTypeStep

\* What is stored is a list of namespaces, and it was vetted.
LEMMA StoreType ==
  ASSUME IInv, TypeOK, NEW u \in Users, Store(u)
  PROVE  TypeOK'
<1> DEFINE r == request[u]
<1>1. r.stage = "validate" /\ RequestType(r)
  BY TypeParts DEF Store
<1>2. r.targets \subseteq Namespaces /\ r.held \subseteq Namespaces
  <2>1. r.held \union r.left = r.targets
    BY <1>1 DEF IInv, Reviewed
  <2> QED BY <1>1, <2>1 DEF RequestType
<1>3. \A v \in Users : RequestType(request'[v])
  <2>1. \A v \in Users : request'[v] = IF v = u THEN NoRequest ELSE Outdate[v]
    BY OutdateKeeps DEF IInv, Store
  <2> QED BY <2>1, OutdateType, NoRequestType, TypeParts DEF IInv
<1>4. ClaimType'
  BY <1>2, TypeParts DEF Store, ClaimType, accessVars, taskVars
<1>5. vetted' \subseteq SUBSET Namespaces
  BY <1>2, ListGiven, TypeParts DEF Store, RightsType
<1>6. phase' # "absent" /\ permits' \in [Users -> SUBSET Namespaces]
  BY TypeParts DEF Store, RightsType
<1> QED BY <1>3, <1>4, <1>5, <1>6 DEF TypeOK, ClaimType, RequestType

\* Changes of rights and of access keep the types.
LEMMA ChangeType ==
  ASSUME TypeOK, NEW n \in Namespaces,
         LoseAccess(n) \/ \E u \in Users : ChangeRights(u, n)
  PROVE  TypeOK'
<1>1. UNCHANGED <<request, phase, wanted, fields, vetted>>
  BY DEF LoseAccess, ChangeRights, Lose, accessSpecVars, claimVars, admissionVars
<1>2. ClaimType'
  BY TypeParts DEF LoseAccess, ChangeRights, Lose, ClaimType, accessSpecVars, claimVars,
                   accessVars, taskVars
<1>3. permits' \in [Users -> SUBSET Namespaces]
  BY TypeParts DEF LoseAccess, ChangeRights, RightsType, admissionVars
<1> QED BY <1>1, <1>2, <1>3, TypeParts DEF TypeOK, ClaimType, RightsType

\* A write of the CR by the operator, or its deletion, leaves nothing of a CR that is gone.
LEMMA WriteType ==
  ASSUME IInv, TypeOK, DeleteCR \/ AddFinalizer \/ Write
  PROVE  TypeOK'
<1>1. request' = Outdate /\ permits' = permits
  BY DEF DeleteCR, AddFinalizer, Write
<1>2. \A v \in Users : RequestType(request'[v])
  BY <1>1, OutdateType, TypeParts DEF IInv
<1>3. ClaimType'
  BY ListGiven, TypeParts DEF DeleteCR, AddFinalizer, Write, Withdraw, Record, Release, NoTask,
                              ClaimType, accessVars, taskVars
<1>4. RightsType'
  <2>1. CASE phase' = "absent"
    BY <1>1, <2>1, TypeParts DEF DeleteCR, AddFinalizer, Write, Withdraw, Record, Release,
                                 Stored, RightsType
  <2>2. CASE phase' # "absent"
    BY <1>1, <2>2, TypeParts DEF DeleteCR, AddFinalizer, Write, Stored, RightsType
  <2> QED BY <2>1, <2>2
<1> QED BY <1>2, <1>3, <1>4 DEF TypeOK, ClaimType, RightsType, RequestType

\* The other steps of the operator keep the types.
LEMMA ReconcileType ==
  ASSUME TypeOK, Reconcile
  PROVE  TypeOK'
<1>1. UNCHANGED <<claimVars, fields, permits, vetted, request>>
  BY DEF Reconcile, admissionVars, StartSetup, Stop, Notice, StartCleanup, Grant, Revoke, CleanUp
<1>2. ClaimType'
  <2>1. UNCHANGED <<phase, wanted, recorded>>
    BY <1>1 DEF claimVars
  <2>2. CASE StartSetup \/ Stop \/ Notice
    BY <2>1, <2>2, TypeParts DEF StartSetup, Stop, Notice, NoTask, ClaimType, accessVars, taskVars
  <2>3. ASSUME NEW V \in SUBSET Namespaces, StartCleanup(V) PROVE ClaimType'
    BY <2>1, <2>3, TypeParts DEF StartCleanup, ClaimType, accessVars
  <2>4. ASSUME NEW n \in Namespaces, Grant(n) \/ Revoke(n) \/ CleanUp(n) PROVE ClaimType'
    BY <2>1, <2>4, TypeParts DEF Grant, Revoke, CleanUp, ClaimType, accessVars
  <2> QED BY <2>2, <2>3, <2>4 DEF Reconcile
<1> QED BY <1>1, <1>2, TypeParts DEF TypeOK, ClaimType, RightsType, claimVars

\* Types, in every behaviour: a list of namespaces is missing only before the defaulter,
\* and nothing is left of a CR that is gone (cryostatDefaulter, cryostatValidator).
THEOREM TypeCorrect == Spec => []TypeOK
<1>1. AdmissionInit => TypeOK
  <2> SUFFICES ASSUME AdmissionInit PROVE TypeOK
    OBVIOUS
  <2>1. \A u \in Users : RequestType(request[u])
    BY NoRequestType DEF AdmissionInit
  <2>2. \A o : To(o).targetNamespaces = {InstallNamespace}
               /\ To(o).statusNamespaces = {InstallNamespace}
    BY DEF To, ConvertTo
  <2>3. /\ task = "none" /\ view = {} /\ left = {} /\ drop = {} /\ unnoticed = FALSE
        /\ permits \in [Users -> SUBSET Namespaces]
    BY DEF AdmissionInit
  <2>4. \/ /\ phase = "absent" /\ wanted = {} /\ recorded = {} /\ access = {}
           /\ fields = Empty /\ vetted = {}
        \/ /\ phase = "live" /\ access = {InstallNamespace} /\ wanted = {InstallNamespace}
           /\ recorded = {InstallNamespace} /\ vetted = {{InstallNamespace}}
    BY <2>2 DEF AdmissionInit
  <2>5. ClaimType
    <3>1. \A S \in {wanted, recorded, access, view, left, drop} : S \in {{}, {InstallNamespace}}
      BY <2>3, <2>4
    <3> QED BY <2>3, <2>4, <3>1, ListGiven, ZenonT(60) DEF ClaimType
  <2>6. RightsType
    BY <2>3, <2>4, ListGiven DEF RightsType
  <2> QED BY <2>1, <2>5, <2>6, TypeParts
<1>2. IInv /\ TypeOK /\ [Next]_vars => TypeOK'
  <2> SUFFICES ASSUME IInv, TypeOK, [Next]_vars PROVE TypeOK'
    OBVIOUS
  <2>1. CASE UNCHANGED vars
    BY <2>1 DEF vars, accessSpecVars, claimVars, accessVars, taskVars, admissionVars, TypeOK
  <2> QED BY <2>1, SubmitType, DefaultType, ReviewType, StoreType, ChangeType, WriteType,
             ReconcileType DEF Next
<1> QED BY <1>1, <1>2, Invariance, PTL DEF Spec

-----------------------------------------------------------------------------
(* Old clients and audit logging.                                          *)

\* Any object at all survives a round trip through v1beta1.
THEOREM EveryRoundTripSafe == \A h : RoundTripSafe(h)
<1> SUFFICES ASSUME NEW h PROVE RoundTripSafe(h)
  OBVIOUS
<1>1. PICK G : Pair(convertSpecTo, convertSpecFrom, G)
  BY SpecPair
<1>2. \A o : To(o).spec = Convert(convertSpecTo, o) /\ From(o) = Convert(convertSpecFrom, o)
  BY DEF To, From, ConvertTo, ConvertFrom
<1>3. DOMAIN From(h) \subseteq V1!CryostatSpec
  <2>1. \A p \in DOMAIN Convert(convertSpecFrom, h) : \E a \in convertSpecFrom : p = a.to
    BY DEF Convert, Assigned
  <2> QED BY <1>2, <2>1, SpecSets DEF Sets
<1>4. /\ \A q \in DOMAIN To(From(h)).spec : q \in DOMAIN h /\ To(From(h)).spec[q] = h[q]
      /\ From(To(From(h)).spec) = From(h)
  BY <1>1, <1>2, RoundTrip
<1> QED BY <1>3, <1>4 DEF RoundTripSafe

\* Whatever CR is stored, old clients can read it and write it back without a
\* change of anything they see, or of any value (ConvertTo, ConvertFrom).
THEOREM OldClientsSafe == Spec => OldClientSafe
<1>1. FullObjectsSafe
  BY EveryRoundTripSafe DEF FullObjectsSafe
<1>2. [Next]_vars => [fields' # fields => RoundTripSafe(fields') /\ FullObjectsSafe]_vars
  BY <1>1, EveryRoundTripSafe
<1> QED BY <1>2, PTL DEF Spec, OldClientSafe

\* Audit logging has the setting of the defaulter.
AuditOn(o) == Audit \in DOMAIN o /\ o[Audit] = AuditDefault

\* An update that nothing has made stale has the defaulter's setting only if the CR has it.
AuditInv ==
  \A u \in Users :
    request[u].fresh /\ request[u].verb # "create" /\ AuditOn(request[u].fields) => AuditOn(fields)

\* The conversion to v1beta2 sets nothing about audit logging.
LEMMA NoAuditConverted == \A o : Audit \notin DOMAIN To(o).spec
<1> SUFFICES ASSUME NEW o, Audit \in DOMAIN To(o).spec PROVE FALSE
  OBVIOUS
<1>1. PICK G : Pair(convertSpecTo, convertSpecFrom, G) /\ "enableAudit" \notin G
  BY SpecPair
<1>2. DOMAIN To(o).spec = {a.to : a \in Assigned(convertSpecTo, o)}
  BY DEF To, ConvertTo, Convert
<1>3. PICK a \in convertSpecTo : Audit = a.to
  BY <1>2 DEF Assigned
<1>4. a.to \in Under(G)
  BY <1>1 DEF Pair
<1>5. Audit[1] = "enableAudit"
  BY DEF Audit
<1> QED BY <1>1, <1>3, <1>4, <1>5 DEF Under

\* The requests that a step makes stale, or leaves out, are not fresh.
LEMMA OutdateStale ==
  ASSUME RequestShape
  PROVE  \A u \in Users : Outdate[u].fresh = FALSE
BY DEF RequestShape, IsRequest, RequestFields, Outdate

\* Changing one request for one that satisfies the invariant keeps it.
LEMMA AuditStep ==
  ASSUME IInv, AuditInv, NEW u \in Users, NEW r,
         r.fresh /\ r.verb # "create" /\ AuditOn(r.fields) => AuditOn(fields),
         request' = [request EXCEPT ![u] = r], UNCHANGED fields
  PROVE  AuditInv'
<1>1. \A v \in Users : request'[v] = IF v = u THEN r ELSE request[v]
  BY DEF IInv, RequestShape
<1> QED BY <1>1 DEF AuditInv, AuditOn

\* The empty request is not fresh.
LEMMA NoRequestStale == NoRequest.fresh = FALSE
BY DEF NoRequest

\* A request carries what users set, the stored fields, or what an old client sent.
LEMMA SubmitAudit ==
  ASSUME IInv, AuditInv, NEW u \in Users, SubmitV2(u) \/ SubmitV1(u)
  PROVE  AuditInv'
<1>1. ASSUME NEW version, NEW sent, NEW hub, NEW targets, AuditOn(hub) => AuditOn(fields),
             Submit(u, version, sent, hub, targets)
      PROVE  AuditInv'
  <2> DEFINE r == [stage |-> "default", version |-> version,
        verb |-> IF phase = "absent" THEN "create" ELSE "update",
        sent |-> sent, fields |-> hub, targets |-> targets,
        left |-> {}, held |-> {}, fresh |-> TRUE]
  <2>1. AuditOn(r.fields) => AuditOn(fields)
    BY <1>1
  <2>2. request' = [request EXCEPT ![u] = r] /\ UNCHANGED fields
    BY <1>1 DEF Submit
  <2> HIDE DEF r
  <2> QED BY <2>1, <2>2, AuditStep
<1>2. \A hub \in V2Objects \union {fields} : AuditOn(hub) => AuditOn(fields)
  BY AdmissionAssumption DEF AuditOn
<1>3. \A o : ~AuditOn(To(o).spec)
  BY NoAuditConverted DEF AuditOn
<1> QED BY <1>1, <1>2, <1>3 DEF SubmitV2, SubmitV1

\* The defaulter leaves updates alone (cryostatDefaulter).
LEMMA DefaultAudit ==
  ASSUME IInv, AuditInv, NEW u \in Users, Default(u)
  PROVE  AuditInv'
<1> DEFINE d == Defaulted(request[u])
           r == Handled(d)
           q == [r EXCEPT !.stage = "validate", !.left = r.targets, !.sent = Empty]
<1>1. IsRequest(request[u])
  BY DEF IInv, RequestShape
<1>2. /\ request' = [request EXCEPT ![u] = q] \/ request' = [request EXCEPT ![u] = NoRequest]
      /\ UNCHANGED fields
  BY DEF Default
<1>3. /\ IsRequest(d) /\ d.verb = request[u].verb /\ d.fresh = request[u].fresh
      /\ d.verb # "create" => d.fields = request[u].fields
  BY <1>1 DEF Defaulted, IsRequest, RequestFields
<1> HIDE DEF d
<1>4. /\ IsRequest(r) /\ r.verb = d.verb /\ r.fresh = d.fresh
      /\ r.fields = d.fields \/ ~AuditOn(r.fields)
  <2>1. \A o : ~AuditOn(To(o).spec)
    BY NoAuditConverted DEF AuditOn
  <2> QED BY <1>3, <2>1 DEF Handled, IsRequest, RequestFields
<1> HIDE DEF r
<1>5. q.verb = r.verb /\ q.fresh = r.fresh /\ q.fields = r.fields
  BY <1>4 DEF IsRequest, RequestFields
<1> HIDE DEF q
<1>6. q.fresh /\ q.verb # "create" /\ AuditOn(q.fields) => AuditOn(fields)
  BY <1>3, <1>4, <1>5 DEF AuditInv
<1> QED BY <1>2, <1>6, AuditStep, NoRequestStale

\* A review or a refusal keeps the fields of the request.
LEMMA ReviewAudit ==
  ASSUME IInv, AuditInv, NEW u \in Users, NEW n, Review(u, n) \/ Reject(u)
  PROVE  AuditInv'
<1> DEFINE r == request[u]
           q == [r EXCEPT !.left = r.left \ {n}, !.held = r.held \union {n}]
<1>1. IsRequest(r) /\ (r.fresh /\ r.verb # "create" /\ AuditOn(r.fields) => AuditOn(fields))
  BY DEF IInv, RequestShape, AuditInv
<1>2. /\ request' = [request EXCEPT ![u] = q] \/ request' = [request EXCEPT ![u] = NoRequest]
      /\ UNCHANGED fields
  BY DEF Review, Reject
<1> HIDE DEF r
<1>3. q.verb = r.verb /\ q.fresh = r.fresh /\ q.fields = r.fields
  BY <1>1 DEF IsRequest, RequestFields
<1> HIDE DEF q
<1> QED BY <1>1, <1>2, <1>3, AuditStep, NoRequestStale

\* Whatever writes the CR makes every request stale.
LEMMA WriteAudit ==
  ASSUME IInv, DeleteCR \/ AddFinalizer \/ Write \/ \E u \in Users : Store(u)
  PROVE  AuditInv'
<1>1. \A v \in Users : request'[v].fresh = FALSE
  <2>1. CASE request' = Outdate
    BY <2>1, OutdateStale DEF IInv
  <2>2. ASSUME NEW u \in Users, Store(u) PROVE \A v \in Users : request'[v].fresh = FALSE
    <3>1. \A v \in Users : request'[v] = IF v = u THEN NoRequest ELSE Outdate[v]
      BY <2>2, OutdateKeeps DEF IInv, Store
    <3> QED BY <3>1, OutdateStale, NoRequestStale DEF IInv
  <2> QED BY <2>1, <2>2 DEF DeleteCR, AddFinalizer, Write
<1> QED BY <1>1 DEF AuditInv

\* The other steps touch neither requests nor the CR.
LEMMA OtherAudit ==
  ASSUME AuditInv, UNCHANGED <<request, fields>>
  PROVE  AuditInv'
BY DEF AuditInv, AuditOn

\* The steps that touch neither.
LEMMA OtherSteps ==
  ASSUME [Next]_vars,
         ~\E u \in Users : SubmitV2(u) \/ SubmitV1(u) \/ Default(u) \/ Reject(u) \/ Store(u),
         ~\E u \in Users, n \in Namespaces : Review(u, n),
         ~(DeleteCR \/ AddFinalizer \/ Write)
  PROVE  UNCHANGED <<request, fields>>
<1>1. \/ \E u \in Users, n \in Namespaces : ChangeRights(u, n)
      \/ \E n \in Namespaces : LoseAccess(n)
      \/ Reconcile \/ UNCHANGED vars
  BY DEF Next
<1> QED BY <1>1 DEF ChangeRights, LoseAccess, Reconcile, vars, admissionVars

\* Only new CRs get audit logging by default: the update of a CR without the
\* setting leaves it without, whoever has read and written it in between.
THEOREM AuditForNewOnly == Spec => AuditOnlyForNewCRs
<1>1. AdmissionInit => AuditInv
  BY NoRequestStale DEF AdmissionInit, AuditInv
<1>2. IInv /\ AuditInv /\ [Next]_vars => AuditInv'
  BY SubmitAudit, DefaultAudit, ReviewAudit, WriteAudit, OtherSteps, OtherAudit
<1>3. ASSUME IInv, AuditInv, [Next]_vars, AuditTurnedOn PROVE phase = "absent"
  <2>1. AuditOn(fields') /\ ~AuditOn(fields) /\ fields' # fields
    BY <1>3 DEF AuditTurnedOn, AuditOn
  <2>2. PICK u \in Users : Store(u)
    <3>1. AuditOn(Empty) = FALSE
      BY DEF AuditOn, Empty
    <3>2. DeleteCR \/ AddFinalizer \/ Write => fields' = fields \/ fields' = Empty
      BY DEF DeleteCR, AddFinalizer, Write, Stored
    <3>3. (\E u \in Users : SubmitV2(u) \/ SubmitV1(u) \/ Default(u) \/ Reject(u)) => fields' = fields
      BY DEF SubmitV2, SubmitV1, Submit, Default, Reject
    <3>4. (\E u \in Users, n \in Namespaces : Review(u, n)) => fields' = fields
      BY DEF Review
    <3> QED BY <1>3, <2>1, <3>1, <3>2, <3>3, <3>4, OtherSteps
  <2>3. fields' = request[u].fields
    BY <2>2 DEF Store
  <2>4. request[u].verb = "create" \/ request[u].fresh
    BY <2>2 DEF Store
  <2>5. request[u].verb = "create"
    BY <1>3, <2>1, <2>3, <2>4 DEF AuditInv
  <2> QED BY <2>2, <2>5 DEF Store
<1>4. IInv /\ AuditInv /\ [Next]_vars => [AuditTurnedOn => phase = "absent"]_vars
  BY <1>3
<1> QED BY <1>1, <1>2, <1>4, Invariance, PTL DEF Spec, AuditOnlyForNewCRs
=============================================================================
