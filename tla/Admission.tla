----------------------------- MODULE Admission -----------------------------
(***************************************************************************)
(* The way of a Cryostat CR into the cluster, in front of the operator of  *)
(* NamespaceAccess: users submit v1beta2 objects, or v1beta1 objects that  *)
(* are converted; the defaulter completes them; the validator asks, one    *)
(* namespace at a time, whether the user may create a Cryostat there; and  *)
(* the API server stores the object unless the CR has changed meanwhile.   *)
(* Several requests are under way at once, rights change between any two   *)
(* steps, and deletions and the operator's own writes go on as before.     *)
(***************************************************************************)
EXTENDS NamespaceAccess, Conversion

CONSTANTS Users,             \* users with the right to update the CR
          InstallNamespace,  \* the namespace of the CR
          None,
          V1Objects,         \* v1beta1 specs that old clients submit
          V2Objects,         \* v1beta2 specs, without target namespaces
          MaxRequests,       \* requests and deletions in a behaviour
          MaxChanges         \* changes of rights, and of access behind the operator's back

VARIABLES
  fields,   \* the spec of the stored CR, without target namespaces
  permits,  \* the namespaces in which a user may create a Cryostat
  request,  \* the request of a user that is under way
  vetted,   \* history: lists of namespaces some user held the right to, as a whole
  requests, \* requests and deletions so far
  changes   \* changes so far

admissionVars == <<fields, permits, request, vetted>>
counters == <<requests, changes>>
vars == <<accessSpecVars, admissionVars, counters>>

\* The setting that the defaulter chooses for audit logging; what users set is
\* told apart from it, so that the two are not mistaken for each other.
Audit == <<"enableAudit">>
AuditDefault == <<"true">>
AuditSet(o) == [p \in DOMAIN o \union {Audit} |-> IF p = Audit THEN AuditDefault ELSE o[p]]

ASSUME AdmissionAssumption ==
  /\ InstallNamespace \in Namespaces
  /\ \A S \in SUBSET Namespaces : S # None
  /\ Specs \subseteq SUBSET Namespaces
  /\ \A o \in V2Objects : Audit \in DOMAIN o => o[Audit] # AuditDefault
  /\ MaxRequests \in Nat /\ MaxChanges \in Nat

To(o)   == ConvertTo([spec |-> o, status |-> Empty], InstallNamespace)
From(h) == ConvertFrom([spec |-> h, status |-> Empty]).spec

NoRequest == [stage |-> "none", version |-> None, verb |-> None, sent |-> Empty,
              fields |-> Empty, targets |-> {}, left |-> {}, held |-> {}, fresh |-> FALSE]

\* The CR is there from a release that stored v1beta1, or is not there yet.
AdmissionInit ==
  /\ task = "none" /\ view = {} /\ left = {} /\ drop = {} /\ unnoticed = FALSE
  /\ \/ /\ phase = "absent" /\ wanted = {} /\ recorded = {} /\ access = {}
        /\ fields = Empty /\ vetted = {}
     \/ \E o \in V1Objects :
          /\ phase = "live" /\ access = {InstallNamespace}
          /\ wanted = To(o).targetNamespaces /\ recorded = To(o).statusNamespaces
          /\ fields = To(o).spec /\ vetted = {{InstallNamespace}}
  /\ permits \in [Users -> SUBSET Namespaces]
  /\ request = [u \in Users |-> NoRequest]
  /\ requests = 0 /\ changes = 0

\* Whatever changes the stored CR makes the requests under way stale.
Outdate == [u \in Users |-> [request[u] EXCEPT !.fresh = FALSE]]
Count   == requests < MaxRequests /\ requests' = requests + 1 /\ UNCHANGED changes
Change  == changes < MaxChanges /\ changes' = changes + 1 /\ UNCHANGED requests

-----------------------------------------------------------------------------
(* A request, from the user to the store.                                  *)

\* A request for the CR as the user sees it.  The API server lets a user create
\* it who may do so in the install namespace, and a user update it in any case.
Submit(u, version, sent, hub, targets) ==
  /\ Count /\ request[u].stage = "none"
  /\ phase = "absent" => InstallNamespace \in permits[u]
  /\ request' = [request EXCEPT ![u] =
       [stage |-> "default", version |-> version,
        verb |-> IF phase = "absent" THEN "create" ELSE "update",
        sent |-> sent, fields |-> hub, targets |-> targets,
        left |-> {}, held |-> {}, fresh |-> TRUE]]
  /\ UNCHANGED <<accessSpecVars, fields, permits, vetted>>

\* A list of target namespaces may be left out, or be given and empty.
SubmitV2(u) ==
  \E hub \in V2Objects \union {fields}, targets \in Specs \union {None} :
    Submit(u, "v1beta2", hub, hub, targets)

\* An old client sends an object of its own, or what it has read.
SubmitV1(u) ==
  \E o \in V1Objects \union {From(fields)} :
    Submit(u, "v1beta1", o, To(o).spec, To(o).targetNamespaces)

\* Mutant: the list is defaulted in new CRs only.
DefaultedNew(r) ==
  [r EXCEPT !.targets = IF r.targets = None /\ r.verb = "create"
                        THEN {InstallNamespace} ELSE @,
            !.fields  = IF r.verb = "create" /\ Audit \notin DOMAIN r.fields
                        THEN AuditSet(@) ELSE @]

\* Mutant: audit logging is defaulted in every request.
DefaultedAlways(r) ==
  [r EXCEPT !.targets = IF r.targets = None THEN {InstallNamespace} ELSE @,
            !.fields  = IF Audit \notin DOMAIN r.fields
                        THEN AuditSet(@) ELSE @]

\* cryostatDefaulter: the namespace of the CR if there is no list; audit logging
\* is on in a CR that is new.
Defaulted(r) ==
  [r EXCEPT !.targets = IF r.targets = None THEN {InstallNamespace} ELSE @,
            !.fields  = IF r.verb = "create" /\ Audit \notin DOMAIN r.fields
                        THEN AuditSet(@) ELSE @]

\* A request of an old client stays a v1beta1 object for the API server, which
\* converts it for each webhook, and converts the defaulted object back.
Handled(r) ==
  IF r.version = "v1beta1"
  THEN [r EXCEPT !.fields = To(From(@)).spec, !.targets = To(From(r.fields)).targetNamespaces]
  ELSE r

Default(u) ==
  LET r == Handled(Defaulted(request[u]))
  IN  /\ request[u].stage = "default"
      /\ request' = [request EXCEPT ![u] =
           IF r.version = "v1beta2" /\ ~V2!CertificateSecretRule(r.fields)
           THEN NoRequest
           ELSE [r EXCEPT !.stage = "validate", !.left = r.targets, !.sent = Empty]]
      /\ UNCHANGED <<accessSpecVars, fields, permits, vetted, counters>>

\* Mutant: the first permitted namespace ends the loop.
ReviewFirst(u, n) ==
  LET r == request[u]
  IN  /\ r.stage = "validate" /\ n \in r.left
      /\ request' = [request EXCEPT ![u] =
           IF n \in permits[u]
           THEN [r EXCEPT !.left = {}, !.held = r.held \union {n}]
           ELSE NoRequest]
      /\ UNCHANGED <<accessSpecVars, fields, permits, vetted, counters>>

\* cryostatValidator: one SubjectAccessReview; the first refusal ends the request.
Review(u, n) ==
  LET r == request[u]
  IN  /\ r.stage = "validate" /\ n \in r.left
      /\ request' = [request EXCEPT ![u] =
           IF n \in permits[u]
           THEN [r EXCEPT !.left = r.left \ {n}, !.held = r.held \union {n}]
           ELSE NoRequest]
      /\ UNCHANGED <<accessSpecVars, fields, permits, vetted, counters>>

\* A webhook or a review fails, or the client gives up: failurePolicy is Fail.
Reject(u) ==
  /\ request[u].stage # "none"
  /\ request' = [request EXCEPT ![u] = NoRequest]
  /\ UNCHANGED <<accessSpecVars, fields, permits, vetted, counters>>

\* The object is created or replaced if nothing has changed it meanwhile; the
\* status is not part of the request.  A creator holds the right to the install
\* namespace, whatever the list.
Store(u) ==
  LET r == request[u]
  IN  /\ r.stage = "validate" /\ r.left = {}
      /\ IF r.verb = "create" THEN phase = "absent" ELSE phase # "absent" /\ r.fresh
      /\ wanted' = r.targets /\ fields' = r.fields
      /\ phase' = IF phase = "absent" THEN "new" ELSE phase
      /\ vetted' = IF r.verb = "create" THEN {{InstallNamespace}, r.held}
                   ELSE vetted \union {r.held}
      /\ request' = [Outdate EXCEPT ![u] = NoRequest]
      /\ UNCHANGED <<recorded, accessVars, taskVars, permits, counters>>

-----------------------------------------------------------------------------
(* What goes on meanwhile.                                                 *)

ChangeRights(u, n) ==
  /\ Change
  /\ permits' = [permits EXCEPT ![u] = IF n \in @ THEN @ \ {n} ELSE @ \union {n}]
  /\ UNCHANGED <<accessSpecVars, fields, request, vetted>>

LoseAccess(n) == Change /\ Lose(n) /\ UNCHANGED admissionVars

\* The CR is gone, or not.
Stored == IF phase' = "absent" THEN fields' = Empty /\ vetted' = {} ELSE UNCHANGED <<fields, vetted>>

\* ValidateDelete accepts every deletion.
DeleteCR == Count /\ Withdraw /\ Stored /\ request' = Outdate /\ UNCHANGED permits

\* The operator's own update passes the webhooks, with every right, as a typed
\* object: an empty list is left out of it, and defaulted.
AddFinalizer ==
  /\ phase = "new" /\ phase' = "live" /\ task = "none"
  /\ wanted' = IF wanted = {} THEN {InstallNamespace} ELSE wanted
  /\ request' = Outdate
  /\ UNCHANGED <<recorded, accessVars, taskVars, fields, permits, vetted, counters>>

\* The other writes of the operator to the CR.
Write == (Record \/ Release) /\ Stored /\ request' = Outdate /\ UNCHANGED <<permits, counters>>

Reconcile ==
  /\ \/ StartSetup \/ Stop \/ Notice
     \/ \E V \in SUBSET Namespaces : StartCleanup(V)
     \/ \E n \in Namespaces : Grant(n) \/ Revoke(n) \/ CleanUp(n)
  /\ UNCHANGED <<admissionVars, counters>>

Next ==
  \/ \E u \in Users : SubmitV2(u) \/ SubmitV1(u) \/ Default(u) \/ Reject(u) \/ Store(u)
  \/ \E u \in Users, n \in Namespaces : Review(u, n) \/ ChangeRights(u, n)
  \/ \E n \in Namespaces : LoseAccess(n)
  \/ DeleteCR \/ AddFinalizer \/ Write \/ Reconcile

Spec == AdmissionInit /\ [][Next]_vars

-----------------------------------------------------------------------------
(* Properties.                                                             *)

\* Types; a list of target namespaces is missing only before the defaulter, and
\* nothing is left of a CR that is gone.
TypeOK ==
  /\ phase \in {"absent", "new", "live", "deleting"}
  /\ task \in {"none", "setup", "cleanup"} /\ unnoticed \in BOOLEAN
  /\ {wanted, recorded, access, view, left, drop} \subseteq SUBSET Namespaces
  /\ vetted \subseteq SUBSET Namespaces /\ permits \in [Users -> SUBSET Namespaces]
  /\ phase = "absent" => wanted = {} /\ fields = Empty /\ vetted = {}
  /\ \A u \in Users :
       /\ request[u].stage \in {"none", "default", "validate"}
       /\ IF request[u].targets = None THEN request[u].stage = "default"
          ELSE request[u].targets \subseteq Namespaces

\* The operator grants access only on behalf of a list of namespaces for which,
\* as a whole, one user held the right when the list was reviewed, in the life
\* of this very CR, whatever requests, deletions, re-creations and conversions
\* happen around the review and the grant.
GrantsVetted == [][access' \ access # {} => view \in vetted]_vars

\* An old client that writes back what it reads, which has fields of its own
\* version only, changes nothing it can see, and no field that survives has
\* another value than before.
RoundTripSafe(h) ==
  LET again == To(From(h)).spec
  IN  /\ DOMAIN From(h) \subseteq V1!CryostatSpec
      /\ From(again) = From(h)
      /\ \A p \in DOMAIN again : p \in DOMAIN h /\ again[p] = h[p]

\* The same of the objects that set every field, but for one source of trusted
\* certificates.
FullObjectsSafe ==
  \A f \in {"secretName", "configMapName"} :
    RoundTripSafe(Full(V2!CryostatSpec \ {<<"trustedCertSecrets", f>>}))

\* Old clients can read every CR that is stored and write it back: what they see
\* of it stays, field by field, and no other field that survives has another value.
\* Fields that only v1beta2 has may be lost, and the list of target namespaces is
\* the conversion's (the validator reviews it like any other list).
OldClientSafe == [][fields' # fields => RoundTripSafe(fields') /\ FullObjectsSafe]_vars

\* Audit logging is turned on by default in a new CR only: a CR that exists
\* without the setting keeps its behaviour until somebody sets it.
AuditTurnedOn ==
  /\ Audit \notin DOMAIN fields
  /\ Audit \in DOMAIN fields' /\ fields'[Audit] = AuditDefault

AuditOnlyForNewCRs == [][AuditTurnedOn => phase = "absent"]_vars

-----------------------------------------------------------------------------
(* A statement about the conversion that the code does not meet.           *)

\* "Convert existing Spec fields": what an old client sets under a name that
\* v1beta2 has as well reaches the v1beta2 object.
SharedFieldsConverted ==
  \A u \in Users : request[u].version = "v1beta1" =>
    DOMAIN request[u].sent \intersect V2!CryostatSpec \subseteq DOMAIN request[u].fields
=============================================================================
