---------------------------- MODULE AgentWebhook ----------------------------
(***************************************************************************)
(* The two mutating webhooks that inject the Cryostat agent, for one       *)
(* Deployment in one namespace and one Cryostat CR.  The Deployment's      *)
(* webhook copies agent labels to the pod template, the Pods' webhook      *)
(* configures the pods made from it.  Both read the CR from the operator's *)
(* cache at the time of the request, and neither looks again later.        *)
(***************************************************************************)
EXTENDS Integers

CONSTANTS Bits,           \* width of the code's int32
          MaxPort,        \* largest port the API server accepts
          DefaultPort,    \* constants.AgentCallbackContainerPort
          DefaultMaxAge, DefaultMaxSize,
          Bad,            \* a label value that does not parse
          Containers,     \* containers of the application's pods
          ValueFromVars,  \* environment variables that use valueFrom
          VolumeNames,    \* config map names that can follow "trigger-" in a volume name
          EnvNames,       \* names the API server accepts for a variable
          LabelMaps,      \* agent labels users put on the Deployment
          MaxEdits,       \* bound: changes of Deployment and CR
          MaxFaults       \* bound: requests that do not reach the webhooks

MaxInt == 2^(Bits - 1) - 1

NumericLabels == {"callback-port", "harvester-period", "harvester-max-files",
                  "harvester-exit-max-age", "harvester-exit-max-size"}

ASSUME ConstantsAssumption ==
  /\ Bits \in Nat \ {0}
  /\ MaxPort \in 1..MaxInt /\ DefaultPort \in 1..MaxPort
  /\ DefaultMaxAge \in 0..MaxInt /\ DefaultMaxSize \in 0..MaxInt
  /\ Bad \notin Nat \union {"true", "false"}
  /\ \A l \in LabelMaps : \A k \in DOMAIN l :
       k \in NumericLabels => l[k] \in Nat \union {Bad}
  /\ MaxEdits \in Nat /\ MaxFaults \in Nat

VARIABLES
  cr,      \* the CR: whether it exists, lists the namespace in status, uses TLS
  known,   \* the same in the operator's cache
  labels,  \* agent labels of the Deployment, a function on label names
  template,\* agent labels of its pod template
  pods,    \* the pods: their agent labels and what was injected
  edits, faults

vars == <<cr, known, labels, template, pods, edits, faults>>

NoLabels == << >>  \* the function with an empty domain
Required == {"name", "namespace"}
NoCR     == [exists |-> FALSE, targets |-> FALSE, tls |-> FALSE]
CRs      == {NoCR} \union [exists : {TRUE}, targets : BOOLEAN, tls : BOOLEAN]

Init ==
  /\ cr = NoCR /\ known = NoCR
  /\ labels = NoLabels /\ template = NoLabels
  /\ pods = {}
  /\ edits = 0 /\ faults = 0

-----------------------------------------------------------------------------
(* webhook_utils.go: values of labels.                                     *)

Has(l, k) == k \in DOMAIN l

\* Mutant: numbers keep their 64 bits.
Int64(n) == n

\* Conversion of an int64 to an int32, of which there are 2^Bits; numbers in
\* labels are not negative.
Int32(n) == LET size == 2 * (MaxInt + 1)
                m    == n % size
            IN IF m > MaxInt THEN m - size ELSE m

\* Whether a getter accepts a value: ParseInt checks the range of an int32,
\* ParseDuration and ParseQuantity accept any number.
Parses(k, v) ==
  CASE k = "callback-port"       -> v # Bad /\ v <= MaxInt
    [] k = "harvester-max-files" -> v # Bad /\ v > 0 /\ v <= MaxInt
    [] k = "container"           -> v \in Containers
    [] OTHER                     -> v # Bad

\* Labels whose getters can fail, for pods and for the Deployment.
PodChecked == {"callback-port", "read-only", "harvester-period", "harvester-max-files",
               "harvester-exit-max-age", "harvester-exit-max-size", "container"}
DeploymentChecked == {"callback-port", "read-only", "harvester-exit-max-age",
                      "harvester-exit-max-size"}

Accepted(l, checked) == \A k \in checked : Has(l, k) => Parses(k, l[k])

Value(l, k, default) == IF Has(l, k) THEN l[k] ELSE default

JavaOptionsVar(l) == Value(l, "java-options-var", "JAVA_TOOL_OPTIONS")

-----------------------------------------------------------------------------
(* deployment_defaulter.go                                                 *)

IsTarget(c) == c.exists /\ c.targets

\* The labels l, and those of t under other keys.
CopyLabels(l, t) ==
  [k \in DOMAIN l \union DOMAIN t |-> IF k \in DOMAIN l THEN l[k] ELSE t[k]]

\* Mutant: labels are copied unchecked.
DeploymentUnchecked(l, t) == IF IsTarget(known) THEN CopyLabels(l, t) ELSE t

\* The template after Default: labels of the Deployment are copied over those
\* the template has.  An error leaves the template as it was sent.
DeploymentDefault(l, t) ==
  IF IsTarget(known) /\ Accepted(l, DeploymentChecked) THEN CopyLabels(l, t) ELSE t

-----------------------------------------------------------------------------
(* pod_defaulter.go                                                        *)

NoAgent == [parts |-> {}]

HarvesterDefault(k) ==
  CASE k = "harvester-exit-max-age"  -> DefaultMaxAge
    [] k = "harvester-exit-max-size" -> DefaultMaxSize

\* The harvester's variables: period and number of files if given, age and
\* size always; none without a template.
Harvester(l) ==
  IF Value(l, "harvester-template", "") = "" THEN NoLabels
  ELSE [k \in (DOMAIN l \intersect {"harvester-period", "harvester-max-files"})
                \union {"harvester-exit-max-age", "harvester-exit-max-size"} |->
          Int32(IF Has(l, k) THEN l[k] ELSE HarvesterDefault(k))]

\* What Default adds to a pod before it touches the JVM's options.
Configured(l) ==
  [parts     |-> {"init-container", "agent-volume", "env", "port"}
                   \union (IF known.tls THEN {"tls-volume"} ELSE {})
                   \union (IF Has(l, "smart-triggers") THEN {"trigger-volume"} ELSE {}),
   tls       |-> known.tls,
   port      |-> Value(l, "callback-port", DefaultPort),
   write     |-> Value(l, "read-only", "false") = "false",
   harvester |-> Harvester(l)]

\* extendJavaOptsVar fails on a variable that uses valueFrom.
CannotExtend(l) == JavaOptionsVar(l) \in ValueFromVars

\* Default: it checks, then changes the pod, and then can still fail.
PodDefault(l) ==
  IF ~IsTarget(known) \/ ~Accepted(l, PodChecked)
  THEN [failed |-> TRUE, agent |-> NoAgent]
  ELSE IF CannotExtend(l)
  THEN [failed |-> TRUE, agent |-> Configured(l)]
  ELSE [failed |-> FALSE,
        agent  |-> [Configured(l) EXCEPT !.parts = @ \union {"java-options"}]]

\* Mutant: changes made before an error are kept.
HandleLeaky(l) == PodDefault(l).agent

\* The handler answers an error without a patch, and allowAllRequests turns
\* every answer into an admission.
Handle(l) == IF PodDefault(l).failed THEN NoAgent ELSE PodDefault(l).agent

-----------------------------------------------------------------------------
(* The API server, its users and controllers.                              *)

\* Validation after the webhooks: ports, names of volumes, names of variables.
Valid(l, agent) ==
  agent # NoAgent =>
    /\ agent.port \in 1..MaxPort
    /\ Has(l, "smart-triggers") => l["smart-triggers"] \in VolumeNames
    /\ JavaOptionsVar(l) \in EnvNames

\* The object selector of both webhooks; a webhook that is not reached is
\* ignored (failurePolicy=ignore).
Called(l, reached) == reached /\ Required \subseteq DOMAIN l

Edit == edits < MaxEdits /\ edits' = edits + 1
Call(reached) == IF reached THEN UNCHANGED faults
                 ELSE faults < MaxFaults /\ faults' = faults + 1

\* The Deployment's agent labels are set to l.  A patch leaves the template
\* alone, a replacement sends one without agent labels.
UpdateDeployment(l, sent, reached) ==
  /\ Edit /\ Call(reached)
  /\ labels' = l
  /\ template' = IF Called(l, reached) THEN DeploymentDefault(l, sent) ELSE sent
  /\ UNCHANGED <<cr, known, pods>>

\* A pod is made from the template; one that is refused is tried again later.
CreatePod(reached) ==
  /\ Call(reached)
  /\ LET agent == IF Called(template, reached) THEN Handle(template) ELSE NoAgent
     IN pods' = pods \union
                  IF Valid(template, agent) THEN {[labels |-> template, agent |-> agent]} ELSE {}
  /\ UNCHANGED <<cr, known, labels, template, edits>>

DeletePod(p) ==
  /\ pods' = pods \ {p}
  /\ UNCHANGED <<cr, known, labels, template, edits, faults>>

\* The reconciler or a user changes the CR.
ChangeCR(c) ==
  /\ Edit
  /\ c # cr /\ cr' = c
  /\ UNCHANGED <<known, labels, template, pods, faults>>

SyncCache ==
  /\ known # cr /\ known' = cr
  /\ UNCHANGED <<cr, labels, template, pods, edits, faults>>

Next ==
  \/ \E l \in LabelMaps, sent \in {template, NoLabels}, reached \in BOOLEAN :
       UpdateDeployment(l, sent, reached)
  \/ \E reached \in BOOLEAN : CreatePod(reached)
  \/ \E p \in pods : DeletePod(p)
  \/ \E c \in CRs : ChangeCR(c)
  \/ SyncCache

Spec == Init /\ [][Next]_vars

-----------------------------------------------------------------------------
(* Properties.                                                             *)

\* Types; besides, every number handed to an agent has the width of an int32.
TypeOK ==
  /\ cr \in CRs /\ known \in CRs
  /\ labels \in LabelMaps \union {NoLabels}
  /\ \A k \in DOMAIN template : \E l \in LabelMaps : Has(l, k) /\ l[k] = template[k]
  /\ \A p \in pods : p.agent # NoAgent =>
       /\ p.agent.port \in 1..MaxPort
       /\ \A k \in DOMAIN p.agent.harvester : p.agent.harvester[k] \in (-MaxInt - 1)..MaxInt
  /\ edits \in 0..MaxEdits /\ faults \in 0..MaxFaults

\* An agent is injected as a whole or not at all, although the last step of
\* Default can fail after the pod has been changed; and the certificate volume
\* is there exactly when the agent was told to use TLS.
AgentComplete ==
  \A p \in pods : p.agent # NoAgent =>
    /\ {"init-container", "agent-volume", "env", "port", "java-options"} \subseteq p.agent.parts
    /\ "tls-volume" \in p.agent.parts <=> p.agent.tls

\* The labels the Deployment's webhook lets through do not stop the pods'
\* webhook, whatever sequence of updates the template has gathered them from: a
\* pod that stays without an agent in a target namespace has the labels that
\* only the pods' webhook looks at to blame.
AgentOrReason ==
  \A p \in pods' \ pods :
    /\ faults' = faults /\ Required \subseteq DOMAIN p.labels /\ IsTarget(known)
    /\ p.agent = NoAgent
    => \/ CannotExtend(p.labels)
       \/ ~Accepted(p.labels, PodChecked \ DeploymentChecked)

PropagationSuffices == [][AgentOrReason]_vars
=============================================================================
