------------------------ MODULE AgentWebhookProofs ------------------------
(***************************************************************************)
(* Proofs about AgentWebhook for every value of the constants: any labels, *)
(* any width of integers, any number of changes and lost requests.         *)
(***************************************************************************)
EXTENDS AgentWebhook, TLAPS

\* Every label of the template was checked by the Deployment's webhook in some
\* update: one that failed the check, or missed the webhook, copied none.
TemplateChecked == Accepted(template, DeploymentChecked)

IInv == TypeOK /\ AgentComplete /\ TemplateChecked

-----------------------------------------------------------------------------
(* The operators of the webhooks.                                          *)

\* The conversion of a number to an int32 (getHarvesterExitMaxAge, ...Size, ...Period)
\* has the width of an int32, whatever the number.
LEMMA Int32Range ==
  ASSUME NEW n \in Nat PROVE Int32(n) \in (-MaxInt - 1)..MaxInt
<1> DEFINE size == 2 * (MaxInt + 1)
<1>1. MaxInt \in Nat \ {0}
  BY ConstantsAssumption DEF MaxInt
<1>2. size \in Nat \ {0} /\ size = 2 * MaxInt + 2
  BY <1>1
<1>3. n % size \in 0..(size - 1)
  BY <1>2
<1>4. Int32(n) = IF n % size > MaxInt THEN (n % size) - size ELSE n % size
  BY DEF Int32
<1> HIDE DEF size
<1> QED BY <1>1, <1>2, <1>3, <1>4

\* Labels copied over others are accepted when both were (DeploymentDefault).
LEMMA CopyAccepted ==
  ASSUME NEW l, NEW t, NEW checked, Accepted(l, checked), Accepted(t, checked)
  PROVE  Accepted(CopyLabels(l, t), checked)
  BY DEF Accepted, CopyLabels, Has

\* Without labels there is nothing to refuse.
LEMMA NoLabelsAccepted == Accepted(NoLabels, DeploymentChecked) /\ DOMAIN NoLabels = {}
  BY DEF Accepted, NoLabels, Has

\* A label with a number in the template is a number or does not parse, and one that the
\* pods' webhook accepts is a number.
LEMMA TemplateNumbers ==
  ASSUME TypeOK, NEW k \in NumericLabels, Has(template, k)
  PROVE  template[k] \in Nat \union {Bad}
<1>1. PICK l \in LabelMaps : Has(l, k) /\ l[k] = template[k]
  BY DEF TypeOK, Has
<1> QED BY <1>1, ConstantsAssumption DEF Has

\* The variables of the harvester are int32 values for every template the pods' webhook
\* accepts (Default).
LEMMA HarvesterRange ==
  ASSUME TypeOK, Accepted(template, PodChecked)
  PROVE  \A k \in DOMAIN Harvester(template) :
           Harvester(template)[k] \in (-MaxInt - 1)..MaxInt
<1> DEFINE K == (DOMAIN template \intersect {"harvester-period", "harvester-max-files"})
                  \union {"harvester-exit-max-age", "harvester-exit-max-size"}
           n(k) == IF Has(template, k) THEN template[k] ELSE HarvesterDefault(k)
<1>1. CASE Value(template, "harvester-template", "") = ""
  BY <1>1, NoLabelsAccepted DEF Harvester
<1>2. CASE Value(template, "harvester-template", "") # ""
  <2>1. Harvester(template) = [k \in K |-> Int32(n(k))]
    BY <1>2 DEF Harvester
  <2>2. ASSUME NEW k \in K PROVE n(k) \in Nat
    <3>1. CASE Has(template, k)
      <4>1. k \in NumericLabels /\ k \in PodChecked
        BY DEF NumericLabels, PodChecked
      <4>2. template[k] # Bad
        BY <3>1, <4>1 DEF Accepted, Parses
      <4> QED BY <3>1, <4>1, <4>2, TemplateNumbers
    <3>2. CASE ~Has(template, k)
      BY <3>2, ConstantsAssumption DEF HarvesterDefault, Has, MaxInt
    <3> QED BY <3>1, <3>2
  <2>3. ASSUME NEW k \in K PROVE Int32(n(k)) \in (-MaxInt - 1)..MaxInt
    BY <2>2, Int32Range
  <2> HIDE DEF K, n
  <2> QED BY <2>1, <2>3
<1> QED BY <1>1, <1>2

\* What Handle adds to a pod is nothing or an agent configured to the end (Default, Handle).
LEMMA HandleComplete ==
  ASSUME NEW l, Handle(l) # NoAgent
  PROVE  /\ Accepted(l, PodChecked)
         /\ Handle(l).harvester = Harvester(l)
         /\ {"init-container", "agent-volume", "env", "port", "java-options"}
              \subseteq Handle(l).parts
         /\ Handle(l).tls = known.tls
         /\ "tls-volume" \in Handle(l).parts <=> known.tls
<1>1. /\ Accepted(l, PodChecked)
      /\ Handle(l) = [Configured(l) EXCEPT !.parts = @ \union {"java-options"}]
  BY DEF Handle, PodDefault
<1> QED BY <1>1 DEF Configured

\* Handle fails for an accepted template in a target namespace only because of the variable
\* with the JVM's options (extendJavaOptsVar).
LEMMA HandleFails ==
  ASSUME NEW l, IsTarget(known), Accepted(l, PodChecked), Handle(l) = NoAgent
  PROVE  CannotExtend(l)
<1> SUFFICES ASSUME ~CannotExtend(l) PROVE FALSE
  OBVIOUS
<1>1. Handle(l) = [Configured(l) EXCEPT !.parts = @ \union {"java-options"}]
  BY DEF Handle, PodDefault
<1>2. "java-options" \in Handle(l).parts
  BY <1>1 DEF Configured
<1> QED BY <1>2 DEF NoAgent

-----------------------------------------------------------------------------
(* The invariant.                                                          *)

\* The template after an update of the Deployment has labels users gave it, all checked.
LEMMA UpdateKeeps ==
  ASSUME IInv, NEW l \in LabelMaps, NEW sent \in {template, NoLabels}, NEW reached \in BOOLEAN,
         UpdateDeployment(l, sent, reached)
  PROVE  IInv'
<1> USE DEF IInv
<1>1. Accepted(sent, DeploymentChecked)
  BY NoLabelsAccepted DEF TemplateChecked
<1>2. \A k \in DOMAIN sent : \E m \in LabelMaps : Has(m, k) /\ m[k] = sent[k]
  BY NoLabelsAccepted DEF TypeOK
<1>3. edits' \in 0..MaxEdits /\ faults' \in 0..MaxFaults
  BY ConstantsAssumption DEF UpdateDeployment, TypeOK, Edit, Call
<1>4. CASE template' = sent
  <2>1. TemplateChecked'
    BY <1>1, <1>4 DEF TemplateChecked
  <2> QED BY <1>2, <1>3, <1>4, <2>1 DEF UpdateDeployment, TypeOK, AgentComplete
<1>5. CASE template' = CopyLabels(l, sent) /\ Accepted(l, DeploymentChecked)
  <2>1. TemplateChecked'
    BY <1>1, <1>5, CopyAccepted DEF TemplateChecked
  <2>2. \A k \in DOMAIN template' : \E m \in LabelMaps : Has(m, k) /\ m[k] = template'[k]
    BY <1>2, <1>5 DEF CopyLabels, Has
  <2> QED BY <1>3, <2>1, <2>2 DEF UpdateDeployment, TypeOK, AgentComplete
<1> QED BY <1>4, <1>5 DEF UpdateDeployment, DeploymentDefault

\* A new pod has a complete agent, with numbers an int32 can hold, or none.
LEMMA CreateKeeps ==
  ASSUME IInv, NEW reached \in BOOLEAN, CreatePod(reached)
  PROVE  IInv'
<1> USE DEF IInv
<1> DEFINE agent == IF Called(template, reached) THEN Handle(template) ELSE NoAgent
           new   == [labels |-> template, agent |-> agent]
<1>1. /\ pods' \subseteq pods \union {new}
      /\ new \notin pods' \/ new \in pods \/ Valid(template, agent)
  BY DEF CreatePod
<1>2. ASSUME agent # NoAgent, Valid(template, agent)
      PROVE  /\ agent.port \in 1..MaxPort
             /\ \A k \in DOMAIN agent.harvester : agent.harvester[k] \in (-MaxInt - 1)..MaxInt
             /\ {"init-container", "agent-volume", "env", "port", "java-options"}
                  \subseteq agent.parts
             /\ "tls-volume" \in agent.parts <=> agent.tls
  <2>1. agent = Handle(template) /\ Handle(template) # NoAgent
    BY <1>2
  <2>2. agent.port \in 1..MaxPort
    BY <1>2 DEF Valid
  <2> QED BY <2>1, <2>2, HandleComplete, HarvesterRange
<1>3. new.agent = agent
  OBVIOUS
<1>4. UNCHANGED <<cr, known, labels, template, edits>> /\ faults' \in 0..MaxFaults
  BY ConstantsAssumption DEF CreatePod, Call, TypeOK
<1> HIDE DEF new, agent
<1> QED BY <1>1, <1>2, <1>3, <1>4 DEF TypeOK, AgentComplete, TemplateChecked

\* The invariant is preserved by every step.
LEMMA InvStep == IInv /\ [Next]_vars => IInv'
<1> SUFFICES ASSUME IInv, [Next]_vars PROVE IInv'
  OBVIOUS
<1>1. ASSUME NEW p \in pods, DeletePod(p) PROVE IInv'
  BY <1>1 DEF DeletePod, IInv, TypeOK, AgentComplete, TemplateChecked
<1>2. ASSUME NEW c \in CRs, ChangeCR(c) PROVE IInv'
  BY <1>2, ConstantsAssumption DEF ChangeCR, Edit, IInv, TypeOK, AgentComplete, TemplateChecked
<1>3. CASE SyncCache \/ UNCHANGED vars
  BY <1>3 DEF SyncCache, vars, IInv, TypeOK, AgentComplete, TemplateChecked
<1> QED BY <1>1, <1>2, <1>3, UpdateKeeps, CreateKeeps DEF Next

\* The invariant holds in every reachable state.
THEOREM Invariance == Spec => []IInv
<1>1. Init => IInv
  BY NoLabelsAccepted, ConstantsAssumption
  DEF Init, IInv, TypeOK, AgentComplete, TemplateChecked, CRs
<1> QED BY <1>1, InvStep, PTL DEF Spec

\* Types, and the width of every number handed to an agent (Default of the pods' webhook).
THEOREM TypeCorrect == Spec => []TypeOK
  BY Invariance, PTL DEF IInv

\* An agent is injected as a whole or not at all, although Default can fail after it has
\* changed the pod, and it has its certificate volume exactly when it uses TLS.
THEOREM AgentsComplete == Spec => []AgentComplete
  BY Invariance, PTL DEF IInv

\* A label that the Deployment's webhook lets through never stops the pods' webhook.
LEMMA PropagationStep == IInv /\ [Next]_vars => AgentOrReason
<1> SUFFICES ASSUME IInv, [Next]_vars, NEW p \in pods' \ pods, faults' = faults,
                    Required \subseteq DOMAIN p.labels, IsTarget(known), p.agent = NoAgent
             PROVE  CannotExtend(p.labels) \/ ~Accepted(p.labels, PodChecked \ DeploymentChecked)
  BY DEF AgentOrReason
<1>1. PICK reached \in BOOLEAN : CreatePod(reached)
  BY DEF Next, UpdateDeployment, DeletePod, ChangeCR, SyncCache, vars
<1>2. reached
  BY <1>1 DEF CreatePod, Call, IInv, TypeOK
<1>3. /\ p.labels = template
      /\ p.agent = IF Called(template, reached) THEN Handle(template) ELSE NoAgent
  BY <1>1 DEF CreatePod
<1>4. Handle(template) = NoAgent
  BY <1>2, <1>3 DEF Called
<1>5. CASE Accepted(template, PodChecked)
  BY <1>3, <1>4, <1>5, HandleFails
<1>6. CASE ~Accepted(template, PodChecked)
  BY <1>3, <1>6 DEF IInv, TemplateChecked, Accepted
<1> QED BY <1>5, <1>6

\* A pod that stays without an agent in a target namespace has the labels that only the
\* pods' webhook looks at to blame, whatever updates the template has gathered its labels
\* from (Default of the Deployments' and of the pods' webhook).
THEOREM PropagationIsEnough == Spec => PropagationSuffices
  BY Invariance, PropagationStep, PTL DEF Spec, PropagationSuffices
=============================================================================
