-------------------------- MODULE NamespaceAccess --------------------------
(***************************************************************************)
(* What the reconciler promises about access to target namespaces.         *)
(*                                                                         *)
(* A Cryostat CR asks for access to a set of namespaces.  The operator     *)
(* works in tasks.  A setup starts from a snapshot of a CR it guards with  *)
(* its finalizer: it grants access to every namespace of the snapshot,     *)
(* then revokes what was recorded and is no longer asked for, and then     *)
(* records the snapshot, if the CR has not changed meanwhile.  A cleanup   *)
(* revokes access to every namespace of a snapshot of a deleted CR, and    *)
(* lets the CR go if that is still what it asks for.  A task may end       *)
(* anywhere.  Lost access may go unnoticed for a while: a grant is skipped *)
(* only if the access is there or a change of it is still to be noticed.   *)
(*                                                                         *)
(* TargetNamespaces implements this specification call by call; Admission  *)
(* puts the webhooks of the CR in front of it.                             *)
(***************************************************************************)
EXTENDS Naturals

CONSTANTS Namespaces,  \* namespaces of the cluster
          Specs        \* sets of namespaces users ask for

VARIABLES
  phase,     \* of the CR: not there, not guarded yet, guarded, being deleted
  wanted,    \* spec.targetNamespaces
  recorded,  \* status.targetNamespaces
  access,    \* the namespaces Cryostat has access to
  unnoticed, \* access has changed and the operator has not been told
  task,      \* what the operator is doing
  view,      \* the snapshot it works for
  left,      \* the namespaces of the snapshot it has still to visit
  drop       \* the namespaces it has still to take access from

claimVars  == <<phase, wanted, recorded>>
accessVars == <<access, unnoticed>>
taskVars   == <<task, view, left, drop>>
accessSpecVars == <<claimVars, accessVars, taskVars>>

AccessInit ==
  /\ phase = "absent" /\ wanted = {} /\ recorded = {}
  /\ access = {} /\ unnoticed = FALSE
  /\ task = "none" /\ view = {} /\ left = {} /\ drop = {}

-----------------------------------------------------------------------------
(* Users.                                                                  *)

Ask(S) ==
  /\ wanted' = S
  /\ IF phase = "absent" THEN phase' = "new" ELSE UNCHANGED phase
  /\ UNCHANGED <<recorded, accessVars, taskVars>>

Withdraw ==
  /\ \/ phase = "new" /\ phase' = "absent" /\ wanted' = {} /\ recorded' = {}
     \/ phase = "live" /\ phase' = "deleting" /\ UNCHANGED <<wanted, recorded>>
  /\ UNCHANGED <<accessVars, taskVars>>

\* Somebody removes access behind the operator's back.
Lose(n) ==
  /\ n \in access
  /\ access' = access \ {n} /\ unnoticed' = TRUE
  /\ UNCHANGED <<claimVars, taskVars>>

-----------------------------------------------------------------------------
(* The operator.                                                           *)

NoTask == task' = "none" /\ view' = {} /\ left' = {} /\ drop' = {}

Guard ==
  /\ phase = "new" /\ phase' = "live" /\ task = "none"
  /\ UNCHANGED <<wanted, recorded, accessVars, taskVars>>

StartSetup ==
  /\ task = "none" /\ phase = "live"
  /\ task' = "setup" /\ view' = wanted /\ left' = wanted
  /\ drop' = recorded \ wanted
  /\ UNCHANGED <<claimVars, accessVars>>

Grant(n) ==
  /\ task = "setup" /\ n \in left
  /\ left' = left \ {n}
  /\ \/ access' = access \union {n} /\ unnoticed' = TRUE
     \/ (n \in access \/ unnoticed) /\ UNCHANGED accessVars
  /\ UNCHANGED <<claimVars, task, view, drop>>

Revoke(n) ==
  /\ task = "setup" /\ left = {} /\ n \in drop
  /\ drop' = drop \ {n}
  /\ access' = access \ {n} /\ unnoticed' = (unnoticed \/ n \in access)
  /\ UNCHANGED <<claimVars, task, view, left>>

Record ==
  /\ task = "setup" /\ left = {} /\ drop = {}
  /\ phase = "live" /\ wanted = view
  /\ recorded' = view
  /\ UNCHANGED <<phase, wanted, accessVars, taskVars>>

\* A cleanup may start from an old snapshot of a CR that asked for other
\* namespaces since, or is gone, but never while a guarded CR is live.
StartCleanup(V) ==
  /\ task = "none" /\ phase # "live"
  /\ task' = "cleanup" /\ view' = V /\ left' = V /\ drop' = {}
  /\ UNCHANGED <<claimVars, accessVars>>

CleanUp(n) ==
  /\ task = "cleanup" /\ n \in left /\ phase # "live"
  /\ left' = left \ {n}
  /\ access' = access \ {n} /\ unnoticed' = (unnoticed \/ n \in access)
  /\ UNCHANGED <<claimVars, task, view, drop>>

Release ==
  /\ task = "cleanup" /\ left = {}
  /\ phase = "deleting" /\ wanted = view
  /\ phase' = "absent" /\ wanted' = {} /\ recorded' = {}
  /\ NoTask /\ UNCHANGED accessVars

\* The end of a task: done, failed, or the operator restarted.
Stop == task # "none" /\ NoTask /\ UNCHANGED <<claimVars, accessVars>>

\* A restarted operator has seen everything; it has no task.
Notice ==
  /\ unnoticed /\ unnoticed' = FALSE
  /\ (NoTask \/ UNCHANGED taskVars)
  /\ UNCHANGED <<claimVars, access>>

Operator ==
  \/ Guard \/ StartSetup \/ Record \/ Release \/ Stop \/ Notice
  \/ \E V \in SUBSET Namespaces : StartCleanup(V)
  \/ \E n \in Namespaces : Grant(n) \/ Revoke(n) \/ CleanUp(n)

Claims == Withdraw \/ (\E S \in Specs : Ask(S)) \/ (\E n \in Namespaces : Lose(n))

AccessNext == Claims \/ Operator

AccessSpec == AccessInit /\ [][AccessNext]_accessSpecVars
=============================================================================
