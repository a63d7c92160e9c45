--------------------------- MODULE ConsolePlugin ---------------------------
(***************************************************************************)
(* The installer of the OpenShift console plugin.  It runs once per start  *)
(* of the operator: on a compatible cluster it creates the ConsolePlugin   *)
(* object and adds an entry to the plugin list of the cluster's Console    *)
(* object, otherwise it removes both.  The Console is shared with every    *)
(* other plugin, is read through an informer cache, and is updated under   *)
(* optimistic concurrency.  An error ends the operator, which is then      *)
(* started again.                                                          *)
(***************************************************************************)
EXTENDS Naturals

CONSTANTS OtherPlugins,   \* plugins of other operators
          Versions,       \* OpenShift versions the cluster goes through
          Malformed,      \* a version that does not parse, or one not given
          MinOpenShiftVersion, MaxOpenShiftVersion,
          DefaultMaxOpenShiftVersion,
          OLMManaged,     \* findOwner finds the ClusterRoleBinding
          MaxAttempts,    \* retry.DefaultBackoff.Steps
          MaxEdits,       \* bound: changes by others
          MaxFaults       \* bound: failed calls and kills of the operator

ASSUME ConstantsAssumption ==
  /\ Malformed \notin Nat
  /\ Versions \subseteq Nat \union {Malformed}
  /\ MinOpenShiftVersion \in Nat \union {Malformed}
  /\ MaxOpenShiftVersion \in Nat \union {Malformed}
  /\ DefaultMaxOpenShiftVersion \in Nat
  /\ OLMManaged \in BOOLEAN
  /\ MaxAttempts \in Nat \ {0}
  /\ MaxEdits \in Nat /\ MaxFaults \in Nat

VARIABLES
  version,    \* ClusterVersion.Status.Desired
  drain,      \* an upgrade has still to restart the operator's node
  deployed,   \* the operator is deployed by OLM
  plugin,     \* the ConsolePlugin: absent, unowned or owned
  console,    \* the Console object on the server
  informed,   \* the operator has an informer for Console
  cache,      \* the Console in its cache
  cacheFresh, \* the cached resourceVersion is the server's
  pc,         \* the next call of installConsolePlugin; "down", "done"
  held,       \* the Console that Get returned
  heldFresh,  \* its resourceVersion is the server's
  attempt,    \* number of this attempt of RetryOnConflict
  edits, faults

clusterVars == <<version, drain, deployed>>
cacheVars   == <<informed, cache, cacheFresh>>
localVars   == <<pc, held, heldFresh, attempt>>
bounds      == <<edits, faults>>
vars        == <<clusterVars, plugin, console, cacheVars, localVars, bounds>>

\* The plugin list of the Console: how often it names Cryostat's plugin, and
\* which other plugins it names.  The order never matters.
Consoles  == [exists : BOOLEAN, mine : Nat, others : SUBSET OtherPlugins]
NoConsole == [exists |-> FALSE, mine |-> 0, others |-> {}]

Init ==
  /\ version \in Versions /\ drain = FALSE /\ deployed = TRUE
  /\ plugin = "absent"
  /\ console \in {NoConsole, [NoConsole EXCEPT !.exists = TRUE]}
  /\ informed = FALSE /\ cache = NoConsole /\ cacheFresh = FALSE
  /\ pc = "down" /\ held = NoConsole /\ heldFresh = FALSE /\ attempt = 1
  /\ edits = 0 /\ faults = 0

-----------------------------------------------------------------------------
(* isOpenShiftCompatible.  A bound that does not parse gets its default.   *)

MinVersion == IF MinOpenShiftVersion = Malformed THEN 0 ELSE MinOpenShiftVersion
MaxVersion == IF MaxOpenShiftVersion = Malformed THEN DefaultMaxOpenShiftVersion
                                                 ELSE MaxOpenShiftVersion
Compatible(v) == v \in Nat /\ MinVersion <= v /\ v <= MaxVersion

\* The process ends; with it go the caches.
Exit ==
  /\ pc' = "down" /\ held' = NoConsole /\ heldFresh' = FALSE /\ attempt' = 1
  /\ informed' = FALSE /\ cache' = NoConsole /\ cacheFresh' = FALSE

Goto(l) == pc' = l /\ held' = NoConsole /\ heldFresh' = FALSE /\ attempt' = 1

\* The operator starts, or becomes leader.  A cluster version that does not
\* parse is an error: the operator ends and is started again.
Start ==
  /\ pc = "down" /\ deployed
  /\ version # Malformed
  /\ Goto(IF Compatible(version) THEN "create" ELSE "unregisterGet")
  /\ UNCHANGED <<clusterVars, plugin, console, cacheVars, bounds>>

\* Mutant: the plugin is registered first and created afterwards.
CreateUnregistered(ownerFound) ==
  /\ pc = "create"
  /\ ownerFound => OLMManaged
  /\ Goto("registerGet")
  /\ UNCHANGED <<clusterVars, plugin, console, cacheVars, bounds>>

\* createConsolePlugin: without an owner the plugin is created all the same,
\* and an existing owner reference stays.
CreateConsolePlugin(ownerFound) ==
  /\ pc = "create"
  /\ ownerFound => OLMManaged
  /\ plugin' = IF ownerFound THEN "owned"
               ELSE IF plugin = "absent" THEN "unowned" ELSE plugin
  /\ Goto("registerGet")
  /\ UNCHANGED <<clusterVars, console, cacheVars, bounds>>

\* Get reads the cache.  The first Get starts the informer and waits for its
\* list, later ones take what the cache holds.
Read      == IF informed THEN cache ELSE console
ReadFresh == informed => cacheFresh
Get       == informed' = TRUE /\ cache' = Read /\ cacheFresh' = ReadFresh

\* The Console found by Get is to be updated.
Hold(l) == pc' = l /\ held' = Read /\ heldFresh' = ReadFresh /\ UNCHANGED attempt

\* Mutant: the entry is appended without looking for it.
RegisterGetBlindly ==
  /\ pc = "registerGet"
  /\ IF Read.exists THEN Get /\ Hold("registerUpdate") ELSE Exit
  /\ UNCHANGED <<clusterVars, plugin, console, bounds>>

\* registerConsolePlugin, up to its Update.  A missing Console is an error.
RegisterGet ==
  /\ pc = "registerGet"
  /\ \/ ~Read.exists /\ Exit
     \/ Read.exists /\ Read.mine > 0 /\ Get /\ Goto("done")
     \/ Read.exists /\ Read.mine = 0 /\ Get /\ Hold("registerUpdate")
  /\ UNCHANGED <<clusterVars, plugin, console, bounds>>

\* unregisterConsolePlugin, up to its Update.  Without a Console, or without
\* an entry in it, there is nothing to do.
UnregisterGet ==
  /\ pc = "unregisterGet"
  /\ Get
  /\ IF Read.mine > 0 THEN Hold("unregisterUpdate") ELSE Goto("delete")
  /\ UNCHANGED <<clusterVars, plugin, console, bounds>>

\* Mutant: the Update does not depend on the resourceVersion.
OverwriteConsole(c) == console.exists /\ console' = c /\ cacheFresh' = FALSE

\* An Update the server accepts.
UpdateConsole(c) == heldFresh /\ console' = c /\ cacheFresh' = FALSE

\* Mutant: one attempt too many.
UpdateRefusedOnceMore(retry) ==
  /\ ~heldFresh
  /\ IF console.exists /\ attempt <= MaxAttempts
     THEN /\ pc' = retry /\ attempt' = attempt + 1
          /\ held' = NoConsole /\ UNCHANGED <<heldFresh, cacheVars>>
     ELSE Exit
  /\ UNCHANGED console

\* Mutant: an Update that keeps conflicting is given up without an error.
UpdateGivenUp(retry) ==
  /\ ~heldFresh
  /\ IF console.exists /\ attempt < MaxAttempts
     THEN /\ pc' = retry /\ attempt' = attempt + 1
          /\ held' = NoConsole /\ UNCHANGED <<heldFresh, cacheVars>>
     ELSE Goto("done") /\ UNCHANGED cacheVars
  /\ UNCHANGED console

\* An Update the server refuses.  RetryOnConflict gets the Console again until
\* its attempts are used up; any other error ends the operator at once.
UpdateRefused(retry) ==
  /\ ~heldFresh
  /\ IF console.exists /\ attempt < MaxAttempts
     THEN /\ pc' = retry /\ attempt' = attempt + 1
          /\ held' = NoConsole /\ UNCHANGED <<heldFresh, cacheVars>>
     ELSE Exit
  /\ UNCHANGED console

RegisterUpdate ==
  /\ pc = "registerUpdate"
  /\ \/ /\ UpdateConsole([held EXCEPT !.mine = @ + 1])
        /\ Goto("done") /\ UNCHANGED <<informed, cache>>
     \/ UpdateRefused("registerGet")
  /\ UNCHANGED <<clusterVars, plugin, bounds>>

UnregisterUpdate ==
  /\ pc = "unregisterUpdate"
  /\ \/ /\ UpdateConsole([held EXCEPT !.mine = @ - 1])
        /\ Goto("delete") /\ UNCHANGED <<informed, cache>>
     \/ UpdateRefused("unregisterGet")
  /\ UNCHANGED <<clusterVars, plugin, bounds>>

DeleteConsolePlugin ==
  /\ pc = "delete"
  /\ plugin' = "absent"
  /\ Goto("done")
  /\ UNCHANGED <<clusterVars, console, cacheVars, bounds>>

Installer ==
  \/ Start
  \/ \E ownerFound \in BOOLEAN : CreateConsolePlugin(ownerFound)
  \/ RegisterGet \/ RegisterUpdate
  \/ UnregisterGet \/ UnregisterUpdate \/ DeleteConsolePlugin

-----------------------------------------------------------------------------
(* The rest of the cluster.                                                *)

SyncCache ==
  /\ informed /\ ~cacheFresh
  /\ cache' = console /\ cacheFresh' = TRUE
  /\ UNCHANGED <<clusterVars, plugin, console, informed, localVars, bounds>>

Edit == edits < MaxEdits /\ edits' = edits + 1 /\ UNCHANGED faults

\* Somebody else changes the Console under the feet of cache and installer.
ChangeConsole(c) ==
  /\ Edit
  /\ c # console /\ console' = c
  /\ cacheFresh' = FALSE /\ heldFresh' = FALSE
  /\ UNCHANGED <<clusterVars, plugin, informed, cache, pc, held, attempt>>

ChangeOthers(others) == console.exists /\ ChangeConsole([console EXCEPT !.others = others])
RemoveConsole        == ChangeConsole(NoConsole)
CreateConsole        == ~console.exists /\ ChangeConsole([NoConsole EXCEPT !.exists = TRUE])

\* The cluster is upgraded, or rolled back: the desired version changes, and
\* the nodes, the operator's among them, are restarted one after the other.
UpgradeCluster(v) ==
  /\ Edit
  /\ v # version /\ version' = v /\ drain' = TRUE
  /\ UNCHANGED <<deployed, plugin, console, cacheVars, localVars>>

DrainNode ==
  /\ drain /\ drain' = FALSE
  /\ Exit
  /\ UNCHANGED <<version, deployed, plugin, console, bounds>>

\* OLM removes the operator, which has ended, and the objects it manages; a
\* ConsolePlugin with an owner is garbage collected, the entry is not.
UninstallOperator ==
  /\ Edit
  /\ deployed /\ pc = "down" /\ deployed' = FALSE
  /\ plugin' = IF plugin = "owned" THEN "absent" ELSE plugin
  /\ UNCHANGED <<version, drain, console, cacheVars, localVars>>

InstallOperator ==
  /\ Edit
  /\ ~deployed /\ deployed' = TRUE
  /\ UNCHANGED <<version, drain, plugin, console, cacheVars, localVars>>

\* A call fails, or the operator is killed.
Fail ==
  /\ faults < MaxFaults /\ faults' = faults + 1
  /\ pc # "down" /\ Exit
  /\ UNCHANGED <<clusterVars, plugin, console, edits>>

Environment ==
  \/ SyncCache
  \/ \E others \in SUBSET OtherPlugins : ChangeOthers(others)
  \/ RemoveConsole \/ CreateConsole
  \/ \E v \in Versions : UpgradeCluster(v)
  \/ DrainNode \/ UninstallOperator \/ InstallOperator \/ Fail

Next == Installer \/ Environment

Spec == Init /\ [][Next]_vars

\* The kubelet starts the operator again and its calls return, watches
\* deliver, upgrades reach every node.
FairSpec == Spec /\ WF_vars(Installer) /\ WF_vars(SyncCache) /\ WF_vars(DrainNode)

-----------------------------------------------------------------------------
(* Properties.                                                             *)

Labels == {"down", "create", "registerGet", "registerUpdate", "unregisterGet",
           "unregisterUpdate", "delete", "done"}

ClusterType == /\ version \in Versions /\ drain \in BOOLEAN /\ deployed \in BOOLEAN
               /\ plugin \in {"absent", "unowned", "owned"}
ConsoleType == console \in Consoles /\ cache \in Consoles /\ held \in Consoles
FreshType   == informed \in BOOLEAN /\ cacheFresh \in BOOLEAN /\ heldFresh \in BOOLEAN
LocalType   == pc \in Labels /\ attempt \in 1..MaxAttempts
BoundType   == edits \in 0..MaxEdits /\ faults \in 0..MaxFaults

\* Types; besides, RetryOnConflict never makes more than its attempts.
TypeOK == ClusterType /\ ConsoleType /\ FreshType /\ LocalType /\ BoundType

\* However often the operator restarts, retries or is installed again, the
\* Console lists its plugin at most once (Unregister removes one entry only).
NoDuplicateEntry == console.mine <= 1

\* No step of the operator adds or removes another operator's plugin, although
\* it writes back a whole list that it may have read long ago.
OthersUntouched ==
  edits' = edits => console'.others = console.others /\ console'.exists = console.exists
OthersKept == [][OthersUntouched]_vars

\* The Console names a plugin that does not exist only after OLM removed the
\* operator's objects: no step of the operator itself, and no crash between
\* two of its steps, leaves such an entry.
Dangling == console.mine > 0 /\ plugin = "absent"
NotLeftDangling  == edits' = edits /\ Dangling' => Dangling
NoDanglingEntry  == [][NotLeftDangling]_vars

\* The plugin is installed on a compatible cluster and uninstalled on another.
Settled ==
  IF Compatible(version)
  THEN console.exists => plugin # "absent" /\ console.mine = 1
  ELSE plugin = "absent" /\ console.mine = 0

\* An installer that has not finished brings this about, in spite of conflicts,
\* failures and restarts, unless somebody changes the cluster first.  (One that
\* has finished does not look again before the next start.)
Settles ==
  \A n \in 0..MaxEdits :
    edits = n /\ deployed /\ pc # "done" /\ version # Malformed ~> edits # n \/ Settled

-----------------------------------------------------------------------------
(* The inductive invariant behind the safety properties.                   *)

\* Fresh copies are equal to the Console; a Console held for an update
\* was found without, or with, the entry.
Coherent ==
  /\ informed /\ cacheFresh => cache = console
  /\ heldFresh => held = console
  /\ pc = "registerUpdate" => held.mine = 0
  /\ pc = "unregisterUpdate" => held.mine > 0

\* What has been done when a label is reached.  Only the operator adds the
\* entry, so a cache that an unregistering operator reads cannot miss it.
Progress ==
  /\ pc = "down" => ~informed
  /\ pc \in {"registerGet", "registerUpdate"} => plugin # "absent"
  /\ pc \in {"unregisterGet", "unregisterUpdate"} /\ informed => console.mine <= cache.mine
  /\ pc = "delete" => console.mine = 0

IInv == TypeOK /\ NoDuplicateEntry /\ Coherent /\ Progress
=============================================================================
