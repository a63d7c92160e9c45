------------------------ MODULE ConsolePluginProofs ------------------------
(***************************************************************************)
(* Proofs about the console plugin installer, for any plugins, versions,   *)
(* number of attempts and number of changes and failures.                  *)
(***************************************************************************)
EXTENDS ConsolePlugin, TLAPS

\* The invariant holds in a cluster where the operator has not run yet.
LEMMA InitIInv == Init => IInv
  <1> SUFFICES ASSUME Init PROVE IInv
    OBVIOUS
  <1> USE ConstantsAssumption
  <1>1. NoConsole \in Consoles /\ [NoConsole EXCEPT !.exists = TRUE] \in Consoles
    BY DEF NoConsole, Consoles
  <1>2. TypeOK
    <2>1. ClusterType
      BY DEF Init, ClusterType
    <2>2. ConsoleType
      BY <1>1 DEF Init, ConsoleType
    <2>3. FreshType
      BY DEF Init, FreshType
    <2>4. LocalType
      BY DEF Init, LocalType, Labels
    <2>5. BoundType
      BY DEF Init, BoundType
    <2> QED
      BY <2>1, <2>2, <2>3, <2>4, <2>5 DEF TypeOK
  <1>3. console.mine = 0
    BY DEF Init, NoConsole
  <1> QED
    BY <1>2, <1>3 DEF Init, IInv, NoDuplicateEntry, Coherent, Progress

\* The invariant survives every step of operator, cluster and cache.
LEMMA NextIInv == IInv /\ [Next]_vars => IInv'
  <1> SUFFICES ASSUME IInv, [Next]_vars PROVE IInv'
    OBVIOUS
  <1> USE ConstantsAssumption DEF IInv, TypeOK
  <1>0. NoConsole \in Consoles /\ NoConsole.mine = 0
    BY DEF NoConsole, Consoles
  <1>r. Read \in Consoles /\ Read.mine \in Nat /\ ReadFresh \in BOOLEAN
    BY DEF Read, ReadFresh, ConsoleType, FreshType, Consoles
  <1>n. console.mine \in Nat /\ held.mine \in Nat /\ cache.mine \in Nat
    BY DEF ConsoleType, Consoles
  <1>1. CASE Start
    <2>1. ClusterType'
      BY <1>1 DEF ClusterType, Start, Goto, clusterVars, cacheVars, bounds
    <2>2. BoundType'
      BY <1>1 DEF BoundType, Start, Goto, clusterVars, cacheVars, bounds
    <2>3. ConsoleType'
      BY <1>0, <1>1 DEF ConsoleType, Start, Goto, clusterVars, cacheVars, bounds
    <2>4. FreshType'
      BY <1>0, <1>1 DEF FreshType, Start, Goto, clusterVars, cacheVars, bounds
    <2>5. LocalType'
      BY <1>1 DEF LocalType, Labels, Start, Goto, clusterVars, cacheVars, bounds
    <2>6. NoDuplicateEntry'
      BY <1>0, <1>n, <1>1 DEF NoDuplicateEntry, Start, Goto, clusterVars, cacheVars, bounds
    <2>7. Coherent'
      BY <1>0, <1>1 DEF Coherent, FreshType, Start, Goto, clusterVars, cacheVars, bounds
    <2>8. Progress'
      BY <1>0, <1>n, <1>1 DEF Progress, Start, Goto, clusterVars, cacheVars, bounds
    <2> QED
      BY <2>1, <2>2, <2>3, <2>4, <2>5, <2>6, <2>7, <2>8
  <1>2. ASSUME NEW o \in BOOLEAN, CreateConsolePlugin(o) PROVE IInv'
    <2>1. ClusterType'
      BY <1>2 DEF ClusterType, CreateConsolePlugin, Goto, clusterVars, cacheVars, bounds
    <2>2. BoundType'
      BY <1>2 DEF BoundType, CreateConsolePlugin, Goto, clusterVars, cacheVars, bounds
    <2>3. ConsoleType'
      BY <1>0, <1>2 DEF ConsoleType, CreateConsolePlugin, Goto, clusterVars, cacheVars, bounds
    <2>4. FreshType'
      BY <1>0, <1>2 DEF FreshType, CreateConsolePlugin, Goto, clusterVars, cacheVars, bounds
    <2>5. LocalType'
      BY <1>2 DEF LocalType, Labels, CreateConsolePlugin, Goto, clusterVars, cacheVars, bounds
    <2>6. NoDuplicateEntry'
      BY <1>0, <1>n, <1>2 DEF NoDuplicateEntry, CreateConsolePlugin, Goto, clusterVars,
         cacheVars, bounds
    <2>7. Coherent'
      BY <1>0, <1>2 DEF Coherent, FreshType, CreateConsolePlugin, Goto, clusterVars, cacheVars,
         bounds
    <2>8. Progress'
      BY <1>0, <1>n, <1>2 DEF Progress, CreateConsolePlugin, Goto, clusterVars, cacheVars, bounds
    <2> QED
      BY <2>1, <2>2, <2>3, <2>4, <2>5, <2>6, <2>7, <2>8
  <1>3. CASE RegisterGet
    <2>1. ClusterType'
      BY <1>3 DEF ClusterType, RegisterGet, Exit, Get, Goto, Hold, Read, ReadFresh, clusterVars,
         bounds
    <2>2. BoundType'
      BY <1>3 DEF BoundType, RegisterGet, Exit, Get, Goto, Hold, Read, ReadFresh, clusterVars,
         bounds
    <2>3. ConsoleType'
      BY <1>0, <1>r, <1>3 DEF ConsoleType, RegisterGet, Exit, Get, Goto, Hold, Read, ReadFresh,
         clusterVars, bounds
    <2>4. FreshType'
      BY <1>0, <1>r, <1>3 DEF FreshType, RegisterGet, Exit, Get, Goto, Hold, Read, ReadFresh,
         clusterVars, bounds
    <2>5. LocalType'
      BY <1>3 DEF LocalType, Labels, RegisterGet, Exit, Get, Goto, Hold, Read, ReadFresh,
         clusterVars, bounds
    <2>6. NoDuplicateEntry'
      BY <1>0, <1>r, <1>n, <1>3 DEF NoDuplicateEntry, RegisterGet, Exit, Get, Goto, Hold, Read,
         ReadFresh, clusterVars, bounds
    <2>7. Coherent'
      BY <1>0, <1>r, <1>3 DEF Coherent, FreshType, RegisterGet, Exit, Get, Goto, Hold, Read,
         ReadFresh, clusterVars, bounds
    <2>8. Progress'
      BY <1>0, <1>r, <1>n, <1>3 DEF Progress, RegisterGet, Exit, Get, Goto, Hold, Read,
         ReadFresh, clusterVars, bounds
    <2> QED
      BY <2>1, <2>2, <2>3, <2>4, <2>5, <2>6, <2>7, <2>8
  <1>4. CASE RegisterUpdate
    <2>0. \/ /\ console' \in Consoles /\ console'.mine = 1
             /\ heldFresh' = FALSE /\ cacheFresh' = FALSE
             /\ pc' = "done" /\ held' = NoConsole /\ attempt' = 1
             /\ UNCHANGED <<informed, cache>>
          \/ UpdateRefused("registerGet")
      BY <1>4, <1>n DEF RegisterUpdate, UpdateConsole, Goto, ConsoleType, Consoles, Coherent,
         NoDuplicateEntry
    <2>1. ClusterType'
      BY <1>4 DEF ClusterType, RegisterUpdate, clusterVars
    <2>2. BoundType'
      BY <1>4 DEF BoundType, RegisterUpdate, bounds
    <2>3. ConsoleType'
      BY <1>0, <2>0 DEF ConsoleType, UpdateRefused, Exit, cacheVars
    <2>4. FreshType'
      BY <2>0 DEF FreshType, UpdateRefused, Exit, cacheVars
    <2>5. LocalType'
      BY <2>0 DEF LocalType, Labels, UpdateRefused, Exit
    <2>6. NoDuplicateEntry'
      BY <2>0 DEF NoDuplicateEntry, UpdateRefused
    <2>7. Coherent'
      BY <2>0 DEF Coherent, FreshType, UpdateRefused, Exit, cacheVars
    <2>8. Progress'
      BY <1>4, <2>0 DEF Progress, RegisterUpdate, UpdateRefused, Exit, cacheVars
    <2> QED
      BY <2>1, <2>2, <2>3, <2>4, <2>5, <2>6, <2>7, <2>8
  <1>5. CASE UnregisterGet
    <2>1. ClusterType'
      BY <1>5 DEF ClusterType, UnregisterGet, Get, Goto, Hold, Read, ReadFresh, clusterVars, bounds
    <2>2. BoundType'
      BY <1>5 DEF BoundType, UnregisterGet, Get, Goto, Hold, Read, ReadFresh, clusterVars, bounds
    <2>3. ConsoleType'
      BY <1>0, <1>r, <1>5 DEF ConsoleType, UnregisterGet, Get, Goto, Hold, Read, ReadFresh,
         clusterVars, bounds
    <2>4. FreshType'
      BY <1>0, <1>r, <1>5 DEF FreshType, UnregisterGet, Get, Goto, Hold, Read, ReadFresh,
         clusterVars, bounds
    <2>5. LocalType'
      BY <1>5 DEF LocalType, Labels, UnregisterGet, Get, Goto, Hold, Read, ReadFresh,
         clusterVars, bounds
    <2>6. NoDuplicateEntry'
      BY <1>0, <1>r, <1>n, <1>5 DEF NoDuplicateEntry, UnregisterGet, Get, Goto, Hold, Read,
         ReadFresh, clusterVars, bounds
    <2>7. Coherent'
      BY <1>0, <1>r, <1>5 DEF Coherent, FreshType, UnregisterGet, Get, Goto, Hold, Read,
         ReadFresh, clusterVars, bounds
    <2>8. Progress'
      BY <1>0, <1>r, <1>n, <1>5 DEF Progress, UnregisterGet, Get, Goto, Hold, Read, ReadFresh,
         clusterVars, bounds
    <2> QED
      BY <2>1, <2>2, <2>3, <2>4, <2>5, <2>6, <2>7, <2>8
  <1>6. CASE UnregisterUpdate
    <2>0. \/ /\ console' \in Consoles /\ console'.mine = 0
             /\ heldFresh' = FALSE /\ cacheFresh' = FALSE
             /\ pc' = "delete" /\ held' = NoConsole /\ attempt' = 1
             /\ UNCHANGED <<informed, cache>>
          \/ UpdateRefused("unregisterGet")
      BY <1>6, <1>n DEF UnregisterUpdate, UpdateConsole, Goto, ConsoleType, Consoles, Coherent,
         NoDuplicateEntry
    <2>1. ClusterType'
      BY <1>6 DEF ClusterType, UnregisterUpdate, clusterVars
    <2>2. BoundType'
      BY <1>6 DEF BoundType, UnregisterUpdate, bounds
    <2>3. ConsoleType'
      BY <1>0, <2>0 DEF ConsoleType, UpdateRefused, Exit, cacheVars
    <2>4. FreshType'
      BY <2>0 DEF FreshType, UpdateRefused, Exit, cacheVars
    <2>5. LocalType'
      BY <2>0 DEF LocalType, Labels, UpdateRefused, Exit
    <2>6. NoDuplicateEntry'
      BY <2>0 DEF NoDuplicateEntry, UpdateRefused
    <2>7. Coherent'
      BY <2>0 DEF Coherent, FreshType, UpdateRefused, Exit, cacheVars
    <2>8. Progress'
      BY <1>6, <2>0 DEF Progress, UnregisterUpdate, UpdateRefused, Exit, cacheVars
    <2> QED
      BY <2>1, <2>2, <2>3, <2>4, <2>5, <2>6, <2>7, <2>8
  <1>7. CASE DeleteConsolePlugin
    <2>1. ClusterType'
      BY <1>7 DEF ClusterType, DeleteConsolePlugin, Goto, clusterVars, cacheVars, bounds
    <2>2. BoundType'
      BY <1>7 DEF BoundType, DeleteConsolePlugin, Goto, clusterVars, cacheVars, bounds
    <2>3. ConsoleType'
      BY <1>0, <1>7 DEF ConsoleType, DeleteConsolePlugin, Goto, clusterVars, cacheVars, bounds
    <2>4. FreshType'
      BY <1>0, <1>7 DEF FreshType, DeleteConsolePlugin, Goto, clusterVars, cacheVars, bounds
    <2>5. LocalType'
      BY <1>7 DEF LocalType, Labels, DeleteConsolePlugin, Goto, clusterVars, cacheVars, bounds
    <2>6. NoDuplicateEntry'
      BY <1>0, <1>n, <1>7 DEF NoDuplicateEntry, DeleteConsolePlugin, Goto, clusterVars,
         cacheVars, bounds
    <2>7. Coherent'
      BY <1>0, <1>7 DEF Coherent, FreshType, DeleteConsolePlugin, Goto, clusterVars, cacheVars,
         bounds
    <2>8. Progress'
      BY <1>0, <1>n, <1>7 DEF Progress, DeleteConsolePlugin, Goto, clusterVars, cacheVars, bounds
    <2> QED
      BY <2>1, <2>2, <2>3, <2>4, <2>5, <2>6, <2>7, <2>8
  <1>8. CASE SyncCache
    <2>1. ClusterType'
      BY <1>8 DEF ClusterType, SyncCache, clusterVars, localVars, bounds
    <2>2. BoundType'
      BY <1>8 DEF BoundType, SyncCache, clusterVars, localVars, bounds
    <2>3. ConsoleType'
      BY <1>8 DEF ConsoleType, SyncCache, clusterVars, localVars, bounds
    <2>4. FreshType'
      BY <1>8 DEF FreshType, SyncCache, clusterVars, localVars, bounds
    <2>5. LocalType'
      BY <1>8 DEF LocalType, Labels, SyncCache, clusterVars, localVars, bounds
    <2>6. NoDuplicateEntry'
      BY <1>n, <1>8 DEF NoDuplicateEntry, SyncCache, clusterVars, localVars, bounds
    <2>7. Coherent'
      BY <1>8 DEF Coherent, FreshType, SyncCache, clusterVars, localVars, bounds
    <2>8. Progress'
      BY <1>n, <1>8 DEF Progress, SyncCache, clusterVars, localVars, bounds
    <2> QED
      BY <2>1, <2>2, <2>3, <2>4, <2>5, <2>6, <2>7, <2>8
  <1>9. ASSUME NEW c \in Consoles, c.mine <= console.mine, c.mine \in Nat, ChangeConsole(c) PROVE IInv'
    <2>1. ClusterType'
      BY <1>9 DEF ClusterType, ChangeConsole, Edit, clusterVars
    <2>2. BoundType'
      BY <1>9 DEF BoundType, ChangeConsole, Edit, clusterVars
    <2>3. ConsoleType'
      BY <1>9 DEF ConsoleType, ChangeConsole, Edit, clusterVars
    <2>4. FreshType'
      BY <1>9 DEF FreshType, ChangeConsole, Edit, clusterVars
    <2>5. LocalType'
      BY <1>9 DEF LocalType, Labels, ChangeConsole, Edit, clusterVars
    <2>6. NoDuplicateEntry'
      BY <1>n, <1>9 DEF NoDuplicateEntry, ChangeConsole, Edit, clusterVars
    <2>7. Coherent'
      BY <1>9 DEF Coherent, FreshType, ChangeConsole, Edit, clusterVars
    <2>8. Progress'
      BY <1>n, <1>9 DEF Progress, ChangeConsole, Edit, clusterVars
    <2> QED
      BY <2>1, <2>2, <2>3, <2>4, <2>5, <2>6, <2>7, <2>8
  <1>10. ASSUME NEW others \in SUBSET OtherPlugins, ChangeOthers(others) PROVE IInv'
    <2> DEFINE c == [console EXCEPT !.others = others]
    <2>1. c \in Consoles /\ c.mine = console.mine
      BY DEF ConsoleType, Consoles
    <2>2. ChangeConsole(c)
      BY <1>10 DEF ChangeOthers
    <2> HIDE DEF c
    <2>3. c.mine <= console.mine /\ c.mine \in Nat
      BY <1>n, <2>1
    <2> QED
      BY <1>9, <2>1, <2>2, <2>3
  <1>11. CASE RemoveConsole
    BY <1>0, <1>9, <1>11, <1>n DEF RemoveConsole
  <1>12. CASE CreateConsole
    <2> DEFINE c == [NoConsole EXCEPT !.exists = TRUE]
    <2>1. c \in Consoles /\ c.mine = 0
      BY DEF NoConsole, Consoles
    <2>2. ChangeConsole(c)
      BY <1>12 DEF CreateConsole
    <2> HIDE DEF c
    <2>3. c.mine <= console.mine /\ c.mine \in Nat
      BY <1>n, <2>1
    <2> QED
      BY <1>9, <2>1, <2>2, <2>3
  <1>13. ASSUME NEW v \in Versions, UpgradeCluster(v) PROVE IInv'
    <2>1. ClusterType'
      BY <1>13 DEF ClusterType, UpgradeCluster, Edit, cacheVars, localVars
    <2>2. BoundType'
      BY <1>13 DEF BoundType, UpgradeCluster, Edit, cacheVars, localVars
    <2>3. ConsoleType'
      BY <1>13 DEF ConsoleType, UpgradeCluster, Edit, cacheVars, localVars
    <2>4. FreshType'
      BY <1>13 DEF FreshType, UpgradeCluster, Edit, cacheVars, localVars
    <2>5. LocalType'
      BY <1>13 DEF LocalType, Labels, UpgradeCluster, Edit, cacheVars, localVars
    <2>6. NoDuplicateEntry'
      BY <1>n, <1>13 DEF NoDuplicateEntry, UpgradeCluster, Edit, cacheVars, localVars
    <2>7. Coherent'
      BY <1>13 DEF Coherent, FreshType, UpgradeCluster, Edit, cacheVars, localVars
    <2>8. Progress'
      BY <1>n, <1>13 DEF Progress, UpgradeCluster, Edit, cacheVars, localVars
    <2> QED
      BY <2>1, <2>2, <2>3, <2>4, <2>5, <2>6, <2>7, <2>8
  <1>14. CASE DrainNode
    <2>1. ClusterType'
      BY <1>14 DEF ClusterType, DrainNode, Exit, bounds
    <2>2. BoundType'
      BY <1>14 DEF BoundType, DrainNode, Exit, bounds
    <2>3. ConsoleType'
      BY <1>0, <1>14 DEF ConsoleType, DrainNode, Exit, bounds
    <2>4. FreshType'
      BY <1>0, <1>14 DEF FreshType, DrainNode, Exit, bounds
    <2>5. LocalType'
      BY <1>14 DEF LocalType, Labels, DrainNode, Exit, bounds
    <2>6. NoDuplicateEntry'
      BY <1>0, <1>n, <1>14 DEF NoDuplicateEntry, DrainNode, Exit, bounds
    <2>7. Coherent'
      BY <1>0, <1>14 DEF Coherent, FreshType, DrainNode, Exit, bounds
    <2>8. Progress'
      BY <1>0, <1>n, <1>14 DEF Progress, DrainNode, Exit, bounds
    <2> QED
      BY <2>1, <2>2, <2>3, <2>4, <2>5, <2>6, <2>7, <2>8
  <1>15. CASE UninstallOperator
    <2>1. ClusterType'
      BY <1>15 DEF ClusterType, UninstallOperator, Edit, cacheVars, localVars
    <2>2. BoundType'
      BY <1>15 DEF BoundType, UninstallOperator, Edit, cacheVars, localVars
    <2>3. ConsoleType'
      BY <1>15 DEF ConsoleType, UninstallOperator, Edit, cacheVars, localVars
    <2>4. FreshType'
      BY <1>15 DEF FreshType, UninstallOperator, Edit, cacheVars, localVars
    <2>5. LocalType'
      BY <1>15 DEF LocalType, Labels, UninstallOperator, Edit, cacheVars, localVars
    <2>6. NoDuplicateEntry'
      BY <1>n, <1>15 DEF NoDuplicateEntry, UninstallOperator, Edit, cacheVars, localVars
    <2>7. Coherent'
      BY <1>15 DEF Coherent, FreshType, UninstallOperator, Edit, cacheVars, localVars
    <2>8. Progress'
      BY <1>n, <1>15 DEF Progress, UninstallOperator, Edit, cacheVars, localVars
    <2> QED
      BY <2>1, <2>2, <2>3, <2>4, <2>5, <2>6, <2>7, <2>8
  <1>16. CASE InstallOperator
    <2>1. ClusterType'
      BY <1>16 DEF ClusterType, InstallOperator, Edit, cacheVars, localVars
    <2>2. BoundType'
      BY <1>16 DEF BoundType, InstallOperator, Edit, cacheVars, localVars
    <2>3. ConsoleType'
      BY <1>16 DEF ConsoleType, InstallOperator, Edit, cacheVars, localVars
    <2>4. FreshType'
      BY <1>16 DEF FreshType, InstallOperator, Edit, cacheVars, localVars
    <2>5. LocalType'
      BY <1>16 DEF LocalType, Labels, InstallOperator, Edit, cacheVars, localVars
    <2>6. NoDuplicateEntry'
      BY <1>n, <1>16 DEF NoDuplicateEntry, InstallOperator, Edit, cacheVars, localVars
    <2>7. Coherent'
      BY <1>16 DEF Coherent, FreshType, InstallOperator, Edit, cacheVars, localVars
    <2>8. Progress'
      BY <1>n, <1>16 DEF Progress, InstallOperator, Edit, cacheVars, localVars
    <2> QED
      BY <2>1, <2>2, <2>3, <2>4, <2>5, <2>6, <2>7, <2>8
  <1>17. CASE Fail
    <2>1. ClusterType'
      BY <1>17 DEF ClusterType, Fail, Exit, clusterVars
    <2>2. BoundType'
      BY <1>17 DEF BoundType, Fail, Exit, clusterVars
    <2>3. ConsoleType'
      BY <1>0, <1>17 DEF ConsoleType, Fail, Exit, clusterVars
    <2>4. FreshType'
      BY <1>0, <1>17 DEF FreshType, Fail, Exit, clusterVars
    <2>5. LocalType'
      BY <1>17 DEF LocalType, Labels, Fail, Exit, clusterVars
    <2>6. NoDuplicateEntry'
      BY <1>0, <1>n, <1>17 DEF NoDuplicateEntry, Fail, Exit, clusterVars
    <2>7. Coherent'
      BY <1>0, <1>17 DEF Coherent, FreshType, Fail, Exit, clusterVars
    <2>8. Progress'
      BY <1>0, <1>n, <1>17 DEF Progress, Fail, Exit, clusterVars
    <2> QED
      BY <2>1, <2>2, <2>3, <2>4, <2>5, <2>6, <2>7, <2>8
  <1>18. CASE UNCHANGED vars
    <2>1. ClusterType'
      BY <1>18 DEF ClusterType, vars, clusterVars, cacheVars, localVars, bounds
    <2>2. BoundType'
      BY <1>18 DEF BoundType, vars, clusterVars, cacheVars, localVars, bounds
    <2>3. ConsoleType'
      BY <1>18 DEF ConsoleType, vars, clusterVars, cacheVars, localVars, bounds
    <2>4. FreshType'
      BY <1>18 DEF FreshType, vars, clusterVars, cacheVars, localVars, bounds
    <2>5. LocalType'
      BY <1>18 DEF LocalType, Labels, vars, clusterVars, cacheVars, localVars, bounds
    <2>6. NoDuplicateEntry'
      BY <1>n, <1>18 DEF NoDuplicateEntry, vars, clusterVars, cacheVars, localVars, bounds
    <2>7. Coherent'
      BY <1>18 DEF Coherent, FreshType, vars, clusterVars, cacheVars, localVars, bounds
    <2>8. Progress'
      BY <1>n, <1>18 DEF Progress, vars, clusterVars, cacheVars, localVars, bounds
    <2> QED
      BY <2>1, <2>2, <2>3, <2>4, <2>5, <2>6, <2>7, <2>8
  <1> QED
    BY <1>1, <1>2, <1>3, <1>4, <1>5, <1>6, <1>7, <1>8, <1>10, <1>11, <1>12, <1>13,
       <1>14, <1>15, <1>16, <1>17, <1>18 DEF Next, Installer, Environment

\* The inductive invariant holds throughout.
THEOREM Invariance == Spec => []IInv
  BY InitIInv, NextIInv, PTL DEF Spec

\* The Console never lists Cryostat's plugin twice.
THEOREM EntryIsUnique == Spec => []NoDuplicateEntry
  <1>1. IInv => NoDuplicateEntry
    BY DEF IInv
  <1> QED
    BY <1>1, Invariance, PTL

\* Types of the installer's state and of the Console, the ConsolePlugin and their
\* caches, in every behaviour.
THEOREM TypeCorrect == Spec => []TypeOK
  BY Invariance, PTL DEF IInv

-----------------------------------------------------------------------------
(* What a step may do to the Console.                                      *)

\* The steps that write the Console without being somebody else's edit are the
\* two updates, and both write back the current list with one entry changed.
LEMMA OwnWrites ==
  ASSUME IInv, [Next]_vars, edits' = edits, console' # console
  PROVE  /\ held = console
         /\ \/ RegisterUpdate /\ console' = [held EXCEPT !.mine = @ + 1]
            \/ UnregisterUpdate /\ console' = [held EXCEPT !.mine = @ - 1]
  <1> USE DEF IInv, TypeOK
  <1>1. ~Edit
    BY DEF Edit, BoundType
  <1>2. RegisterUpdate \/ UnregisterUpdate
    BY <1>1 DEF Next, Installer, Environment, Start, CreateConsolePlugin, RegisterGet,
       UnregisterGet,
       DeleteConsolePlugin, SyncCache, ChangeOthers, RemoveConsole, CreateConsole, ChangeConsole,
       UpgradeCluster, DrainNode, UninstallOperator, InstallOperator, Fail, vars, clusterVars,
       cacheVars, localVars, bounds
  <1> QED
    BY <1>2 DEF RegisterUpdate, UnregisterUpdate, UpdateConsole, UpdateRefused, Coherent

\* Other operators' entries survive whatever the installer read and wrote.
THEOREM OthersAreKept == Spec => OthersKept
  <1>1. IInv /\ [Next]_vars => [OthersUntouched]_vars
    <2> SUFFICES ASSUME IInv, [Next]_vars, edits' = edits, console' # console
                 PROVE  console'.others = console.others /\ console'.exists = console.exists
      BY DEF OthersUntouched
    <2>1. console \in Consoles
      BY DEF IInv, TypeOK, ConsoleType
    <2> QED
      BY <2>1, OwnWrites DEF Consoles
  <1> QED
    BY <1>1, Invariance, PTL DEF Spec, OthersKept

\* The installer never leaves an entry without a plugin.
THEOREM EntriesDoNotDangle == Spec => NoDanglingEntry
  <1>1. IInv /\ [Next]_vars => [NotLeftDangling]_vars
    <2> SUFFICES ASSUME IInv, [Next]_vars, edits' = edits, Dangling' PROVE Dangling
      BY DEF NotLeftDangling
    <2> USE DEF IInv, TypeOK, ConsoleType, Dangling
    <2>1. CASE console' # console
      <3>1. plugin' = plugin
        BY <2>1, OwnWrites DEF RegisterUpdate, UnregisterUpdate
      <3>2. ~RegisterUpdate
        BY <3>1 DEF RegisterUpdate, Progress
      <3> QED
        BY <2>1, <3>1, <3>2, OwnWrites DEF Consoles
    <2>2. CASE console' = console
      <3>1. ~Edit /\ ~DeleteConsolePlugin
        BY <2>2 DEF Edit, BoundType, DeleteConsolePlugin, Progress, Consoles
      <3>2. plugin' = plugin \/ \E o \in BOOLEAN : CreateConsolePlugin(o)
        BY <3>1 DEF Next, Installer, Environment, Start, RegisterGet, RegisterUpdate, UnregisterGet,
           UnregisterUpdate, SyncCache, ChangeOthers, RemoveConsole, CreateConsole, ChangeConsole,
           UpgradeCluster, DrainNode, UninstallOperator, InstallOperator, Fail, vars, clusterVars,
           cacheVars, localVars, bounds
      <3>3. plugin' = "absent" => plugin = "absent"
        BY <3>2 DEF CreateConsolePlugin
      <3> QED
        BY <2>2, <3>3
    <2> QED
      BY <2>1, <2>2
  <1> QED
    BY <1>1, Invariance, PTL DEF Spec, NoDanglingEntry
=============================================================================
