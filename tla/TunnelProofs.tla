---------------------------- MODULE TunnelProofs ----------------------------
(***************************************************************************)
(* What holds of Tunnel for any entries, clients, processes and faults:    *)
(* types, one active node, the lock's discipline, the count of the list.   *)
(***************************************************************************)
EXTENDS Tunnel, TLAPS, FiniteSetTheorems

(* A connect or a test works on a listed id from its first step to its last. *)
Aimed == {"announce", "lookup", "writeConfig", "spawn", "wait", "kill",
          "failNodes", "failRuntime", "setRule", "setRoute", "addRoute",
          "addRule", "store", "markNodes", "markRuntime", "probe"}

AimOK == \A r \in Reqs : pc[r] \in Aimed => target[r] \in Ids

TypeInv == TypeOK /\ AimOK

-----------------------------------------------------------------------------
(* The operators on catalogs keep the type of a catalog. *)

(* The teardown's rewrite of statuses yields statuses. *)
LEMMA DeactivateType ==
  ASSUME NEW ns \in [Entries -> Status]
  PROVE  Deactivate(ns) \in [Entries -> Status]
BY DEF Deactivate, Status

(* So does marking a node after a connect. *)
LEMMA ActivateType ==
  ASSUME NEW ns \in [Entries -> Status], NEW id \in Ids
  PROVE  Activate(ns, id) \in [Entries -> Status]
BY DEF Activate, Marked, Deactivate, Status

(* So does marking a node after a failure or a test. *)
LEMMA SetStatusType ==
  ASSUME NEW ns \in [Entries -> Status], NEW id \in Ids, NEW s \in Status,
         NEW ms \in SetStatus(ns, id, s)
  PROVE  ms \in [Entries -> Status]
BY DEF SetStatus, Status

(* So does a fetched catalog. *)
LEMMA FreshType ==
  ASSUME NEW S \in SUBSET Entries
  PROVE  FreshNodes(S) \in [Entries -> Status]
BY DEF FreshNodes, Status

(* A set of entries has a size. *)
LEMMA CountType ==
  ASSUME NEW S \in SUBSET Entries
  PROVE  Cardinality(S) \in Nat
BY ConstantsAssumption, FS_Subset, FS_CardinalityType DEF ConstantsAssumption


-----------------------------------------------------------------------------
(* The type invariant, strengthened by the aim of connects and tests.      *)

(* The state the service starts in is well typed. *)
LEMMA TypeInit == Init => TypeInv
<1> SUFFICES ASSUME Init PROVE TypeInv
  OBVIOUS
<1>1. nodes \in [Entries -> Status] /\ saved \in [Entries -> Status]
  BY FreshType DEF Init
<1>2. TypeOK
  BY <1>1 DEF Init, TypeOK, Labels
<1>3. AimOK
  BY DEF Init, AimOK, Aimed
<1>4. QED
  BY <1>2, <1>3 DEF TypeInv

(* Arriving requests keep it. *)
LEMMA TypeArrive ==
  ASSUME TypeInv, NEW c \in Clients, Arrive(c)
  PROVE  TypeInv'
<1> USE DEF TypeInv, TypeOK, AimOK, Aimed, Labels, Teardown, Stopping, Reqs,
        Start, catalogVars, runtimeVars, guardVars, procVars, routeVars, reqVars
<1>1. CASE \E id \in Ids : Connect(c, id)
  BY <1>1 DEF Connect
<1>2. CASE \E id \in Ids : AutoConnect(c, id)
  BY <1>2 DEF AutoConnect
<1>3. CASE \E id \in Ids : Test(c, id)
  BY <1>3 DEF Test
<1>4. CASE Disconnect(c)
  BY <1>4 DEF Disconnect
<1>5. CASE \E S \in Catalogs : Refresh(c, S)
  BY <1>5, ConstantsAssumption DEF Refresh, ConstantsAssumption
<1>6. QED
  BY <1>1, <1>2, <1>3, <1>4, <1>5 DEF Arrive

(* So do the steps of a teardown. *)
LEMMA TypeStop ==
  ASSUME TypeInv, NEW c \in Clients, Stop(c)
  PROVE  TypeInv'
<1> USE DEF TypeInv, TypeOK, AimOK, Aimed, Labels, Teardown, Stopping, Reqs,
        Goto, Return, At, catalogVars, runtimeVars, guardVars, procVars,
        routeVars, reqVars
<1>1. CASE StopRule(c)
  <2>1. rule' \in BOOLEAN
    BY <1>1 DEF StopRule, Deleted
  <2>2. QED
    BY <1>1, <2>1 DEF StopRule
<1>2. CASE StopRoute(c)
  <2>1. route' \in BOOLEAN
    BY <1>2 DEF StopRoute, Deleted
  <2>2. QED
    BY <1>2, <2>1 DEF StopRoute
<1>3. CASE StopLock(c)
  BY <1>3 DEF StopLock
<1>4. CASE StopKill(c)
  BY <1>4 DEF StopKill, EndProc
<1>5. CASE StopClear(c)
  BY <1>5 DEF StopClear
<1>6. CASE StopNodes(c)
  BY <1>6, DeactivateType DEF StopNodes, Saved, NotSaved
<1>7. CASE StopRuntime(c)
  <2>1. CASE target[c] = None
    <3>1. pc' = [pc EXCEPT ![c] = "idle"] /\ target' = [target EXCEPT ![c] = None]
      BY <1>7, <2>1 DEF StopRuntime, AfterStop
    <3>2. AimOK'
      BY <3>1
    <3>3. TypeOK'
      BY <1>7, <2>1 DEF StopRuntime, AfterStop
    <3>4. QED
      BY <3>2, <3>3
  <2>2. CASE target[c] # None
    <3>1. pc' = [pc EXCEPT ![c] = "lookup"] /\ target' = target
      BY <1>7, <2>2 DEF StopRuntime, AfterStop
    <3>2. AimOK'
      BY <2>2, <3>1
    <3>3. TypeOK'
      BY <1>7, <2>2 DEF StopRuntime, AfterStop
    <3>4. QED
      BY <3>2, <3>3
  <2>3. QED
    BY <2>1, <2>2
<1>8. QED
  BY <1>1, <1>2, <1>3, <1>4, <1>5, <1>6, <1>7 DEF Stop

(* So do the steps of a connect. *)
LEMMA TypeEstablish ==
  ASSUME TypeInv, NEW c \in Clients, Establish(c)
  PROVE  TypeInv'
<1> USE DEF TypeInv, TypeOK, AimOK, Aimed, Labels, Teardown, Stopping, Reqs,
        Goto, Return, At, catalogVars, runtimeVars, guardVars, procVars,
        routeVars, reqVars
<1>1. CASE Announce(c)
  BY <1>1 DEF Announce
<1>2. CASE Lookup(c)
  BY <1>2 DEF Lookup
<1>3. CASE WriteConfig(c)
  BY <1>3 DEF WriteConfig
<1>4. CASE Spawn(c)
  BY <1>4 DEF Spawn
<1>5. CASE WaitReady(c)
  BY <1>5 DEF WaitReady
<1>6. CASE WaitFail(c)
  BY <1>6 DEF WaitFail
<1>7. CASE Kill(c)
  BY <1>7 DEF Kill, EndProc
<1>8. CASE FailNodes(c)
  BY <1>8, SetStatusType DEF FailNodes, Saved, NotSaved, Status
<1>9. CASE FailRuntime(c)
  BY <1>9 DEF FailRuntime
<1>10. CASE SetRule(c)
  <2>1. rule' \in BOOLEAN
    BY <1>10 DEF SetRule, Deleted
  <2>2. QED
    BY <1>10, <2>1 DEF SetRule
<1>11. CASE SetRoute(c)
  <2>1. route' \in BOOLEAN
    BY <1>11 DEF SetRoute, Deleted
  <2>2. QED
    BY <1>11, <2>1 DEF SetRoute
<1>12. CASE AddRoute(c)
  <2>1. /\ route' \in BOOLEAN /\ unrouted' \in BOOLEAN
        /\ \E l \in {"addRule", "store"} : Goto(c, l)
    BY <1>12 DEF AddRoute
  <2>2. /\ UNCHANGED <<nodes, saved, active, connecting, count, mutex, child, config, rule>>
        /\ UNCHANGED <<proc, host, said>>
    BY <1>12 DEF AddRoute
  <2>3. QED
    <3>1. CASE Goto(c, "addRule")
      BY <1>12, <2>1, <2>2, <3>1 DEF AddRoute
    <3>2. CASE Goto(c, "store")
      BY <1>12, <2>1, <2>2, <3>2 DEF AddRoute
    <3>3. QED
      BY <2>1, <3>1, <3>2
<1>13. CASE AddRule(c)
  <2>1. rule' \in BOOLEAN /\ unrouted' \in BOOLEAN
    BY <1>13 DEF AddRule
  <2>2. UNCHANGED <<nodes, saved, active, connecting, count, mutex, child, config, route>>
        /\ UNCHANGED <<proc, host, said>> /\ Goto(c, "store")
    BY <1>13 DEF AddRule
  <2>3. QED
    BY <1>13, <2>1, <2>2 DEF AddRule
<1>14. CASE Store(c)
  BY <1>14 DEF Store, StoreUnlocked
<1>15. CASE MarkNodes(c)
  BY <1>15, ActivateType DEF MarkNodes, Saved, NotSaved
<1>16. CASE MarkRuntime(c)
  BY <1>16 DEF MarkRuntime
<1>17. QED
  BY <1>1, <1>2, <1>3, <1>4, <1>5, <1>6, <1>7, <1>8, <1>9, <1>10, <1>11, <1>12, <1>13, <1>14, <1>15, <1>16 DEF Establish

(* So does a catalog refresh, whoever runs it, and the result of a test. *)
LEMMA TypeApply ==
  ASSUME TypeInv, NEW r \in Reqs,
         \/ Probed(r) \/ ApplyNodes(r) \/ ApplyRuntime(r)
         \/ \E S \in Catalogs : Refresh(r, S)
  PROVE  TypeInv'
<1> USE DEF TypeInv, TypeOK, AimOK, Aimed, Labels, Teardown, Stopping, Reqs,
        Goto, Return, At, catalogVars, runtimeVars, guardVars, procVars,
        routeVars, reqVars
<1>1. CASE Probed(r)
  <2>1. PICK s \in {"available", "failed"} : nodes' \in SetStatus(nodes, target[r], s)
    BY <1>1 DEF Probed
  <2>2. nodes' \in [Entries -> Status]
    BY <1>1, <2>1, SetStatusType DEF Probed, Status
  <2>3. QED
    BY <1>1, <2>2 DEF Probed, Saved, NotSaved
<1>2. CASE ApplyNodes(r)
  BY <1>2, FreshType DEF ApplyNodes, Saved, NotSaved
<1>3. CASE ApplyRuntime(r)
  BY <1>3, CountType DEF ApplyRuntime
<1>4. CASE \E S \in Catalogs : Refresh(r, S)
  BY <1>4, ConstantsAssumption DEF Refresh, ConstantsAssumption
<1>5. QED
  BY <1>1, <1>2, <1>3, <1>4

(* So does everything the environment may do. *)
LEMMA TypeEnvironment ==
  ASSUME TypeInv,
         \/ \E c \in Clients : Abort(c)
         \/ \E p \in Procs : ProcUp(p) \/ ProcExit(p)
         \/ Crash
  PROVE  TypeInv'
<1> USE DEF TypeInv, TypeOK, AimOK, Aimed, Labels, Teardown, Stopping, Reqs,
        Goto, Return, At, catalogVars, runtimeVars, guardVars, procVars,
        routeVars, reqVars
<1>1. CASE \E c \in Clients : Abort(c)
  BY <1>1 DEF Abort
<1>2. CASE \E p \in Procs : ProcUp(p)
  BY <1>2 DEF ProcUp
<1>3. CASE \E p \in Procs : ProcExit(p)
  BY <1>3 DEF ProcExit, EndProc
<1>4. CASE Crash
  <2>1. Cardinality(Listed(saved)) \in Nat
    BY CountType DEF Listed
  <2>2. QED
    BY <1>4, <2>1 DEF Crash
<1>5. QED
  BY <1>1, <1>2, <1>3, <1>4

(* Steps that change nothing keep it. *)
LEMMA TypeStutter == TypeInv /\ UNCHANGED vars => TypeInv'
BY DEF vars, TypeInv, TypeOK, AimOK, Aimed, Labels, Teardown, Stopping, Reqs,
       catalogVars, runtimeVars, guardVars, procVars, routeVars, reqVars

(* One step of any kind keeps the types. *)
LEMMA TypeNext == TypeInv /\ [Next]_vars => TypeInv'
<1> SUFFICES ASSUME TypeInv, [Next]_vars PROVE TypeInv'
  OBVIOUS
<1>1. CASE \E c \in Clients : Arrive(c) \/ Step(c) \/ Abort(c)
  BY <1>1, TypeArrive, TypeStop, TypeEstablish, TypeApply, TypeEnvironment
     DEF Step, Reqs
<1>2. CASE RefreshLoop
  BY <1>2, TypeApply DEF RefreshLoop, Reqs
<1>3. CASE (\E p \in Procs : ProcUp(p) \/ ProcExit(p)) \/ Crash
  BY <1>3, TypeEnvironment
<1>4. CASE UNCHANGED vars
  BY <1>4, TypeStutter
<1>5. QED
  BY <1>1, <1>2, <1>3, <1>4 DEF Next

(* The strengthened type invariant holds always. *)
LEMMA TypeInvariant == Spec => []TypeInv
BY TypeInit, TypeNext, PTL DEF Spec

(* Every variable keeps its type, whatever the requests, the processes and *)
(* the faults do.                                                          *)
THEOREM TypeCorrect == Spec => []TypeOK
<1>1. TypeInv => TypeOK
  BY DEF TypeInv
<1>2. QED
  BY <1>1, TypeInvariant, PTL

-----------------------------------------------------------------------------
(* At most one active id. *)

One(ns) ==
  \A m, n \in Entries : ns[m] = "active" /\ ns[n] = "active" => IdOf[m] = IdOf[n]

(* The steps that touch the catalog are these; no other does. *)
LEMMA CatalogFrame ==
  ASSUME Next
  PROVE  \/ UNCHANGED <<nodes, saved>>
         \/ \E c \in Clients :
              StopNodes(c) \/ FailNodes(c) \/ MarkNodes(c) \/ Probed(c)
         \/ \E r \in Reqs : ApplyNodes(r)
         \/ Crash
<1> USE DEF catalogVars
<1>1. ASSUME NEW c \in Clients, Arrive(c) PROVE UNCHANGED <<nodes, saved>>
  BY <1>1 DEF Arrive, Connect, AutoConnect, Test, Disconnect, Refresh
<1>2. ASSUME NEW c \in Clients, Stop(c), ~StopNodes(c)
      PROVE  UNCHANGED <<nodes, saved>>
  BY <1>2 DEF Stop, StopRule, StopRoute, StopLock, StopKill, StopClear, StopRuntime
<1>3. ASSUME NEW c \in Clients, Establish(c), ~FailNodes(c), ~MarkNodes(c)
      PROVE  UNCHANGED <<nodes, saved>>
  BY <1>3 DEF Establish, Announce, Lookup, WriteConfig, Spawn, WaitReady, WaitFail,
       Kill, FailRuntime, SetRule, SetRoute, AddRoute, AddRule, Store,
       StoreUnlocked, MarkRuntime
<1>4. ASSUME NEW r \in Reqs,
             ApplyRuntime(r) \/ \E S \in Catalogs : Refresh(r, S)
      PROVE  UNCHANGED <<nodes, saved>>
  BY <1>4 DEF ApplyRuntime, Refresh
<1>5. ASSUME \/ \E c \in Clients : Abort(c)
             \/ \E p \in Procs : ProcUp(p) \/ ProcExit(p)
      PROVE  UNCHANGED <<nodes, saved>>
  BY <1>5 DEF Abort, ProcUp, ProcExit
<1>6. CASE \E c \in Clients : Arrive(c) \/ Step(c) \/ Abort(c)
  BY <1>1, <1>2, <1>3, <1>4, <1>5, <1>6 DEF Step, Reqs
<1>7. CASE RefreshLoop
  BY <1>4, <1>7 DEF RefreshLoop, Reqs
<1>8. QED
  BY <1>5, <1>6, <1>7 DEF Next

(* Nothing is active at the start. *)
LEMMA OneActiveInit == Init => OneActive
BY DEF Init, OneActive, FreshNodes

(* Every rewrite of the catalog leaves at most one id active. *)
LEMMA OneActiveNext ==
  ASSUME TypeInv, OneActive, [Next]_vars
  PROVE  OneActive'
<1>1. One(nodes) /\ One(saved)
  BY DEF OneActive, One
<1>2. SUFFICES One(nodes') /\ One(saved')
  BY DEF OneActive, One
<1>3. nodes \in [Entries -> Status] /\ saved \in [Entries -> Status]
  BY DEF TypeInv, TypeOK
<1>4. CASE UNCHANGED <<nodes, saved>>
  BY <1>1, <1>4
<1>5. ASSUME One(nodes'), Saved \/ NotSaved
      PROVE  One(nodes') /\ One(saved')
  BY <1>1, <1>5 DEF Saved, NotSaved
<1>6. CASE \E c \in Clients : StopNodes(c)
  <2>1. One(nodes')
    BY <1>3, <1>6 DEF StopNodes, Deactivate, One
  <2>2. QED
    BY <1>5, <1>6, <2>1 DEF StopNodes
<1>7. CASE \E c \in Clients : FailNodes(c)
  <2>1. One(nodes')
    BY <1>1, <1>3, <1>7 DEF FailNodes, SetStatus, One
  <2>2. QED
    BY <1>5, <1>7, <2>1 DEF FailNodes
<1>8. CASE \E c \in Clients : MarkNodes(c)
  <2>1. One(nodes')
    BY <1>3, <1>8 DEF MarkNodes, Activate, Marked, Named, Listed, Deactivate, One
  <2>2. QED
    BY <1>5, <1>8, <2>1 DEF MarkNodes
<1>9. CASE \E c \in Clients : Probed(c)
  <2>1. One(nodes')
    BY <1>1, <1>3, <1>9 DEF Probed, SetStatus, One
  <2>2. QED
    BY <1>5, <1>9, <2>1 DEF Probed
<1>10. CASE \E r \in Reqs : ApplyNodes(r)
  <2>1. One(nodes')
    BY <1>10 DEF ApplyNodes, FreshNodes, One
  <2>2. QED
    BY <1>5, <1>10, <2>1 DEF ApplyNodes
<1>11. CASE Crash
  BY <1>1, <1>11 DEF Crash
<1>12. CASE UNCHANGED vars
  BY <1>4, <1>12 DEF vars, catalogVars
<1>13. QED
  BY <1>4, <1>6, <1>7, <1>8, <1>9, <1>10, <1>11, <1>12, CatalogFrame

(* Neither the catalog in memory nor the one on disk ever shows two ids    *)
(* active, for any number of concurrent requests and with every fault.     *)
THEOREM OneActiveHolds == Spec => []OneActive
<1>1. TypeInv /\ OneActive /\ [Next]_vars => OneActive'
  BY OneActiveNext
<1>2. QED
  BY <1>1, OneActiveInit, TypeInvariant, PTL DEF Spec

-----------------------------------------------------------------------------
(* The teardown and its lock. *)

(* The lock is held from the kill to the reset of the report, and only then. *)
LockOwned == \A c \in Clients : mutex = c <=> pc[c] \in Stopping

LockInv == LockOwned /\ TeardownAtomic

(* Nobody owns the lock at the start. *)
LEMMA LockInit == Init => LockInv
BY ConstantsAssumption
   DEF Init, LockInv, LockOwned, TeardownAtomic, Stopping, Reqs, ConstantsAssumption

(* Requests arrive outside the teardown. *)
LEMMA LockArrive ==
  ASSUME TypeInv, LockInv, NEW c \in Clients, Arrive(c)
  PROVE  LockInv'
<1> USE ConstantsAssumption
    DEF TypeInv, TypeOK, LockInv, LockOwned, TeardownAtomic, Stopping, Reqs,
        Start, guardVars, procVars, reqVars, ConstantsAssumption
<1>1. CASE \E id \in Ids : Connect(c, id) \/ AutoConnect(c, id) \/ Test(c, id)
  BY <1>1 DEF Connect, AutoConnect, Test
<1>2. CASE Disconnect(c)
  BY <1>2 DEF Disconnect
<1>3. CASE \E S \in Catalogs : Refresh(c, S)
  BY <1>3 DEF Refresh
<1>4. QED
  BY <1>1, <1>2, <1>3 DEF Arrive

(* A teardown passes its checkpoints in order. *)
LEMMA LockStop ==
  ASSUME TypeInv, LockInv, NEW c \in Clients, Stop(c)
  PROVE  LockInv'
<1> USE ConstantsAssumption
    DEF TypeInv, TypeOK, LockInv, LockOwned, TeardownAtomic, Stopping, Reqs, Goto,
        Return, At, guardVars, procVars, reqVars, ConstantsAssumption
<1>1. CASE StopRule(c)
  BY <1>1 DEF StopRule
<1>2. CASE StopRoute(c)
  BY <1>2 DEF StopRoute
<1>3. CASE StopLock(c)
  BY <1>3 DEF StopLock
<1>4. CASE StopKill(c)
  <2>1. mutex' = mutex /\ child' = child /\ config' = config
        /\ pc' = [pc EXCEPT ![c] = "stopClear"]
    BY <1>4 DEF StopKill
  <2>2. mutex = c /\ \A d \in Clients : pc[d] \in Stopping => d = c
    BY <1>4 DEF StopKill
  <2>3. child # None => proc'[child] = "none"
    <3>1. proc \in [Procs -> {"none", "starting", "up"}]
          /\ child \in Procs \cup {None}
      OBVIOUS
    <3>2. child # None => proc' = [proc EXCEPT ![child] = "none"]
      BY <1>4 DEF StopKill, EndProc
    <3>3. QED
      BY ONLY <3>1, <3>2
  <2>4. QED
    BY <2>1, <2>2, <2>3
<1>5. CASE StopClear(c)
  BY <1>5 DEF StopClear
<1>6. CASE StopNodes(c)
  BY <1>6 DEF StopNodes
<1>7. CASE StopRuntime(c)
  BY <1>7 DEF StopRuntime, AfterStop
<1>8. QED
  BY <1>1, <1>2, <1>3, <1>4, <1>5, <1>6, <1>7 DEF Stop

(* A connect neither takes the lock for longer than a step nor stores a     *)
(* process while another request tears down.                               *)
LEMMA LockEstablish ==
  ASSUME TypeInv, LockInv, NEW c \in Clients, Establish(c)
  PROVE  LockInv'
<1> USE ConstantsAssumption
    DEF TypeInv, TypeOK, LockInv, LockOwned, TeardownAtomic, Stopping, Reqs, Goto,
        Return, At, guardVars, procVars, reqVars, ConstantsAssumption
<1>1. CASE Announce(c)
  BY <1>1 DEF Announce
<1>2. CASE Lookup(c)
  BY <1>2 DEF Lookup
<1>3. CASE WriteConfig(c)
  BY <1>3 DEF WriteConfig
<1>4. CASE Spawn(c)
  BY <1>4 DEF Spawn, Unused
<1>5. CASE WaitReady(c)
  BY <1>5 DEF WaitReady
<1>6. CASE WaitFail(c)
  BY <1>6 DEF WaitFail
<1>7. CASE Kill(c)
  BY <1>7 DEF Kill, EndProc
<1>8. CASE FailNodes(c)
  BY <1>8 DEF FailNodes
<1>9. CASE FailRuntime(c)
  BY <1>9 DEF FailRuntime
<1>10. CASE SetRule(c)
  BY <1>10 DEF SetRule
<1>11. CASE SetRoute(c)
  BY <1>11 DEF SetRoute
<1>12. CASE AddRoute(c)
  BY <1>12 DEF AddRoute
<1>13. CASE AddRule(c)
  BY <1>13 DEF AddRule
<1>14. CASE Store(c)
  BY <1>14 DEF Store, StoreUnlocked
<1>15. CASE MarkNodes(c)
  BY <1>15 DEF MarkNodes
<1>16. CASE MarkRuntime(c)
  BY <1>16 DEF MarkRuntime
<1>17. QED
  BY <1>1, <1>2, <1>3, <1>4, <1>5, <1>6, <1>7, <1>8, <1>9, <1>10, <1>11, <1>12, <1>13, <1>14, <1>15, <1>16 DEF Establish

(* Refreshes and tests stay clear of the lock. *)
LEMMA LockApply ==
  ASSUME TypeInv, LockInv, NEW r \in Reqs,
         \/ Probed(r) \/ ApplyNodes(r) \/ ApplyRuntime(r)
         \/ \E S \in Catalogs : Refresh(r, S)
  PROVE  LockInv'
<1> USE ConstantsAssumption
    DEF TypeInv, TypeOK, LockInv, LockOwned, TeardownAtomic, Stopping, Reqs, Goto,
        Return, At, guardVars, procVars, reqVars, ConstantsAssumption
<1>1. CASE Probed(r)
  BY <1>1 DEF Probed
<1>2. CASE ApplyNodes(r)
  BY <1>2 DEF ApplyNodes
<1>3. CASE ApplyRuntime(r)
  BY <1>3 DEF ApplyRuntime
<1>4. CASE \E S \in Catalogs : Refresh(r, S)
  BY <1>4 DEF Refresh
<1>5. QED
  BY <1>1, <1>2, <1>3, <1>4

(* A dropped handler gives its lock back; a recorded process stays dead. *)
LEMMA LockEnvironment ==
  ASSUME TypeInv, LockInv,
         \/ \E c \in Clients : Abort(c)
         \/ \E p \in Procs : ProcUp(p) \/ ProcExit(p)
         \/ Crash
  PROVE  LockInv'
<1> USE ConstantsAssumption
    DEF TypeInv, TypeOK, LockInv, LockOwned, TeardownAtomic, Stopping, Reqs, Goto,
        Return, At, guardVars, procVars, reqVars, ConstantsAssumption
<1>1. CASE \E c \in Clients : Abort(c)
  BY <1>1 DEF Abort
<1>2. CASE \E p \in Procs : ProcUp(p)
  BY <1>2 DEF ProcUp
<1>3. CASE \E p \in Procs : ProcExit(p)
  BY <1>3 DEF ProcExit, EndProc
<1>4. CASE Crash
  BY <1>4 DEF Crash
<1>5. QED
  BY <1>1, <1>2, <1>3, <1>4

(* One step of any kind keeps the lock discipline. *)
LEMMA LockNext ==
  ASSUME TypeInv, LockInv, [Next]_vars
  PROVE  LockInv'
<1>1. CASE \E c \in Clients : Arrive(c) \/ Step(c) \/ Abort(c)
  BY <1>1, LockArrive, LockStop, LockEstablish, LockApply, LockEnvironment
     DEF Step, Reqs
<1>2. CASE RefreshLoop
  BY <1>2, LockApply DEF RefreshLoop, Reqs
<1>3. CASE (\E p \in Procs : ProcUp(p) \/ ProcExit(p)) \/ Crash
  BY <1>3, LockEnvironment
<1>4. CASE UNCHANGED vars
  BY <1>4 DEF vars, LockInv, LockOwned, TeardownAtomic, guardVars, procVars, reqVars
<1>5. QED
  BY <1>1, <1>2, <1>3, <1>4 DEF Next

(* The lock discipline holds always. *)
LEMMA LockInvariant == Spec => []LockInv
<1>1. TypeInv /\ LockInv /\ [Next]_vars => LockInv'
  BY LockNext
<1>2. QED
  BY <1>1, LockInit, TypeInvariant, PTL DEF Spec

(* A teardown forgets only a dead process and rewrites statuses and report *)
(* over an empty record: no connect comes between, because both take the   *)
(* openvpn lock.                                                           *)
THEOREM TeardownAtomicHolds == Spec => []TeardownAtomic
<1>1. LockInv => TeardownAtomic
  BY DEF LockInv
<1>2. QED
  BY <1>1, LockInvariant, PTL

-----------------------------------------------------------------------------
(* The reported node count against the list it counts.                     *)

(* Setting statuses adds and removes no node. *)
LEMMA DeactivateLists ==
  ASSUME NEW ns \in [Entries -> Status]
  PROVE  Listed(Deactivate(ns)) = Listed(ns)
BY DEF Listed, Deactivate

(* Setting a status neither lists nor unlists a node. *)
LEMMA SetStatusLists ==
  ASSUME NEW ns \in [Entries -> Status], NEW id \in Ids, NEW s \in Status \ {"absent"},
         NEW ms \in SetStatus(ns, id, s)
  PROVE  Listed(ms) = Listed(ns)
BY DEF Listed, Named, SetStatus

(* Nor does marking the active node. *)
LEMMA ActivateLists ==
  ASSUME NEW ns \in [Entries -> Status], NEW id \in Ids
  PROVE  Listed(Activate(ns, id)) = Listed(ns)
<1>1. Deactivate(ns) \in [Entries -> Status]
  BY DeactivateType
<1>2. Listed(Marked(Deactivate(ns), id)) = Listed(Deactivate(ns))
  BY <1>1 DEF Listed, Named, Marked
<1>3. QED
  BY <1>2, DeactivateLists DEF Activate

(* The count is written by a refresh and by a restart; nothing else does.  *)
LEMMA CountFrame ==
  ASSUME Next
  PROVE  UNCHANGED count \/ (\E r \in Reqs : ApplyRuntime(r)) \/ Crash
<1> USE DEF runtimeVars
<1>1. ASSUME NEW c \in Clients, Arrive(c) PROVE UNCHANGED count
  BY <1>1 DEF Arrive, Connect, AutoConnect, Test, Disconnect, Refresh
<1>2. ASSUME NEW c \in Clients, Stop(c) PROVE UNCHANGED count
  BY <1>2 DEF Stop, StopRule, StopRoute, StopLock, StopKill, StopClear, StopNodes, StopRuntime
<1>3. ASSUME NEW c \in Clients, Establish(c) PROVE UNCHANGED count
  BY <1>3 DEF Establish, Announce, Lookup, WriteConfig, Spawn, WaitReady, WaitFail,
       Kill, FailNodes, FailRuntime, SetRule, SetRoute, AddRoute, AddRule, Store,
       StoreUnlocked, MarkNodes, MarkRuntime
<1>4. ASSUME NEW r \in Reqs, Probed(r) \/ ApplyNodes(r) \/ \E S \in Catalogs : Refresh(r, S)
      PROVE  UNCHANGED count
  BY <1>4 DEF Probed, ApplyNodes, Refresh
<1>5. ASSUME \/ \E c \in Clients : Abort(c)
             \/ \E p \in Procs : ProcUp(p) \/ ProcExit(p)
      PROVE  UNCHANGED count
  BY <1>5 DEF Abort, ProcUp, ProcExit
<1>6. CASE \E c \in Clients : Arrive(c) \/ Step(c) \/ Abort(c)
  BY <1>1, <1>2, <1>3, <1>4, <1>5, <1>6 DEF Step, Reqs
<1>7. CASE RefreshLoop
  BY <1>4, <1>7 DEF RefreshLoop, Reqs
<1>8. QED
  BY <1>5, <1>6, <1>7 DEF Next

(* Every other rewrite of the list keeps its length.                       *)
LEMMA CountNext ==
  ASSUME TypeInv, CountAgrees, [Next]_vars,
         ~ \E r \in Reqs : ApplyNodes(r) \/ ApplyRuntime(r)
  PROVE  CountAgrees'
<1>1. nodes \in [Entries -> Status]
  BY DEF TypeInv, TypeOK
<1>2. ASSUME Listed(nodes') = Listed(nodes), UNCHANGED count
      PROVE  CountAgrees'
  <2>1. Listed(nodes)' = Listed(nodes)
    BY <1>2 DEF Listed
  <2>2. QED
    BY <1>2, <2>1 DEF CountAgrees
<1>3. CASE Crash
  BY <1>3 DEF Crash, CountAgrees, Listed
<1>4. CASE \E c \in Clients : StopNodes(c) \/ FailNodes(c) \/ MarkNodes(c) \/ Probed(c)
  <2>1. PICK c \in Clients : StopNodes(c) \/ FailNodes(c) \/ MarkNodes(c) \/ Probed(c)
    BY <1>4
  <2>2. UNCHANGED count
    BY <2>1 DEF StopNodes, FailNodes, MarkNodes, Probed, runtimeVars
  <2>3. CASE StopNodes(c)
    BY <1>1, <1>2, <2>2, <2>3, DeactivateLists DEF StopNodes
  <2>4. target[c] \in Ids \/ StopNodes(c)
    BY <2>1 DEF TypeInv, AimOK, Aimed, FailNodes, MarkNodes, Probed, At, Reqs
  <2>5. CASE FailNodes(c)
    BY <1>1, <1>2, <2>2, <2>3, <2>4, <2>5, SetStatusLists DEF FailNodes, Status
  <2>6. CASE MarkNodes(c)
    BY <1>1, <1>2, <2>2, <2>3, <2>4, <2>6, ActivateLists DEF MarkNodes
  <2>7. CASE Probed(c)
    BY <1>1, <1>2, <2>2, <2>3, <2>4, <2>7, SetStatusLists DEF Probed, Status
  <2>8. QED
    BY <2>1, <2>3, <2>5, <2>6, <2>7
<1>5. CASE Next /\ UNCHANGED nodes /\ ~Crash
  BY <1>2, <1>5, CountFrame
<1>6. CASE UNCHANGED vars
  BY <1>2, <1>6 DEF vars, catalogVars, runtimeVars
<1>7. QED
  BY <1>3, <1>4, <1>5, <1>6, CatalogFrame

(* For any number of concurrent requests and with every fault, node_count  *)
(* and the node list part only in a refresh.                               *)
THEOREM CountKeptHolds == Spec => CountKept
<1>1. TypeInv /\ [Next]_vars
        => [CountAgrees => CountAgrees' \/ \E r \in Reqs : ApplyNodes(r) \/ ApplyRuntime(r)]_vars
  BY CountNext
<1>2. QED
  BY <1>1, TypeInvariant, PTL DEF Spec, CountKept
=============================================================================
