--------------------------- MODULE TunnelConsole ----------------------------
(***************************************************************************)
(* What holds of Tunnel for one client: a console that waits for the       *)
(* answer to one request before it sends the next.  With the openvpn       *)
(* processes free to die, the saves, the spawns, the config writes and the *)
(* routing commands free to fail, status, record, process and routes agree *)
(* and the control plane is the Link that module Gateway builds on.        *)
(***************************************************************************)
EXTENDS TunnelSessions

(* The steps of the one client, by what it has in its hands. *)
Free == {"idle", "announce", "probe", "applyNodes", "applyRuntime"}
Before == {"stopRule", "stopRoute", "stopLock", "stopKill", "stopClear"}
Bare == {"lookup", "writeConfig", "spawn", "failNodes", "failRuntime"}
Waiting == {"wait", "kill"}
Marking == {"markNodes", "markRuntime"}

(* A connect holds a process or has recorded it, never both. *)
HandlesOK(k) ==
  /\ pc[k] \in Holding <=> held[k] # None
  /\ pc[k] \in Holding \cup Bare \cup {"stopNodes", "stopRuntime"} => child = None
  /\ pc[k] \in Marking => child # None /\ config = target[k]
  /\ child = None <=> config = None

(* The one process there is belongs to the record or to the connect, and   *)
(* after the ready line it is up or gone, but does not come up again.      *)
ProcsOK(k) ==
  /\ \A p \in Procs : proc[p] # "none" =>
       \/ p = child /\ host[p] = config
       \/ p = held[k] /\ host[p] = target[k]
  /\ pc[k] = "stopClear" => \A p \in Procs : proc[p] = "none"
  /\ child # None => proc[child] # "starting"
  /\ pc[k] \in Routing => proc[held[k]] # "starting"

(* The ready line of a process that is up waits to be read, once.          *)
LineOK(k) ==
  /\ \A p \in said : p = held[k] /\ proc[p] # "starting" /\ pc[k] \in Waiting
  /\ pc[k] \in Waiting /\ proc[held[k]] = "up" => held[k] \in said

(* The route is added while the device is there and the rule after it, or  *)
(* the set-up has failed.                                                  *)
RoutesOK(k) ==
  /\ pc[k] = "addRule" /\ DeviceUp => route
  /\ pc[k] \in {"store"} \cup Marking \cup Free /\ DeviceUp /\ ~unrouted => rule /\ route

(* What is reported is recorded, or is being torn down; only a teardown is *)
(* reported as connecting.                                                 *)
ReportOK(k) ==
  /\ connecting => pc[k] \in Before \cup {"stopNodes", "stopRuntime"}
  /\ pc[k] \in Free \cup Before => active = config
  /\ pc[k] \in Bare \cup Holding \cup Marking => active = None

(* A node is shown active from its mark to its teardown. *)
NoneShown == \A n \in Entries : nodes[n] # "active"
ShownOK(k) ==
  /\ pc[k] \in Bare \cup Holding \cup {"stopRuntime", "markNodes"} => NoneShown
  /\ pc[k] = "markRuntime" => \A n \in Entries : nodes[n] = "active" => IdOf[n] = target[k]
  /\ "crash" \notin Faults /\ pc[k] \in Free => \A n \in Entries : nodes[n] = "active" => IdOf[n] = active

ConsoleInv(k) ==
  HandlesOK(k) /\ ProcsOK(k) /\ LineOK(k) /\ RoutesOK(k) /\ ReportOK(k) /\ ShownOK(k)

-----------------------------------------------------------------------------
(* Nothing runs and nothing is reported at the start. *)
LEMMA ConsoleInit ==
  ASSUME NEW k, Clients = {k}
  PROVE  Init => ConsoleInv(k)
BY ConstantsAssumption
   DEF Init, ConsoleInv, HandlesOK, ProcsOK, LineOK, RoutesOK, ReportOK, ShownOK, NoneShown,
       Free, Before, Bare, Waiting, Marking, Holding, Routing, Reqs, DeviceUp, FreshNodes,
       ConstantsAssumption

(* A request begins with nothing in its hands. *)
LEMMA ConsoleArrive ==
  ASSUME NEW k, Clients = {k}, TypeInv, ConsoleInv(k), "abort" \notin Faults,
         Arrive(k)
  PROVE  ConsoleInv(k)'
<1> USE ConstantsAssumption
    DEF TypeInv, TypeOK, AimOK, Aimed, ConsoleInv, HandlesOK, ProcsOK, LineOK, RoutesOK,
        ReportOK, ShownOK, NoneShown, Free, Before, Bare, Waiting, Marking, Holding, Routing,
        Reqs, DeviceUp, Goto, Start, Return, At, catalogVars, runtimeVars, guardVars, procVars,
        routeVars, ConstantsAssumption
<1>1. CASE \E id \in Ids : Connect(k, id) \/ AutoConnect(k, id) \/ Test(k, id)
  BY <1>1 DEF Connect, AutoConnect, Test
<1>2. CASE Disconnect(k)
  BY <1>2 DEF Disconnect
<1>3. CASE \E S \in Catalogs : Refresh(k, S)
  BY <1>3 DEF Refresh
<1>4. QED
  BY <1>1, <1>2, <1>3 DEF Arrive

(* A teardown ends the recorded process before it forgets it. *)
LEMMA ConsoleStop ==
  ASSUME NEW k, Clients = {k}, TypeInv, ConsoleInv(k), "abort" \notin Faults,
         Stop(k)
  PROVE  ConsoleInv(k)'
<1> USE ConstantsAssumption
    DEF TypeInv, TypeOK, AimOK, Aimed, ConsoleInv, HandlesOK, ProcsOK, LineOK, RoutesOK,
        ReportOK, ShownOK, NoneShown, Free, Before, Bare, Waiting, Marking, Holding, Routing,
        Reqs, DeviceUp, Goto, Start, Return, At, catalogVars, runtimeVars, guardVars, procVars,
        routeVars, ConstantsAssumption
<1>1. CASE StopRule(k)
  BY <1>1 DEF StopRule, Deleted
<1>2. CASE StopRoute(k)
  BY <1>2 DEF StopRoute, Deleted
<1>3. CASE StopLock(k)
  BY <1>3 DEF StopLock
<1>4. CASE StopKill(k)
  <2>1. pc[k] = "stopKill" /\ pc' = [pc EXCEPT ![k] = "stopClear"]
        /\ UNCHANGED <<child, config, held, target, said, active, connecting, rule, unrouted, nodes>>
    BY <1>4 DEF StopKill
  <2>2. CASE child # None
    <3>1. /\ proc' = [proc EXCEPT ![child] = "none"] /\ host' = [host EXCEPT ![child] = None]
          /\ child \in Procs
      BY <1>4, <2>2 DEF StopKill, EndProc
    <3>2. \A p \in Procs : proc'[p] = "none"
      BY <2>1, <3>1
    <3>3. QED
      BY <2>1, <3>1, <3>2
  <2>3. CASE child = None
    <3>1. UNCHANGED <<proc, host, route>>
      BY <1>4, <2>3 DEF StopKill
    <3>2. QED
      BY <2>1, <2>3, <3>1
  <2>4. QED
    BY <2>2, <2>3
<1>5. CASE StopClear(k)
  BY <1>5 DEF StopClear
<1>6. CASE StopNodes(k)
  BY <1>6 DEF StopNodes, Deactivate
<1>7. CASE StopRuntime(k)
  BY <1>7 DEF StopRuntime, AfterStop
<1>8. QED
  BY <1>1, <1>2, <1>3, <1>4, <1>5, <1>6, <1>7 DEF Stop

(* A connect takes a process only after its teardown. *)
LEMMA ConsoleStart ==
  ASSUME NEW k, Clients = {k}, TypeInv, ConsoleInv(k), "abort" \notin Faults,
         Announce(k) \/ Lookup(k) \/ WriteConfig(k) \/ Spawn(k) \/ WaitReady(k) \/ WaitFail(k)
  PROVE  ConsoleInv(k)'
<1> USE ConstantsAssumption
    DEF TypeInv, TypeOK, AimOK, Aimed, ConsoleInv, HandlesOK, ProcsOK, LineOK, RoutesOK,
        ReportOK, ShownOK, NoneShown, Free, Before, Bare, Waiting, Marking, Holding, Routing,
        Reqs, DeviceUp, Goto, Start, Return, At, catalogVars, runtimeVars, guardVars, procVars,
        routeVars, ConstantsAssumption
<1>1. CASE Announce(k)
  BY <1>1 DEF Announce
<1>2. CASE Lookup(k)
  BY <1>2 DEF Lookup
<1>3. CASE WriteConfig(k)
  BY <1>3 DEF WriteConfig
<1>4. CASE Spawn(k)
  BY <1>4 DEF Spawn, Unused
<1>5. CASE WaitReady(k)
  BY <1>5 DEF WaitReady
<1>6. CASE WaitFail(k)
  BY <1>6 DEF WaitFail
<1>7. QED
  BY <1>1, <1>2, <1>3, <1>4, <1>5, <1>6

(* A connect that fails leaves nothing behind. *)
LEMMA ConsoleFail ==
  ASSUME NEW k, Clients = {k}, TypeInv, ConsoleInv(k), "abort" \notin Faults,
         Kill(k) \/ FailNodes(k) \/ FailRuntime(k)
  PROVE  ConsoleInv(k)'
<1> USE ConstantsAssumption
    DEF TypeInv, TypeOK, AimOK, Aimed, ConsoleInv, HandlesOK, ProcsOK, LineOK, RoutesOK,
        ReportOK, ShownOK, NoneShown, Free, Before, Bare, Waiting, Marking, Holding, Routing,
        Reqs, DeviceUp, Goto, Start, Return, At, catalogVars, runtimeVars, guardVars, procVars,
        routeVars, ConstantsAssumption
<1>1. CASE Kill(k)
  BY <1>1 DEF Kill, EndProc
<1>2. CASE FailNodes(k)
  BY <1>2 DEF FailNodes, SetStatus
<1>3. CASE FailRuntime(k)
  BY <1>3 DEF FailRuntime
<1>4. QED
  BY <1>1, <1>2, <1>3

(* A connect that succeeds routes through its process, records and reports it. *)
LEMMA ConsoleRoute ==
  ASSUME NEW k, Clients = {k}, TypeInv, ConsoleInv(k), "abort" \notin Faults,
         SetRule(k) \/ SetRoute(k) \/ AddRoute(k) \/ AddRule(k)
         \/ Store(k) \/ MarkNodes(k) \/ MarkRuntime(k)
  PROVE  ConsoleInv(k)'
<1> USE ConstantsAssumption
    DEF TypeInv, TypeOK, AimOK, Aimed, ConsoleInv, HandlesOK, ProcsOK, LineOK, RoutesOK,
        ReportOK, ShownOK, NoneShown, Free, Before, Bare, Waiting, Marking, Holding, Routing,
        Reqs, DeviceUp, Goto, Start, Return, At, catalogVars, runtimeVars, guardVars, procVars,
        routeVars, ConstantsAssumption
<1>1. CASE SetRule(k)
  BY <1>1 DEF SetRule, Deleted
<1>2. CASE SetRoute(k)
  BY <1>2 DEF SetRoute, Deleted
<1>3. CASE AddRoute(k)
  BY <1>3 DEF AddRoute
<1>4. CASE AddRule(k)
  BY <1>4 DEF AddRule
<1>5. CASE Store(k)
  BY <1>5 DEF Store, StoreUnlocked
<1>6. CASE MarkNodes(k)
  BY <1>6 DEF MarkNodes, Activate, Marked, Named, Deactivate
<1>7. CASE MarkRuntime(k)
  BY <1>7 DEF MarkRuntime
<1>8. QED
  BY <1>1, <1>2, <1>3, <1>4, <1>5, <1>6, <1>7

(* A test or a fetched catalog shows no node active that was not. *)
LEMMA ConsoleApply ==
  ASSUME NEW k, Clients = {k}, TypeInv, ConsoleInv(k), "abort" \notin Faults,
         NEW r \in Reqs,
         \/ Probed(r) \/ ApplyNodes(r) \/ ApplyRuntime(r)
         \/ \E S \in Catalogs : Refresh(r, S)
  PROVE  ConsoleInv(k)'
<1> USE ConstantsAssumption
    DEF TypeInv, TypeOK, AimOK, Aimed, ConsoleInv, HandlesOK, ProcsOK, LineOK, RoutesOK,
        ReportOK, ShownOK, NoneShown, Free, Before, Bare, Waiting, Marking, Holding, Routing,
        Reqs, DeviceUp, Goto, Start, Return, At, catalogVars, runtimeVars, guardVars, procVars,
        routeVars, ConstantsAssumption
<1>1. CASE Probed(r)
  BY <1>1 DEF Probed, SetStatus
<1>2. CASE ApplyNodes(r)
  BY <1>2 DEF ApplyNodes, FreshNodes
<1>3. CASE ApplyRuntime(r)
  BY <1>3 DEF ApplyRuntime
<1>4. CASE \E S \in Catalogs : Refresh(r, S)
  BY <1>4 DEF Refresh
<1>5. QED
  BY <1>1, <1>2, <1>3, <1>4

(* A process that dies takes its route along; a restart ends everything. *)
LEMMA ConsoleEnvironment ==
  ASSUME NEW k, Clients = {k}, TypeInv, ConsoleInv(k), "abort" \notin Faults,
         \/ \E c \in Clients : Abort(c)
         \/ \E p \in Procs : ProcUp(p) \/ ProcExit(p)
         \/ Crash
  PROVE  ConsoleInv(k)'
<1> USE ConstantsAssumption
    DEF TypeInv, TypeOK, AimOK, Aimed, ConsoleInv, HandlesOK, ProcsOK, LineOK, RoutesOK,
        ReportOK, ShownOK, NoneShown, Free, Before, Bare, Waiting, Marking, Holding, Routing,
        Reqs, DeviceUp, Goto, Start, Return, At, catalogVars, runtimeVars, guardVars, procVars,
        routeVars, ConstantsAssumption
<1>1. CASE \E c \in Clients : Abort(c)
  BY <1>1 DEF Abort
<1>2. CASE \E p \in Procs : ProcUp(p)
  <2>1. PICK p \in Procs : ProcUp(p)
    BY <1>2
  <2>2. /\ proc[p] = "starting" /\ \A q \in Procs : proc[q] # "up"
        /\ proc' = [proc EXCEPT ![p] = "up"]
        /\ said' = IF \E c \in Clients : held[c] = p THEN said \cup {p} ELSE said
        /\ UNCHANGED <<pc, target, held, child, config, host, route, rule, unrouted, active, connecting, nodes>>
    BY <2>1 DEF ProcUp, reqVars
  <2>3. p = held[k] /\ pc[k] \in Waiting /\ said' = said \cup {p}
    BY <2>2
  <2>4. HandlesOK(k)' /\ ReportOK(k)' /\ ShownOK(k)' /\ RoutesOK(k)'
    BY <2>2, <2>3
  <2>5. ProcsOK(k)'
    BY <2>2, <2>3
  <2>6. LineOK(k)'
    BY <2>2, <2>3
  <2>7. QED
    BY <2>4, <2>5, <2>6
<1>3. CASE \E p \in Procs : ProcExit(p)
  <2>1. PICK p \in Procs : ProcExit(p)
    BY <1>3
  <2>2. /\ proc[p] # "none"
        /\ proc' = [proc EXCEPT ![p] = "none"] /\ host' = [host EXCEPT ![p] = None]
        /\ route' = IF proc[p] = "up" THEN FALSE ELSE route
        /\ UNCHANGED <<pc, target, held, child, config, said, rule, unrouted, active, connecting, nodes>>
    BY <2>1 DEF ProcExit, EndProc, reqVars
  <2>3. HandlesOK(k)' /\ ReportOK(k)' /\ ShownOK(k)'
    BY <2>2
  <2>4. ProcsOK(k)' /\ LineOK(k)'
    BY <2>2
  <2>5. ~DeviceUp'
    <3>1. SUFFICES ASSUME NEW q \in Procs, proc'[q] = "up" PROVE FALSE
      OBVIOUS
    <3>2. q # p /\ proc[q] = "up"
      BY <2>2, <3>1
    <3>3. q \in {child, held[k]} /\ p \in {child, held[k]} /\ q # None /\ p # None
      BY <2>2, <3>2
    <3>4. child = None \/ held[k] = None
      OBVIOUS
    <3>5. QED
      BY <3>2, <3>3, <3>4
  <2>6. RoutesOK(k)'
    BY <2>2, <2>5
  <2>7. QED
    BY <2>3, <2>4, <2>6
<1>4. CASE Crash
  BY <1>4 DEF Crash
<1>5. QED
  BY <1>1, <1>2, <1>3, <1>4

(* One step of any kind keeps the invariant. *)
LEMMA ConsoleNext ==
  ASSUME NEW k, Clients = {k}, TypeInv, ConsoleInv(k), "abort" \notin Faults, [Next]_vars
  PROVE  ConsoleInv(k)'
<1>1. CASE Arrive(k) \/ Step(k) \/ Abort(k)
  BY <1>1, ConsoleArrive, ConsoleStop, ConsoleStart, ConsoleFail, ConsoleRoute, ConsoleApply,
     ConsoleEnvironment DEF Step, Establish, Reqs
<1>2. CASE RefreshLoop
  BY <1>2, ConsoleApply DEF RefreshLoop, Reqs
<1>3. CASE (\E p \in Procs : ProcUp(p) \/ ProcExit(p)) \/ Crash
  BY <1>3, ConsoleEnvironment
<1>4. CASE UNCHANGED vars
  BY <1>4 DEF vars, ConsoleInv, HandlesOK, ProcsOK, LineOK, RoutesOK, ReportOK, ShownOK,
        NoneShown, DeviceUp, catalogVars, runtimeVars, guardVars, procVars, routeVars, reqVars
<1>5. QED
  BY <1>1, <1>2, <1>3, <1>4 DEF Next

(* The invariant holds of every state. *)
LEMMA ConsoleInvariant ==
  ASSUME NEW k, Clients = {k}, "abort" \notin Faults
  PROVE  Spec => []ConsoleInv(k)
<1>1. TypeInv /\ ConsoleInv(k) /\ [Next]_vars => ConsoleInv(k)'
  BY ConsoleNext
<1>2. QED
  BY <1>1, ConsoleInit, TypeInvariant, PTL DEF Spec

-----------------------------------------------------------------------------
(* What an idle console sees, and what a disconnect leaves. *)

(* Between requests /api/status, the record of the child, the process and  *)
(* the statuses of the nodes agree and nothing is said to be connecting,   *)
(* whatever process died and whatever command, save, spawn or config write *)
(* has failed.                                                             *)
THEOREM StatusTruthfulHolds ==
  ASSUME NEW k, Clients = {k}, "abort" \notin Faults, "crash" \notin Faults
  PROVE  Spec => []StatusTruthful
<1>1. TypeInv /\ ConsoleInv(k) => StatusTruthful
  BY ConstantsAssumption
     DEF ConsoleInv, HandlesOK, ProcsOK, ReportOK, ShownOK, StatusTruthful, Free, Before,
         Holding, Routing, TypeInv, TypeOK, ConstantsAssumption
<1>2. QED
  BY <1>1, ConsoleInvariant, TypeInvariant, PTL

(* Between requests a tunnel that is up has its route and its rule, or a   *)
(* command of its set-up failed: no other step, no process that died and   *)
(* no route or rule left over takes them away.                             *)
THEOREM RoutedWhenUpHolds ==
  ASSUME NEW k, Clients = {k}, "abort" \notin Faults
  PROVE  Spec => []RoutedWhenUp
<1>1. ConsoleInv(k) => RoutedWhenUp
  BY DEF ConsoleInv, RoutesOK, RoutedWhenUp, Free
<1>2. QED
  BY <1>1, ConsoleInvariant, PTL

(* A disconnect of the one console leaves no process with the tun device.  *)
THEOREM DisconnectStopsHolds ==
  ASSUME NEW k, Clients = {k}, "abort" \notin Faults
  PROVE  Spec => DisconnectStops
<1>1. ASSUME TypeInv, ConsoleInv(k), NEW c \in Clients, StopRuntime(c)
      PROVE  ~DeviceUp'
  BY <1>1, ConstantsAssumption
     DEF StopRuntime, At, procVars, DeviceUp, ConsoleInv, HandlesOK, ProcsOK, Holding,
         Routing, TypeInv, TypeOK, ConstantsAssumption
<1>2. TypeInv /\ ConsoleInv(k) /\ [Next]_vars
        => [\A c \in Clients : StopRuntime(c) /\ target[c] = None => ~DeviceUp']_vars
  BY <1>1
<1>3. QED
  BY <1>2, ConsoleInvariant, TypeInvariant, PTL DEF Spec, DisconnectStops

-----------------------------------------------------------------------------
(* The control plane as a Link: phase and node of the session, by the      *)
(* step the one client has reached.                                        *)

Ready(k) == pc[k] \in Routing \cup Marking
LinkPhase(k) ==
  IF active # None THEN "reported"
  ELSE IF Ready(k) THEN "ready" ELSE IF said # {} THEN "risen" ELSE "down"
LinkNode(k) ==
  IF active # None THEN active ELSE IF Ready(k) \/ said # {} THEN target[k] ELSE None

(* The refinement mapping of Tunnel, spelled out for one client. *)
LEMMA LinkView ==
  ASSUME NEW k, Clients = {k}, TypeInv, ConsoleInv(k)
  PROVE  SessionPhase = LinkPhase(k) /\ SessionNode = LinkNode(k)
<1> USE ConstantsAssumption
    DEF TypeInv, TypeOK, AimOK, Aimed, ConsoleInv, HandlesOK, LineOK, ReportOK, Free, Before,
        Bare, Waiting, Marking, Holding, Routing, Ready, LinkPhase, LinkNode, Reqs, Labels,
        Teardown, Stopping, ConstantsAssumption
<1>1. active = None => (child # None \/ pc[k] \in Routing <=> Ready(k))
  OBVIOUS
<1>2. SessionPhase = LinkPhase(k)
  BY <1>1 DEF SessionPhase
<1>3. active = None /\ (Ready(k) \/ said # {}) => target[k] # None
  OBVIOUS
<1>4. target[k] # None => (CHOOSE c \in Clients : target[c] # None) = k
  OBVIOUS
<1>5. SessionNode = LinkNode(k)
  BY <1>1, <1>2, <1>3, <1>4 DEF SessionNode
<1>6. QED
  BY <1>2, <1>5

(* The same after a step. *)
LEMMA LinkViewNext ==
  ASSUME NEW k, Clients = {k}, TypeInv', ConsoleInv(k)'
  PROVE  SessionPhase' = LinkPhase(k)' /\ SessionNode' = LinkNode(k)'
<1> USE ConstantsAssumption
    DEF TypeInv, TypeOK, AimOK, Aimed, ConsoleInv, HandlesOK, LineOK, ReportOK, Free, Before,
        Bare, Waiting, Marking, Holding, Routing, Ready, LinkPhase, LinkNode, Reqs, Labels,
        Teardown, Stopping, ConstantsAssumption
<1>1. active' = None => (child' # None \/ pc'[k] \in Routing <=> Ready(k)')
  OBVIOUS
<1>2. SessionPhase' = LinkPhase(k)'
  BY <1>1 DEF SessionPhase
<1>3. active' = None /\ (Ready(k)' \/ said' # {}) => target'[k] # None
  OBVIOUS
<1>4. target'[k] # None => (CHOOSE c \in Clients : target'[c] # None) = k
  OBVIOUS
<1>5. SessionNode' = LinkNode(k)'
  BY <1>1, <1>2, <1>3, <1>4 DEF SessionNode
<1>6. QED
  BY <1>2, <1>5

(* What a step of a Link does, said of that view. *)
LinkStep(k) ==
  \/ UNCHANGED <<LinkPhase(k), LinkNode(k), DeviceUp>>
  \/ /\ LinkPhase(k) = "down" /\ ~DeviceUp
     /\ LinkPhase(k)' = "risen" /\ LinkNode(k)' \in Ids /\ DeviceUp'
  \/ /\ LinkPhase(k) = "risen" /\ LinkPhase(k)' = "ready"
     /\ UNCHANGED <<LinkNode(k), DeviceUp>>
  \/ /\ LinkPhase(k) = "risen"
     /\ LinkPhase(k)' = "down" /\ LinkNode(k)' = None /\ ~DeviceUp'
  \/ /\ LinkPhase(k) = "ready" /\ LinkPhase(k)' = "reported"
     /\ UNCHANGED <<LinkNode(k), DeviceUp>>
  \/ /\ DeviceUp /\ ~DeviceUp'
     /\ UNCHANGED <<LinkPhase(k), LinkNode(k)>>
  \/ /\ LinkPhase(k) = "reported" /\ ~DeviceUp
     /\ LinkPhase(k)' = "down" /\ LinkNode(k)' = None /\ UNCHANGED DeviceUp

(* A request that arrives moves no session. *)
LEMMA LinkArrive ==
  ASSUME NEW k, Clients = {k}, TypeInv, ConsoleInv(k), Arrive(k)
  PROVE  LinkStep(k)
<1> USE ConstantsAssumption
    DEF TypeInv, TypeOK, AimOK, Aimed, ConsoleInv, HandlesOK, ProcsOK, LineOK, ReportOK, Free,
        Before, Bare, Waiting, Marking, Holding, Routing, Ready, LinkPhase, LinkNode, DeviceUp,
        Goto, Start, Return, At, runtimeVars, guardVars, procVars, routeVars, reqVars, Reqs,
        ConstantsAssumption
<1>1. CASE \E id \in Ids : Connect(k, id) \/ AutoConnect(k, id) \/ Test(k, id)
  BY <1>1 DEF Connect, AutoConnect, Test, LinkStep
<1>2. CASE Disconnect(k)
  BY <1>2 DEF Disconnect, LinkStep
<1>3. CASE \E S \in Catalogs : Refresh(k, S)
  BY <1>3 DEF Refresh, LinkStep
<1>4. QED
  BY <1>1, <1>2, <1>3 DEF Arrive

(* A teardown loses the tunnel with its kill and withdraws the report at its end. *)
LEMMA LinkStop ==
  ASSUME NEW k, Clients = {k}, TypeInv, ConsoleInv(k), Stop(k)
  PROVE  LinkStep(k)
<1> USE ConstantsAssumption
    DEF TypeInv, TypeOK, AimOK, Aimed, ConsoleInv, HandlesOK, ProcsOK, LineOK, ReportOK, Free,
        Before, Bare, Waiting, Marking, Holding, Routing, Ready, LinkPhase, LinkNode, DeviceUp,
        Goto, Start, Return, At, runtimeVars, guardVars, procVars, routeVars, reqVars, Reqs,
        ConstantsAssumption
<1>1. CASE StopRule(k)
  BY <1>1 DEF StopRule, LinkStep
<1>2. CASE StopRoute(k)
  BY <1>2 DEF StopRoute, LinkStep
<1>3. CASE StopLock(k)
  BY <1>3 DEF StopLock, LinkStep
<1>4. CASE StopKill(k)
  <2>1. /\ pc[k] = "stopKill" /\ pc' = [pc EXCEPT ![k] = "stopClear"]
        /\ UNCHANGED <<child, active, said, target, held>>
    BY <1>4 DEF StopKill
  <2>2. UNCHANGED <<LinkPhase(k), LinkNode(k)>>
    BY <2>1
  <2>3. UNCHANGED proc \/ (child \in Procs /\ proc' = [proc EXCEPT ![child] = "none"])
    BY <1>4 DEF StopKill, EndProc
  <2>4. UNCHANGED DeviceUp \/ (DeviceUp /\ ~DeviceUp')
    BY <2>1, <2>3
  <2>5. QED
    BY <2>2, <2>4 DEF LinkStep
<1>5. CASE StopClear(k)
  BY <1>5 DEF StopClear, LinkStep
<1>6. CASE StopNodes(k)
  BY <1>6 DEF StopNodes, LinkStep
<1>7. CASE StopRuntime(k)
  BY <1>7 DEF StopRuntime, AfterStop, LinkStep
<1>8. QED
  BY <1>1, <1>2, <1>3, <1>4, <1>5, <1>6, <1>7 DEF Stop

(* A connect notices the ready line, and reports or gives up. *)
LEMMA LinkEstablish ==
  ASSUME NEW k, Clients = {k}, TypeInv, ConsoleInv(k), Establish(k)
  PROVE  LinkStep(k)
<1> USE ConstantsAssumption
    DEF TypeInv, TypeOK, AimOK, Aimed, ConsoleInv, HandlesOK, ProcsOK, LineOK, ReportOK, Free,
        Before, Bare, Waiting, Marking, Holding, Routing, Ready, LinkPhase, LinkNode, DeviceUp,
        Goto, Start, Return, At, runtimeVars, guardVars, procVars, routeVars, reqVars, Reqs,
        ConstantsAssumption
<1>1. CASE Announce(k)
  BY <1>1 DEF Announce, LinkStep
<1>2. CASE Lookup(k)
  BY <1>2 DEF Lookup, LinkStep
<1>3. CASE WriteConfig(k)
  BY <1>3 DEF WriteConfig, LinkStep
<1>4. CASE Spawn(k)
  BY <1>4 DEF Spawn, Unused, LinkStep
<1>5. CASE WaitReady(k)
  BY <1>5 DEF WaitReady, LinkStep
<1>6. CASE WaitFail(k)
  BY <1>6 DEF WaitFail, LinkStep
<1>7. CASE Kill(k)
  BY <1>7 DEF Kill, EndProc, LinkStep
<1>8. CASE FailNodes(k)
  BY <1>8 DEF FailNodes, LinkStep
<1>9. CASE FailRuntime(k)
  BY <1>9 DEF FailRuntime, LinkStep
<1>10. CASE SetRule(k)
  BY <1>10 DEF SetRule, LinkStep
<1>11. CASE SetRoute(k)
  BY <1>11 DEF SetRoute, LinkStep
<1>12. CASE AddRoute(k)
  BY <1>12 DEF AddRoute, LinkStep
<1>13. CASE AddRule(k)
  BY <1>13 DEF AddRule, LinkStep
<1>14. CASE Store(k)
  BY <1>14 DEF Store, StoreUnlocked, LinkStep
<1>15. CASE MarkNodes(k)
  BY <1>15 DEF MarkNodes, LinkStep
<1>16. CASE MarkRuntime(k)
  BY <1>16 DEF MarkRuntime, LinkStep
<1>17. QED
  BY <1>1, <1>2, <1>3, <1>4, <1>5, <1>6, <1>7, <1>8, <1>9, <1>10, <1>11, <1>12, <1>13, <1>14, <1>15, <1>16 DEF Establish

(* Tests and refreshes move no session. *)
LEMMA LinkApply ==
  ASSUME NEW k, Clients = {k}, TypeInv, ConsoleInv(k), NEW r \in Reqs,
         \/ Probed(r) \/ ApplyNodes(r) \/ ApplyRuntime(r)
         \/ \E S \in Catalogs : Refresh(r, S)
  PROVE  LinkStep(k)
<1> USE ConstantsAssumption
    DEF TypeInv, TypeOK, AimOK, Aimed, ConsoleInv, HandlesOK, ProcsOK, LineOK, ReportOK, Free,
        Before, Bare, Waiting, Marking, Holding, Routing, Ready, LinkPhase, LinkNode, DeviceUp,
        Goto, Start, Return, At, runtimeVars, guardVars, procVars, routeVars, reqVars, Reqs,
        ConstantsAssumption
<1>1. CASE Probed(r)
  BY <1>1 DEF Probed, LinkStep
<1>2. CASE ApplyNodes(r)
  BY <1>2 DEF ApplyNodes, LinkStep
<1>3. CASE ApplyRuntime(r)
  BY <1>3 DEF ApplyRuntime, LinkStep
<1>4. CASE \E S \in Catalogs : Refresh(r, S)
  BY <1>4 DEF Refresh, LinkStep
<1>5. QED
  BY <1>1, <1>2, <1>3, <1>4

(* The tunnel comes up where there is no session, and may be lost. *)
LEMMA LinkProcess ==
  ASSUME NEW k, Clients = {k}, TypeInv, ConsoleInv(k), NEW p \in Procs, ProcUp(p) \/ ProcExit(p)
  PROVE  LinkStep(k)
<1> USE ConstantsAssumption
    DEF TypeInv, TypeOK, AimOK, Aimed, ConsoleInv, HandlesOK, ProcsOK, LineOK, ReportOK, Free,
        Before, Bare, Waiting, Marking, Holding, Routing, Ready, LinkPhase, LinkNode, DeviceUp,
        Goto, Start, Return, At, runtimeVars, guardVars, procVars, routeVars, reqVars, Reqs,
        ConstantsAssumption
<1>1. CASE ProcUp(p)
  BY <1>1 DEF ProcUp, LinkStep
<1>2. CASE ProcExit(p)
  BY <1>2 DEF ProcExit, EndProc, LinkStep
<1>3. QED
  BY <1>1, <1>2

(* Every step of the control plane is a step of the Link or a stutter. *)
LEMMA LinkNext ==
  ASSUME NEW k, Clients = {k}, "abort" \notin Faults, "crash" \notin Faults,
         TypeInv, ConsoleInv(k), TypeInv', ConsoleInv(k)', [Next]_vars
  PROVE  [Session!Next]_<<SessionPhase, SessionNode, DeviceUp>>
<1>1. LinkStep(k)
  <2>1. CASE Arrive(k) \/ Step(k) \/ Abort(k)
    BY <2>1, LinkArrive, LinkStop, LinkEstablish, LinkApply DEF Step, Abort, Reqs
  <2>2. CASE RefreshLoop
    BY <2>2, LinkApply DEF RefreshLoop, Reqs
  <2>3. CASE \E p \in Procs : ProcUp(p) \/ ProcExit(p)
    BY <2>3, LinkProcess
  <2>4. CASE UNCHANGED vars
    BY <2>4 DEF vars, LinkStep, LinkPhase, LinkNode, Ready, DeviceUp, runtimeVars, procVars,
          reqVars
  <2>5. QED
    BY <2>1, <2>2, <2>3, <2>4 DEF Next, Crash
<1>2. /\ SessionPhase = LinkPhase(k) /\ SessionNode = LinkNode(k)
      /\ SessionPhase' = LinkPhase(k)' /\ SessionNode' = LinkNode(k)'
  BY LinkView, LinkViewNext
<1>3. DeviceUp \in BOOLEAN /\ DeviceUp' \in BOOLEAN
  BY DEF DeviceUp
<1>4. QED
  BY <1>1, <1>2, <1>3
     DEF LinkStep, Session!Next, Session!Rise, Session!Ready, Session!GiveUp, Session!Report,
         Session!Lose, Session!Withdraw

(* For one console the whole control plane implements Link: what Gateway   *)
(* assumes of a session is what connect_node and stop_openvpn do.          *)
THEOREM OneLinkHolds ==
  ASSUME NEW k, Clients = {k}, "abort" \notin Faults, "crash" \notin Faults
  PROVE  Spec => OneLink
<1>1. ASSUME Init PROVE Session!Init
  <2>1. SessionPhase = "down"
    BY <1>1 DEF Init, SessionPhase, Routing, Reqs
  <2>2. SessionNode = None
    BY <2>1 DEF SessionNode
  <2>3. DeviceUp = FALSE
    BY <1>1 DEF Init, DeviceUp
  <2>4. QED
    BY <2>1, <2>2, <2>3 DEF Session!Init
<1>2. TypeInv /\ ConsoleInv(k) /\ TypeInv' /\ ConsoleInv(k)' /\ [Next]_vars
        => [Session!Next]_<<SessionPhase, SessionNode, DeviceUp>>
  BY LinkNext
<1>3. QED
  BY <1>1, <1>2, ConsoleInvariant, TypeInvariant, PTL
     DEF Spec, OneLink, Session!Spec, Session!vars

=============================================================================
