------------------------------- MODULE Tunnel -------------------------------
(***************************************************************************)
(* The control plane of VPNGate Link: the request handlers of server.rs    *)
(* that reach connect_node and stop_openvpn (openvpn.rs), catalog refresh  *)
(* and reachability tests, over the shared AppState (store.rs) and the     *)
(* operating system they drive: openvpn processes, the one tun device and  *)
(* policy-routing table 100.                                               *)
(*                                                                         *)
(* A handler is an async task on a multi-threaded runtime.  It is modelled *)
(* as a program counter whose steps are the stretches between awaits that  *)
(* other tasks can observe.  An RwLock section that writes memory and then *)
(* saves the file is one step: nobody sees between the two, and a crash    *)
(* between them loses the memory anyway.  Logging and the texts of         *)
(* last_message are left out, and so is state.json, which is never read.   *)
(***************************************************************************)
EXTENDS Naturals, FiniteSets

CONSTANTS
  Entries,    \* list entries the upstream catalog may make
  Ids, IdOf,  \* node ids; the id of each entry, which entries may share
  Udp,        \* the ids whose proto is udp
  Favorites,  \* settings.favorite_node_ids
  Catalogs,   \* the entries a fetch may return; none at all is an error
  Clients,    \* concurrent HTTP requests (one slot runs one at a time)
  Background, \* the refresh loop of main
  Procs,      \* openvpn processes
  None,       \* Rust's Option::None
  Ops,        \* endpoints the clients of a run call
  Faults      \* what may go wrong in a run

ASSUME ConstantsAssumption ==
  /\ IsFiniteSet(Entries) /\ IdOf \in [Entries -> Ids]
  /\ Udp \subseteq Ids /\ Favorites \subseteq Ids
  /\ Catalogs \subseteq (SUBSET Entries) \ {{}}
  /\ Background \notin Clients
  /\ None \notin Ids \cup Procs \cup Clients \cup {Background}
  /\ Ops \subseteq {"connect", "auto", "disconnect", "refresh", "test"}
  /\ Faults \subseteq {"abort", "crash", "exit", "save", "io", "spawn", "route"}

Reqs == Clients \cup {Background}

VARIABLES
  nodes, saved,               \* state.nodes by entry; nodes.json
  active, connecting, count,  \* state.runtime
  mutex, child, config,       \* state.openvpn: its lock's owner and contents
  proc, host, said,           \* openvpn processes: state, node, unread ready line
  rule, route,                \* "ip rule" and default route of table 100
  unrouted,                   \* the last set-up of the two ended in an error
  pc, target, held, fresh     \* per request: step, node id, Child, fetched list

catalogVars == <<nodes, saved>>
runtimeVars == <<active, connecting, count>>
guardVars   == <<mutex, child, config>>
procVars    == <<proc, host, said>>
routeVars   == <<rule, route, unrouted>>
reqVars     == <<pc, target, held, fresh>>
vars == <<catalogVars, runtimeVars, guardVars, procVars, routeVars, reqVars>>

Status == {"absent", "new", "available", "failed", "active"}

Listed(ns) == {n \in Entries : ns[n] # "absent"}
Named(ns, id) == {n \in Listed(ns) : IdOf[n] = id}

(* stop_openvpn: every active node goes back to new. *)
Deactivate(ns) == [n \in Entries |-> IF ns[n] = "active" THEN "new" ELSE ns[n]]

(* connect_node on success: mark every entry with the id, and no other.    *)
Marked(ns, id) == [n \in Entries |-> IF n \in Named(ns, id) THEN "active" ELSE ns[n]]
ActivateToo(ns, id) == Marked(ns, id)  \* leaves the others as they were
Activate(ns, id) == Marked(Deactivate(ns), id)

(* A status set as one sets a map's: a node that is gone is back.          *)
SetStatusAnyway(ns, id, s) ==
  {[ns EXCEPT ![n] = s] : n \in {m \in Entries : IdOf[m] = id}}

(* "find" takes the first entry with the id, if one is still listed: any   *)
(* of them, the order of the list being left open.                         *)
SetStatus(ns, id, s) ==
  {[ns EXCEPT ![n] = s] : n \in Named(ns, id)} \cup {m \in {ns} : Named(ns, id) = {}}

(* A fetched catalog with favorites marked, as do_refresh stores it. *)
FreshNodes(S) ==
  [n \in Entries |-> IF n \notin S THEN "absent"
                     ELSE IF IdOf[n] \in Favorites THEN "available" ELSE "new"]

Init ==
  /\ nodes = FreshNodes({}) /\ saved = FreshNodes({})
  /\ active = None /\ connecting = FALSE /\ count = 0
  /\ mutex = None /\ child = None /\ config = None
  /\ proc = [p \in Procs |-> "none"] /\ host = [p \in Procs |-> None] /\ said = {}
  /\ rule = FALSE /\ route = FALSE /\ unrouted = FALSE
  /\ pc = [r \in Reqs |-> "idle"] /\ target = [r \in Reqs |-> None]
  /\ held = [r \in Reqs |-> None] /\ fresh = [r \in Reqs |-> {}]

-----------------------------------------------------------------------------
(* Request bookkeeping. *)

Goto(r, l) == pc' = [pc EXCEPT ![r] = l] /\ UNCHANGED <<target, held, fresh>>

Start(r, l, id) ==
  /\ pc[r] = "idle"
  /\ pc' = [pc EXCEPT ![r] = l] /\ target' = [target EXCEPT ![r] = id]
  /\ UNCHANGED <<held, fresh>>

Return(r) ==
  /\ pc' = [pc EXCEPT ![r] = "idle"] /\ target' = [target EXCEPT ![r] = None]
  /\ held' = [held EXCEPT ![r] = None] /\ fresh' = [fresh EXCEPT ![r] = {}]

At(r, l) == pc[r] = l

(* write_json_atomic(nodes.json) under the nodes lock.  Its error is       *)
(* swallowed; a handler dropped inside it leaves the file as it was too.   *)
Saved == saved' = nodes'
NotSaved == "save" \in Faults /\ UNCHANGED saved

(* The process is gone, and with it the tun device it held and the route   *)
(* through that device.                                                    *)
EndProc(p) ==
  /\ proc' = [proc EXCEPT ![p] = "none"] /\ host' = [host EXCEPT ![p] = None]
  /\ route' = IF proc[p] = "up" THEN FALSE ELSE route

-----------------------------------------------------------------------------
(* Requests arrive. *)

Connect(c, id) ==
  /\ "connect" \in Ops
  /\ Start(c, "announce", id)
  /\ UNCHANGED <<catalogVars, runtimeVars, guardVars, procVars, routeVars>>

(* select_node never offers a failed node.  Which of the others it picks   *)
(* is the routing policy, left open here.                                  *)
AutoConnect(c, id) ==
  /\ "auto" \in Ops
  /\ \E n \in Named(nodes, id) : nodes[n] # "failed"
  /\ Start(c, "announce", id)
  /\ UNCHANGED <<catalogVars, runtimeVars, guardVars, procVars, routeVars>>

Disconnect(c) ==
  /\ "disconnect" \in Ops
  /\ Start(c, "stopRule", None)
  /\ UNCHANGED <<catalogVars, runtimeVars, guardVars, procVars, routeVars>>

(* A test of a udp node answers at once and changes nothing; one of a tcp  *)
(* node probes for up to five seconds with no lock held.                   *)
Test(c, id) ==
  /\ "test" \in Ops
  /\ Named(nodes, id) # {} /\ id \notin Udp
  /\ Start(c, "probe", id)
  /\ UNCHANGED <<catalogVars, runtimeVars, guardVars, procVars, routeVars>>

(* The fetch has succeeded; one that fails returns with nothing changed.   *)
Refresh(r, S) ==
  /\ r = Background \/ "refresh" \in Ops
  /\ pc[r] = "idle"
  /\ pc' = [pc EXCEPT ![r] = "applyNodes"] /\ fresh' = [fresh EXCEPT ![r] = S]
  /\ UNCHANGED <<target, held>>
  /\ UNCHANGED <<catalogVars, runtimeVars, guardVars, procVars, routeVars>>

-----------------------------------------------------------------------------
(* connect_node up to its call of stop_openvpn. *)

Announce(c) ==
  /\ At(c, "announce")
  /\ connecting' = TRUE
  /\ Goto(c, "stopRule")
  /\ UNCHANGED <<catalogVars, active, count, guardVars, procVars, routeVars>>

(* stop_openvpn: cleanup_policy_routing, then the rest under the lock.     *)

(* An "ip" command that only deletes; its failure is not looked at.        *)
Deleted(old) == {FALSE} \cup {b \in {old} : "route" \in Faults}

StopRule(c) ==
  /\ At(c, "stopRule")
  /\ rule' \in Deleted(rule)
  /\ Goto(c, "stopRoute")
  /\ UNCHANGED <<catalogVars, runtimeVars, guardVars, procVars, route, unrouted>>

StopRoute(c) ==
  /\ At(c, "stopRoute")
  /\ route' \in Deleted(route)
  /\ Goto(c, "stopLock")
  /\ UNCHANGED <<catalogVars, runtimeVars, guardVars, procVars, rule, unrouted>>

StopLock(c) ==
  /\ At(c, "stopLock")
  /\ mutex = None
  /\ mutex' = c
  /\ Goto(c, "stopKill")
  /\ UNCHANGED <<catalogVars, runtimeVars, child, config, procVars, routeVars>>

(* The handle taken and dropped, without the kill. *)
StopKillDropped(c) ==
  /\ At(c, "stopKill")
  /\ Goto(c, "stopClear")
  /\ UNCHANGED <<catalogVars, runtimeVars, guardVars, procVars, routeVars>>

(* child.kill() kills and reaps; killing a process that has already exited *)
(* changes nothing.                                                        *)
StopKill(c) ==
  /\ At(c, "stopKill")
  /\ \/ /\ child # None
        /\ EndProc(child)
     \/ /\ child = None
        /\ UNCHANGED <<proc, host, route>>
  /\ Goto(c, "stopClear")
  /\ UNCHANGED <<catalogVars, runtimeVars, guardVars, said, rule, unrouted>>

StopClear(c) ==
  /\ At(c, "stopClear")
  /\ config' = None /\ child' = None
  /\ Goto(c, "stopNodes")
  /\ UNCHANGED <<catalogVars, runtimeVars, mutex, procVars, routeVars>>

StopNodes(c) ==
  /\ At(c, "stopNodes")
  /\ nodes' = Deactivate(nodes)
  /\ Saved \/ NotSaved
  /\ Goto(c, "stopRuntime")
  /\ UNCHANGED <<runtimeVars, guardVars, procVars, routeVars>>

AfterStop(c) == IF target[c] = None THEN Return(c) ELSE Goto(c, "lookup")

(* A teardown that leaves the report as it was: a slip in the reset.       *)
StopRuntimeKeepsActive(c) ==
  /\ At(c, "stopRuntime")
  /\ connecting' = FALSE
  /\ mutex' = None
  /\ AfterStop(c)
  /\ UNCHANGED <<catalogVars, active, count, child, config, procVars, routeVars>>

(* The guard lives to the end of the function, so the lock goes last.      *)
StopRuntime(c) ==
  /\ At(c, "stopRuntime")
  /\ active' = None /\ connecting' = FALSE
  /\ mutex' = None
  /\ AfterStop(c)
  /\ UNCHANGED <<catalogVars, count, child, config, procVars, routeVars>>

-----------------------------------------------------------------------------
(* connect_node from the lookup on. *)

Lookup(c) ==
  /\ At(c, "lookup")
  /\ IF Named(nodes, target[c]) = {} THEN Return(c) ELSE Goto(c, "writeConfig")
  /\ UNCHANGED <<catalogVars, runtimeVars, guardVars, procVars, routeVars>>

WriteConfig(c) ==
  /\ At(c, "writeConfig")
  /\ \/ Goto(c, "spawn")
     \/ "io" \in Faults /\ Return(c)
  /\ UNCHANGED <<catalogVars, runtimeVars, guardVars, procVars, routeVars>>

Unused(p) == proc[p] = "none" /\ child # p /\ \A r \in Reqs : held[r] # p

Spawn(c) ==
  /\ At(c, "spawn")
  /\ \/ \E p \in Procs :
          /\ Unused(p)
          /\ proc' = [proc EXCEPT ![p] = "starting"]
          /\ host' = [host EXCEPT ![p] = target[c]]
          /\ held' = [held EXCEPT ![c] = p]
          /\ pc' = [pc EXCEPT ![c] = "wait"]
     \/ /\ "spawn" \in Faults
        /\ pc' = [pc EXCEPT ![c] = "failNodes"]
        /\ UNCHANGED <<proc, host, held>>
  /\ UNCHANGED <<catalogVars, runtimeVars, guardVars, said, routeVars, target, fresh>>

(* The ready line is read.  It may be read after the process has died.     *)
WaitReady(c) ==
  /\ At(c, "wait")
  /\ held[c] \in said
  /\ said' = said \ {held[c]}
  /\ Goto(c, "setRule")
  /\ UNCHANGED <<catalogVars, runtimeVars, guardVars, proc, host, routeVars>>

(* Without the timeout only the end of the output gives up. *)
WaitFailNoTimeout(c) ==
  /\ At(c, "wait")
  /\ proc[held[c]] = "none" /\ held[c] \notin said
  /\ Goto(c, "kill")
  /\ UNCHANGED <<catalogVars, runtimeVars, guardVars, procVars, routeVars>>

(* A fatal line, end of output or the timeout, which may fire at any time, *)
(* a ready line that has not been polled yet notwithstanding.              *)
WaitFail(c) ==
  /\ At(c, "wait")
  /\ Goto(c, "kill")
  /\ UNCHANGED <<catalogVars, runtimeVars, guardVars, procVars, routeVars>>

(* The handle dropped without the kill: tokio leaves the process running.  *)
KillDropsOnly(c) ==
  /\ At(c, "kill")
  /\ said' = said \ {held[c]}
  /\ held' = [held EXCEPT ![c] = None] /\ pc' = [pc EXCEPT ![c] = "failNodes"]
  /\ UNCHANGED <<catalogVars, runtimeVars, guardVars, proc, host, routeVars, target, fresh>>

Kill(c) ==
  /\ At(c, "kill")
  /\ EndProc(held[c]) /\ said' = said \ {held[c]}
  /\ held' = [held EXCEPT ![c] = None] /\ pc' = [pc EXCEPT ![c] = "failNodes"]
  /\ UNCHANGED <<catalogVars, runtimeVars, guardVars, rule, unrouted, target, fresh>>

(* mark_failed *)

FailNodes(c) ==
  /\ At(c, "failNodes")
  /\ nodes' \in SetStatus(nodes, target[c], "failed")
  /\ Saved \/ NotSaved
  /\ Goto(c, "failRuntime")
  /\ UNCHANGED <<runtimeVars, guardVars, procVars, routeVars>>

(* The failed node taken out of the count, down through zero. *)
FailRuntimeUncounts(c) ==
  /\ At(c, "failRuntime")
  /\ active' = None /\ connecting' = FALSE /\ count' = count - 1
  /\ Return(c)
  /\ UNCHANGED <<catalogVars, guardVars, procVars, routeVars>>

FailRuntime(c) ==
  /\ At(c, "failRuntime")
  /\ active' = None /\ connecting' = FALSE
  /\ Return(c)
  /\ UNCHANGED <<catalogVars, count, guardVars, procVars, routeVars>>

(* setup_policy_routing.  The first of its two required commands that      *)
(* fails ends it; connect_node ignores the error.                          *)

SetRule(c) ==
  /\ At(c, "setRule")
  /\ rule' \in Deleted(rule) /\ unrouted' = FALSE
  /\ Goto(c, "setRoute")
  /\ UNCHANGED <<catalogVars, runtimeVars, guardVars, procVars, route>>

SetRoute(c) ==
  /\ At(c, "setRoute")
  /\ route' \in Deleted(route)
  /\ Goto(c, "addRoute")
  /\ UNCHANGED <<catalogVars, runtimeVars, guardVars, procVars, rule, unrouted>>

DeviceUp == \E p \in Procs : proc[p] = "up"

(* The kernel refuses a route without its device or beside the same route, *)
(* and the command may fail on its own account: no "ip", no permission.    *)
AddRoute(c) ==
  /\ At(c, "addRoute")
  /\ \/ /\ DeviceUp /\ ~route
        /\ route' = TRUE
        /\ Goto(c, "addRule")
        /\ UNCHANGED unrouted
     \/ /\ ~DeviceUp \/ route \/ "route" \in Faults
        /\ unrouted' = TRUE
        /\ Goto(c, "store")
        /\ UNCHANGED route
  /\ UNCHANGED <<catalogVars, runtimeVars, guardVars, procVars, rule>>

(* "ip rule del" once more where "ip rule add" belongs. *)
AddRuleDeletes(c) ==
  /\ At(c, "addRule")
  /\ rule' = FALSE
  /\ Goto(c, "store")
  /\ UNCHANGED <<catalogVars, runtimeVars, guardVars, procVars, route, unrouted>>

AddRule(c) ==
  /\ At(c, "addRule")
  /\ \/ /\ ~rule
        /\ rule' = TRUE
        /\ UNCHANGED unrouted
     \/ /\ rule \/ "route" \in Faults
        /\ unrouted' = TRUE
        /\ UNCHANGED rule
  /\ Goto(c, "store")
  /\ UNCHANGED <<catalogVars, runtimeVars, guardVars, procVars, route>>

(* The handle moves into state.openvpn.  Assignment drops a handle that is *)
(* there already, without killing its process.                             *)
StoreUnlocked(c) ==
  /\ At(c, "store")
  /\ child' = held[c] /\ config' = target[c]
  /\ held' = [held EXCEPT ![c] = None] /\ pc' = [pc EXCEPT ![c] = "markNodes"]
  /\ UNCHANGED <<catalogVars, runtimeVars, mutex, procVars, routeVars, target, fresh>>

Store(c) ==
  /\ mutex = None
  /\ StoreUnlocked(c)

MarkNodes(c) ==
  /\ At(c, "markNodes")
  /\ nodes' = Activate(nodes, target[c])
  /\ Saved \/ NotSaved
  /\ Goto(c, "markRuntime")
  /\ UNCHANGED <<runtimeVars, guardVars, procVars, routeVars>>

MarkRuntime(c) ==
  /\ At(c, "markRuntime")
  /\ active' = target[c] /\ connecting' = FALSE
  /\ Return(c)
  /\ UNCHANGED <<catalogVars, count, guardVars, procVars, routeVars>>

-----------------------------------------------------------------------------
(* do_test_node and do_refresh after their network call. *)

Probed(c) ==
  /\ At(c, "probe")
  /\ \E s \in {"available", "failed"} : nodes' \in SetStatus(nodes, target[c], s)
  /\ Saved \/ NotSaved
  /\ Return(c)
  /\ UNCHANGED <<runtimeVars, guardVars, procVars, routeVars>>

ApplyNodes(r) ==
  /\ At(r, "applyNodes")
  /\ nodes' = FreshNodes(fresh[r])
  /\ \/ Saved /\ Goto(r, "applyRuntime")
     \/ NotSaved /\ Return(r)
  /\ UNCHANGED <<runtimeVars, guardVars, procVars, routeVars>>

ApplyRuntime(r) ==
  /\ At(r, "applyRuntime")
  /\ count' = Cardinality(fresh[r])
  /\ Return(r)
  /\ UNCHANGED <<catalogVars, active, connecting, guardVars, procVars, routeVars>>

-----------------------------------------------------------------------------
(* The environment. *)

(* openvpn opens the tun device, which only one process can hold, and      *)
(* prints the ready line; nobody reads it once the pipe's end is dropped.  *)
ProcUp(p) ==
  /\ proc[p] = "starting"
  /\ ~DeviceUp
  /\ proc' = [proc EXCEPT ![p] = "up"]
  /\ said' = IF \E c \in Clients : held[c] = p THEN said \cup {p} ELSE said
  /\ UNCHANGED <<catalogVars, runtimeVars, guardVars, host, routeVars, reqVars>>

(* A process that cannot connect gives up; an established one may die.     *)
ProcExit(p) ==
  /\ proc[p] = "starting" \/ (proc[p] = "up" /\ "exit" \in Faults)
  /\ EndProc(p)
  /\ UNCHANGED <<catalogVars, runtimeVars, guardVars, said, rule, unrouted, reqVars>>

(* The client goes away: hyper drops the handler at the await it stands    *)
(* at.  Dropping releases the lock but does not kill a Child.              *)
Abort(c) ==
  /\ "abort" \in Faults
  /\ pc[c] # "idle"
  /\ Return(c)
  /\ mutex' = IF mutex = c THEN None ELSE mutex
  /\ said' = said \ {held[c]}
  /\ UNCHANGED <<catalogVars, runtimeVars, child, config, proc, host, routeVars>>

(* The service dies and systemd restarts it: the whole control group is    *)
(* killed, main loads nodes.json, the rule stays in the kernel.            *)
Crash ==
  /\ "crash" \in Faults
  /\ nodes' = saved /\ UNCHANGED saved
  /\ active' = None /\ connecting' = FALSE /\ count' = Cardinality(Listed(saved))
  /\ mutex' = None /\ child' = None /\ config' = None
  /\ proc' = [p \in Procs |-> "none"] /\ host' = [p \in Procs |-> None] /\ said' = {}
  /\ route' = FALSE
  /\ pc' = [r \in Reqs |-> "idle"] /\ target' = [r \in Reqs |-> None]
  /\ held' = [r \in Reqs |-> None] /\ fresh' = [r \in Reqs |-> {}]
  /\ UNCHANGED <<rule, unrouted>>

-----------------------------------------------------------------------------

Arrive(c) ==
  \/ \E id \in Ids : Connect(c, id) \/ AutoConnect(c, id) \/ Test(c, id)
  \/ Disconnect(c)
  \/ \E S \in Catalogs : Refresh(c, S)

Stop(c) ==
  \/ StopRule(c) \/ StopRoute(c) \/ StopLock(c) \/ StopKill(c)
  \/ StopClear(c) \/ StopNodes(c) \/ StopRuntime(c)

Establish(c) ==
  \/ Announce(c) \/ Lookup(c) \/ WriteConfig(c) \/ Spawn(c)
  \/ WaitReady(c) \/ WaitFail(c) \/ Kill(c) \/ FailNodes(c) \/ FailRuntime(c)
  \/ SetRule(c) \/ SetRoute(c) \/ AddRoute(c) \/ AddRule(c)
  \/ Store(c) \/ MarkNodes(c) \/ MarkRuntime(c)

Step(c) == Stop(c) \/ Establish(c) \/ Probed(c) \/ ApplyNodes(c) \/ ApplyRuntime(c)

RefreshLoop ==
  \/ \E S \in Catalogs : Refresh(Background, S)
  \/ ApplyNodes(Background) \/ ApplyRuntime(Background)

Next ==
  \/ \E c \in Clients : Arrive(c) \/ Step(c) \/ Abort(c)
  \/ RefreshLoop
  \/ \E p \in Procs : ProcUp(p) \/ ProcExit(p)
  \/ Crash

Spec == Init /\ [][Next]_vars

(* Every handler keeps running; tokio's Mutex serves its waiters in order, *)
(* so a request that waits for the lock gets it.                           *)
Fairness ==
  \A c \in Clients : WF_vars(Step(c)) /\ SF_vars(StopLock(c)) /\ SF_vars(Store(c))

FairSpec == Spec /\ Fairness

-----------------------------------------------------------------------------
(* Properties. *)

Stopping == {"stopKill", "stopClear", "stopNodes", "stopRuntime"}
Teardown == {"stopRule", "stopRoute", "stopLock"} \cup Stopping
Labels == Teardown \cup
  {"idle", "announce", "lookup", "writeConfig", "spawn", "wait", "kill",
   "failNodes", "failRuntime", "setRule", "setRoute", "addRoute", "addRule",
   "store", "markNodes", "markRuntime", "probe", "applyNodes", "applyRuntime"}

TypeOK ==
  /\ nodes \in [Entries -> Status] /\ saved \in [Entries -> Status]
  /\ active \in Ids \cup {None} /\ connecting \in BOOLEAN /\ count \in Nat
  /\ mutex \in Clients \cup {None}
  /\ child \in Procs \cup {None} /\ config \in Ids \cup {None}
  /\ proc \in [Procs -> {"none", "starting", "up"}]
  /\ host \in [Procs -> Ids \cup {None}] /\ said \subseteq Procs
  /\ rule \in BOOLEAN /\ route \in BOOLEAN /\ unrouted \in BOOLEAN
  /\ pc \in [Reqs -> Labels] /\ target \in [Reqs -> Ids \cup {None}]
  /\ held \in [Reqs -> Procs \cup {None}] /\ fresh \in [Reqs -> SUBSET Entries]

(* The catalog never shows two ids active, in memory or in the file that   *)
(* survives a crash, however connects, teardowns, refreshes and tests      *)
(* interleave and wherever they are cut off.  Entries that share an id are *)
(* shown active together.                                                  *)
OneActive ==
  \A m, n \in Entries :
    /\ nodes[m] = "active" /\ nodes[n] = "active" => IdOf[m] = IdOf[n]
    /\ saved[m] = "active" /\ saved[n] = "active" => IdOf[m] = IdOf[n]

(* A teardown forgets only a process it has seen die: between its kill and *)
(* the reset of the handle no connect slips another child in, and the      *)
(* record is still empty when the teardown rewrites statuses and report.   *)
TeardownAtomic ==
  \A c \in Clients :
    /\ pc[c] = "stopClear" /\ child # None => proc[child] = "none"
    /\ pc[c] \in {"stopNodes", "stopRuntime"} => child = None /\ config = None

(* A running openvpn process that somebody can still kill, because it is   *)
(* recorded in state.openvpn or held by a connect in flight, stays so.     *)
(* Only two things lose one, and both leave it running: a handler dropped  *)
(* while it holds the Child, and a connect that stores its own Child over  *)
(* another's.  No failure path, teardown, timeout or crash does.           *)
Owned(p) == child = p \/ \E c \in Clients : held[c] = p
OwnersKept ==
  [][\A p \in Procs : proc[p] # "none" /\ Owned(p) /\ proc'[p] # "none" =>
       \/ Owned(p)'
       \/ \E c \in Clients : held[c] = p /\ Abort(c)
       \/ \E c \in Clients : child = p /\ Store(c)]_vars

(* node_count in /api/status and the list in /api/nodes part only in a     *)
(* refresh, which writes the one and then the other: no connect, test,     *)
(* teardown or restart, and no failing save of theirs, parts them.         *)
CountAgrees == count = Cardinality(Listed(nodes))
CountKept ==
  [][CountAgrees => CountAgrees' \/ \E r \in Reqs : ApplyNodes(r) \/ ApplyRuntime(r)]_vars

(* While the console has no request in flight, /api/status, the record of  *)
(* the child and the process agree: nothing is connecting any more, a      *)
(* reported node is the recorded one, nothing runs unreported, and no      *)
(* other node is shown active.                                             *)
StatusTruthful ==
  (\A c \in Clients : pc[c] = "idle") =>
    /\ ~connecting /\ active = config
    /\ active = None <=> child = None
    /\ \A p \in Procs : proc[p] # "none" => p = child /\ host[p] = active
    /\ \A n \in Entries : nodes[n] = "active" => IdOf[n] = active

(* While the console has no request in flight, a tunnel that is up has     *)
(* both its route and its rule, unless a command of its set-up failed, in  *)
(* which case connect_node has reported it connected all the same.         *)
RoutedWhenUp ==
  (\A c \in Clients : pc[c] = "idle") /\ DeviceUp /\ ~unrouted => rule /\ route

(* A disconnect that returns leaves no process with the tun device: the    *)
(* session is stopped.                                                     *)
DisconnectStops ==
  [][\A c \in Clients : StopRuntime(c) /\ target[c] = None => ~DeviceUp']_vars

(* The session as one operator sees it: reported, or ready and on its way  *)
(* to the report, or up with its ready line unread.                        *)
Routing == {"setRule", "setRoute", "addRoute", "addRule", "store"}
SessionPhase ==
  IF active # None THEN "reported"
  ELSE IF child # None \/ \E c \in Clients : pc[c] \in Routing THEN "ready"
  ELSE IF said # {} THEN "risen"
  ELSE "down"
SessionNode ==
  CASE SessionPhase = "down" -> None
    [] SessionPhase = "reported" -> active
    [] OTHER -> target[CHOOSE c \in Clients : target[c] # None]

Session == INSTANCE Link WITH phase <- SessionPhase, node <- SessionNode, alive <- DeviceUp

(* For one client at a time the whole control plane, with every step of    *)
(* connect_node and stop_openvpn, is one Link: a tunnel never comes up     *)
(* beside a session, a node is reported only after its tunnel was ready,   *)
(* and a report outlives its tunnel only until the next request.           *)
OneLink == Session!Spec

(* While a connect waits for openvpn the status says so.                   *)
ConnectingShown == \A c \in Clients : pc[c] = "wait" => connecting

(* Every request is answered: no lock is waited for forever and no silent  *)
(* openvpn holds a connect back.                                           *)
RequestsReturn == \A c \in Clients : pc[c] # "idle" ~> pc[c] = "idle"
=============================================================================
