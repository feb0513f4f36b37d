--------------------------- MODULE TunnelSessions ---------------------------
(***************************************************************************)
(* Who can still kill an openvpn process of Tunnel, for any number of      *)
(* clients and with every fault.                                           *)
(***************************************************************************)
EXTENDS TunnelProofs

(* The steps of a connect with its Child in a local variable.              *)
Holding == {"wait", "kill"} \cup Routing

HeldOK == \A c \in Clients : held[c] # None => pc[c] \in Holding

OwnersInv == TypeInv /\ LockInv /\ HeldOK

-----------------------------------------------------------------------------
(* Nobody holds anything at the start. *)
LEMMA HeldInit == Init => HeldOK
BY DEF Init, HeldOK, Reqs

(* What one step of a request does to the Child it holds and to the one    *)
(* recorded: it keeps both, takes a new one, kills what it drops, forgets  *)
(* a record, or moves its Child into it.                                   *)
Keeps(r) ==
  /\ UNCHANGED child
  /\ \A c \in Clients : held'[c] = held[c]
Takes(r) ==
  /\ UNCHANGED child /\ held[r] = None /\ pc'[r] \in Holding
  /\ \A c \in Clients \ {r} : held'[c] = held[c]
Kills(r) ==
  /\ UNCHANGED child /\ held'[r] = None
  /\ \A p \in Procs : p = held[r] => proc'[p] = "none"
  /\ \A c \in Clients \ {r} : held'[c] = held[c]
Forgets(r) ==
  /\ child' = None /\ UNCHANGED proc
  /\ child # None => proc[child] = "none"
  /\ \A c \in Clients : held'[c] = held[c]
Moves(r) ==
  /\ r \in Clients /\ Store(r) /\ child' = held[r] /\ held'[r] = None
  /\ \A c \in Clients \ {r} : held'[c] = held[c]
Careful(r) ==
  /\ Keeps(r) \/ Takes(r) \/ Kills(r) \/ Forgets(r) \/ Moves(r)
  /\ \A c \in Clients \ {r} : pc'[c] = pc[c]
  /\ r \in Clients /\ held'[r] # None => pc'[r] \in Holding

(* A request that arrives holds nothing. *)
LEMMA ArriveCareful ==
  ASSUME OwnersInv, NEW c \in Clients, Arrive(c)
  PROVE  Careful(c)
<1> USE DEF OwnersInv, TypeInv, TypeOK, HeldOK, Holding, Routing, Careful, Keeps, Reqs, Start,
        guardVars
<1>1. CASE \E id \in Ids : Connect(c, id) \/ AutoConnect(c, id) \/ Test(c, id)
  BY <1>1 DEF Connect, AutoConnect, Test
<1>2. CASE Disconnect(c)
  BY <1>2 DEF Disconnect
<1>3. CASE \E S \in Catalogs : Refresh(c, S)
  BY <1>3 DEF Refresh
<1>4. QED
  BY <1>1, <1>2, <1>3 DEF Arrive

(* A teardown forgets a dead process. *)
LEMMA StopCareful ==
  ASSUME OwnersInv, NEW c \in Clients, Stop(c)
  PROVE  Careful(c)
<1> USE ConstantsAssumption
    DEF OwnersInv, TypeInv, TypeOK, HeldOK, Holding, Routing, Careful, Keeps, Forgets, Reqs,
        Goto, Return, At, guardVars, procVars, ConstantsAssumption
<1>1. CASE StopRule(c)
  BY <1>1 DEF StopRule
<1>2. CASE StopRoute(c)
  BY <1>2 DEF StopRoute
<1>3. CASE StopLock(c)
  BY <1>3 DEF StopLock
<1>4. CASE StopKill(c)
  BY <1>4 DEF StopKill
<1>5. CASE StopClear(c)
  BY <1>5 DEF StopClear, LockInv, TeardownAtomic
<1>6. CASE StopNodes(c)
  BY <1>6 DEF StopNodes
<1>7. CASE StopRuntime(c)
  BY <1>7 DEF StopRuntime, AfterStop
<1>8. QED
  BY <1>1, <1>2, <1>3, <1>4, <1>5, <1>6, <1>7 DEF Stop

(* A connect takes a process when it holds none, and kills or stores it. *)
LEMMA EstablishCareful ==
  ASSUME OwnersInv, NEW c \in Clients, Establish(c)
  PROVE  Careful(c)
<1> USE ConstantsAssumption
    DEF OwnersInv, TypeInv, TypeOK, HeldOK, Holding, Routing, Careful, Keeps, Takes, Kills,
        Moves, Reqs, Goto, Return, At, guardVars, procVars, ConstantsAssumption
<1>1. CASE Announce(c)
  BY <1>1 DEF Announce
<1>2. CASE Lookup(c)
  BY <1>2 DEF Lookup
<1>3. CASE WriteConfig(c)
  BY <1>3 DEF WriteConfig
<1>4. CASE Spawn(c)
  BY <1>4 DEF Spawn, Unused
<1>5. CASE WaitReady(c)
  BY <1>5 DEF WaitReady
<1>6. CASE WaitFail(c)
  BY <1>6 DEF WaitFail
<1>7. CASE Kill(c)
  BY <1>7 DEF Kill, EndProc
<1>8. CASE FailNodes(c)
  BY <1>8 DEF FailNodes
<1>9. CASE FailRuntime(c)
  BY <1>9 DEF FailRuntime
<1>10. CASE SetRule(c)
  BY <1>10 DEF SetRule
<1>11. CASE SetRoute(c)
  BY <1>11 DEF SetRoute
<1>12. CASE AddRoute(c)
  BY <1>12 DEF AddRoute
<1>13. CASE AddRule(c)
  BY <1>13 DEF AddRule
<1>14. CASE Store(c)
  BY <1>14 DEF Store, StoreUnlocked
<1>15. CASE MarkNodes(c)
  BY <1>15 DEF MarkNodes
<1>16. CASE MarkRuntime(c)
  BY <1>16 DEF MarkRuntime
<1>17. QED
  BY <1>1, <1>2, <1>3, <1>4, <1>5, <1>6, <1>7, <1>8, <1>9, <1>10, <1>11, <1>12, <1>13, <1>14,
     <1>15, <1>16 DEF Establish

(* Refreshes and tests hold nothing. *)
LEMMA ApplyCareful ==
  ASSUME OwnersInv, NEW r \in Reqs,
         \/ Probed(r) \/ ApplyNodes(r) \/ ApplyRuntime(r)
         \/ \E S \in Catalogs : Refresh(r, S)
  PROVE  Careful(r)
<1> USE ConstantsAssumption
    DEF OwnersInv, TypeInv, TypeOK, HeldOK, Holding, Routing, Careful, Keeps, Reqs,
        Goto, Return, At, guardVars, ConstantsAssumption
<1>1. CASE Probed(r)
  BY <1>1 DEF Probed
<1>2. CASE ApplyNodes(r)
  BY <1>2 DEF ApplyNodes
<1>3. CASE ApplyRuntime(r)
  BY <1>3 DEF ApplyRuntime
<1>4. CASE \E S \in Catalogs : Refresh(r, S)
  BY <1>4 DEF Refresh
<1>5. QED
  BY <1>1, <1>2, <1>3, <1>4

-----------------------------------------------------------------------------
Kept(p) ==
  \/ Owned(p)'
  \/ \E c \in Clients : held[c] = p /\ Abort(c)
  \/ \E c \in Clients : child = p /\ Store(c)

(* A careful step keeps the owner of a process that lives on, and leaves   *)
(* no Child in the hands of a request past its use.                        *)
LEMMA CarefulKeeps ==
  ASSUME OwnersInv, NEW r \in Reqs, Careful(r)
  PROVE  /\ HeldOK'
         /\ \A p \in Procs : proc[p] # "none" /\ Owned(p) /\ proc'[p] # "none" => Kept(p)
<1>1. HeldOK'
  <2>1. SUFFICES ASSUME NEW c \in Clients, held'[c] # None PROVE pc'[c] \in Holding
    BY DEF HeldOK
  <2>2. CASE c = r
    BY <2>1, <2>2 DEF Careful
  <2>3. CASE c # r
    BY <2>1, <2>3 DEF Careful, Keeps, Takes, Kills, Forgets, Moves, OwnersInv, HeldOK
  <2>4. QED
    BY <2>2, <2>3
<1>2. SUFFICES ASSUME NEW p \in Procs, proc[p] # "none", Owned(p), proc'[p] # "none"
               PROVE  Kept(p)
  BY <1>1
<1>3. p # None
  BY ConstantsAssumption DEF ConstantsAssumption
<1>4. CASE Keeps(r)
  BY <1>2, <1>4 DEF Keeps, Kept, Owned
<1>5. CASE Takes(r)
  BY <1>2, <1>3, <1>5 DEF Takes, Kept, Owned
<1>6. CASE Kills(r)
  BY <1>2, <1>6 DEF Kills, Kept, Owned
<1>7. CASE Forgets(r)
  BY <1>2, <1>3, <1>7 DEF Forgets, Kept, Owned
<1>8. CASE Moves(r)
  BY <1>2, <1>8 DEF Moves, Kept, Owned
<1>9. QED
  BY <1>4, <1>5, <1>6, <1>7, <1>8 DEF Careful

(* So does the environment, but for a dropped handler. *)
LEMMA EnvironmentKeeps ==
  ASSUME OwnersInv,
         \/ \E c \in Clients : Abort(c)
         \/ \E p \in Procs : ProcUp(p) \/ ProcExit(p)
         \/ Crash
         \/ UNCHANGED vars
  PROVE  /\ HeldOK'
         /\ \A p \in Procs : proc[p] # "none" /\ Owned(p) /\ proc'[p] # "none" => Kept(p)
<1> USE DEF OwnersInv, TypeInv, TypeOK, HeldOK, Reqs, Kept, Owned, guardVars, reqVars
<1>1. CASE \E c \in Clients : Abort(c)
  <2>1. PICK c \in Clients : Abort(c)
    BY <1>1
  <2>2. UNCHANGED child /\ \A d \in Clients \ {c} : held'[d] = held[d] /\ pc'[d] = pc[d]
    BY <2>1 DEF Abort, Return
  <2>3. held'[c] = None
    BY <2>1 DEF Abort, Return
  <2>4. QED
    BY <2>1, <2>2, <2>3
<1>2. CASE \E p \in Procs : ProcUp(p) \/ ProcExit(p)
  <2>1. UNCHANGED <<child, held, pc>>
    BY <1>2 DEF ProcUp, ProcExit
  <2>2. QED
    BY <2>1
<1>3. CASE Crash
  BY <1>3 DEF Crash
<1>4. CASE UNCHANGED vars
  <2>1. UNCHANGED <<child, held, pc>>
    BY <1>4 DEF vars
  <2>2. QED
    BY <2>1
<1>5. QED
  BY <1>1, <1>2, <1>3, <1>4

(* One step of any kind. *)
LEMMA OwnersNext ==
  ASSUME OwnersInv, [Next]_vars
  PROVE  /\ HeldOK'
         /\ \A p \in Procs : proc[p] # "none" /\ Owned(p) /\ proc'[p] # "none" => Kept(p)
<1>1. CASE \E c \in Clients : Arrive(c) \/ Step(c)
  BY <1>1, ArriveCareful, StopCareful, EstablishCareful, ApplyCareful, CarefulKeeps
     DEF Step, Reqs
<1>2. CASE RefreshLoop
  BY <1>2, ApplyCareful, CarefulKeeps DEF RefreshLoop, Reqs
<1>3. CASE \/ \E c \in Clients : Abort(c)
           \/ \E p \in Procs : ProcUp(p) \/ ProcExit(p)
           \/ Crash
           \/ UNCHANGED vars
  BY <1>3, EnvironmentKeeps
<1>4. QED
  BY <1>1, <1>2, <1>3 DEF Next

(* The invariant holds always. *)
LEMMA OwnersInvariant == Spec => []OwnersInv
<1>1. OwnersInv /\ [Next]_vars => HeldOK'
  BY OwnersNext
<1>2. QED
  BY <1>1, HeldInit, TypeInvariant, LockInvariant, PTL DEF Spec, OwnersInv

(* With any number of clients, processes and faults, only a dropped        *)
(* handler and a store over another record lose a running process.         *)
THEOREM OwnersKeptHolds == Spec => OwnersKept
<1>1. OwnersInv /\ [Next]_vars
        => [\A p \in Procs : proc[p] # "none" /\ Owned(p) /\ proc'[p] # "none" =>
              \/ Owned(p)'
              \/ \E c \in Clients : held[c] = p /\ Abort(c)
              \/ \E c \in Clients : child = p /\ Store(c)]_vars
  BY OwnersNext DEF Kept
<1>2. QED
  BY <1>1, OwnersInvariant, PTL DEF Spec, OwnersKept
=============================================================================
