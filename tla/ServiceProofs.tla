--------------------------- MODULE ServiceProofs ----------------------------
(***************************************************************************)
(* What ensure_dirs leaves of the credentials file, for any credentials,   *)
(* any store, and any crashes and restarts; and what JsonStoreProofs says  *)
(* of nodes.json, carried over to starts that load it step by step and to  *)
(* the refresh loop and the handlers that save it.                         *)
(***************************************************************************)
EXTENDS Service, JsonStoreProofs

(* main is about to open the file only where there is none, and to write   *)
(* it only after it has cut it.                                            *)
AuthInv ==
  /\ At("openAuth") => auth = None
  /\ At("writeAuth") => auth = "short"

(* One step of any kind keeps that, and complete credentials. *)
LEMMA AuthNext ==
  ASSUME AuthInv, [ServiceNext]_serviceVars
  PROVE  AuthInv' /\ ((auth \in Creds) => (auth' = auth))
<1> USE ServiceAssumption DEF AuthInv, At, ServiceAssumption
<1>1. ASSUME UNCHANGED auth, stage' = stage \/ stage' \notin {"openAuth", "writeAuth"}
      PROVE  AuthInv' /\ ((auth \in Creds) => (auth' = auth))
  BY <1>1
<1>2. CASE Start \/ LoadNodes \/ LoadSettings \/ Bind
  BY <1>1, <1>2 DEF Start, LoadNodes, LoadSettings, Bind
<1>3. CASE CheckAuth
  BY <1>3 DEF CheckAuth
<1>4. CASE OpenAuth \/ WriteAuth \/ RestrictAuth
  BY <1>4 DEF OpenAuth, WriteAuth, RestrictAuth
<1>5. CASE RelayBinds \/ RelayAcceptFails \/ Round
  BY <1>1, <1>5 DEF RelayBinds, RelayAcceptFails, Round, Fetch, Curl, Parse, Apply, SaveRound,
       Sleep
<1>6. CASE Setbacks
  BY <1>1, <1>6 DEF Setbacks, MainFails, Die, EndProcess
<1>7. CASE SaveSettings \/ Configure \/ Repair
  BY <1>1, <1>7 DEF SaveSettings, Configure, Repair, bootVars
<1>8. ASSUME NEW w \in Handlers, Serve(w)
      PROVE  AuthInv' /\ ((auth \in Creds) => (auth' = auth))
  BY <1>1, <1>8 DEF Serve, bootVars
<1>9. CASE UNCHANGED serviceVars
  BY <1>1, <1>9 DEF serviceVars, bootVars
<1>10. QED
  BY <1>2, <1>3, <1>4, <1>5, <1>6, <1>7, <1>8, <1>9 DEF ServiceNext, Boot

(* Credentials that are once complete stay, however often the process is   *)
(* cut off in its start and whatever environment it is started with.       *)
THEOREM AuthKeptHolds == ServiceSpec => AuthKept
<1>1. ServiceInit => AuthInv
  BY DEF ServiceInit, AuthInv, At
<1>2. AuthInv /\ [ServiceNext]_serviceVars => AuthInv'
  BY AuthNext
<1>3. AuthInv /\ [ServiceNext]_serviceVars
        => [(auth \in Creds) => (auth' = auth)]_serviceVars
  BY AuthNext
<1>4. QED
  BY <1>1, <1>2, <1>3, PTL DEF ServiceSpec, AuthKept

-----------------------------------------------------------------------------
(* The writers of the list are the loop and the handlers. *)

(* A step of a round leaves the store alone, or is one of the loop's save. *)
LEMMA RoundStores ==
  ASSUME Round
  PROVE  /\ UNCHANGED <<outside, auth, settings, creds, stage, relay>>
         /\ UNCHANGED vars \/ Handle(Loop)
  BY DEF Round, Fetch, Curl, Parse, Apply, SaveRound, Sleep, Handle, Values

(* What the task of the loop may be at. *)
LEMMA RoundType ==
  ASSUME Round
  PROVE  round' \in {"off", "fetch", "curl", "parse", "apply", "save", "sleep"}
  BY DEF Round, Fetch, Curl, Parse, Apply, SaveRound, Sleep

-----------------------------------------------------------------------------
(* Types. *)

(* A start may be cut off anywhere: every variable keeps its type.         *)
LEMMA ServiceTypeNext ==
  ASSUME ServiceTypeOK, [ServiceNext]_serviceVars
  PROVE  ServiceTypeOK'
<1> USE StoreAssumption, ServiceAssumption
    DEF ServiceTypeOK, StoreAssumption, ServiceAssumption, At
<1>1. ASSUME UNCHANGED vars PROVE TypeOK'
  BY <1>1 DEF TypeOK, vars, fileVars, handlerVars
<1>2. CASE Start \/ CheckAuth \/ OpenAuth \/ WriteAuth \/ RestrictAuth \/ Bind
  <2>1. TypeOK'
    BY <1>1, <1>2 DEF Start, CheckAuth, OpenAuth, WriteAuth, RestrictAuth, Bind
  <2>2. CASE Start \/ CheckAuth \/ Bind
    BY <2>1, <2>2 DEF Start, CheckAuth, Bind, outside, taskVars
  <2>3. CASE OpenAuth \/ WriteAuth \/ RestrictAuth
    BY <2>1, <2>3 DEF OpenAuth, WriteAuth, RestrictAuth, outside, taskVars
  <2>4. QED
    BY <1>2, <2>2, <2>3
<1>3. CASE LoadNodes
  <2>1. memory' \in Values
    BY <1>3 DEF LoadNodes, Loadable, Parses, Values, Default, TypeOK
  <2>2. TypeOK'
    BY <1>3, <2>1 DEF LoadNodes, TypeOK, fileVars, handlerVars
  <2>3. QED
    BY <1>3, <2>2 DEF LoadNodes, outside, taskVars
<1>4. CASE LoadSettings
  <2>1. TypeOK'
    BY <1>4 DEF LoadSettings, TypeOK, fileVars, handlerVars
  <2>2. QED
    BY <1>4, <2>1 DEF LoadSettings, outside
<1>5. CASE RelayBinds \/ RelayAcceptFails
  BY <1>1, <1>5 DEF RelayBinds, RelayAcceptFails, outside
<1>6. ASSUME NEW w \in Writers, Handle(w) PROVE TypeOK'
  BY <1>6, TypeNext DEF Next
<1>7. CASE Round
  <2>1. TypeOK'
    BY <1>1, <1>6, <1>7, RoundStores
  <2>2. QED
    BY <1>7, <2>1, RoundStores, RoundType DEF outside
<1>8. CASE Setbacks
  <2>1. EndProcess
    BY <1>8 DEF Setbacks, MainFails, Die
  <2>2. TypeOK'
    BY <2>1 DEF EndProcess, TypeOK, fileVars
  <2>3. QED
    BY <2>1, <2>2 DEF EndProcess, outside
<1>9. CASE SaveSettings \/ Configure \/ Repair
  BY <1>1, <1>9 DEF SaveSettings, Configure, Repair, outside, bootVars, taskVars
<1>10. ASSUME NEW w \in Handlers, Serve(w) PROVE ServiceTypeOK'
  <2>1. TypeOK'
    BY <1>6, <1>10 DEF Serve, Handlers
  <2>2. QED
    BY <1>10, <2>1 DEF Serve, outside, bootVars, taskVars
<1>11. CASE UNCHANGED serviceVars
  BY <1>1, <1>11 DEF serviceVars, outside, bootVars, taskVars
<1>12. QED
  BY <1>2, <1>3, <1>4, <1>5, <1>7, <1>8, <1>9, <1>10, <1>11 DEF ServiceNext, Boot

(* The whole process is well typed, wherever main dies in its start.       *)
THEOREM ServiceTypeCorrect == ServiceSpec => []ServiceTypeOK
<1>1. ASSUME ServiceInit PROVE ServiceTypeOK
  <2>1. TypeOK
    BY <1>1 DEF ServiceInit, TypeOK, Values, Default, Empty
  <2>2. QED
    BY <1>1, <2>1 DEF ServiceInit, ServiceTypeOK
<1>2. ServiceTypeOK /\ [ServiceNext]_serviceVars => ServiceTypeOK'
  BY ServiceTypeNext
<1>3. QED
  BY <1>1, <1>2, PTL DEF ServiceSpec

-----------------------------------------------------------------------------
(* The node list. *)

(* The list has writers only once main has loaded it, so that none saves   *)
(* over the load.                                                          *)
ServingInv ==
  /\ SaveInv
  /\ up <=> stage \in {"bind", "serving"}
  /\ ~up => \A w \in Writers : pc[w] = "idle"

LEMMA ServingInit == OneSaver /\ ServiceInit => ServingInv
<1> SUFFICES ASSUME OneSaver, ServiceInit PROVE ServingInv
  OBVIOUS
<1>1. TypeOK
  BY DEF ServiceInit, TypeOK, Values, Default, Empty
<1>2. QED
  BY <1>1, StoreAssumption
     DEF ServiceInit, ServingInv, SaveInv, OneSaver, Sole, Busy, Current, Opened, Written,
         Apart, AlwaysLoads, StoreAssumption

(* Steps that leave the store alone but for up keep what is known of it.   *)
LEMMA StoreKept ==
  ASSUME SaveInv, UNCHANGED <<memory, lock, fileVars, handlerVars>>, up' \in BOOLEAN
  PROVE  SaveInv' /\ UNCHANGED <<memory, Disk>>
<1>1. UNCHANGED <<memory, lock, live, tmp, text, pc, mine, fd, dropped>>
  BY DEF fileVars, handlerVars
<1>2. TypeOK'
  BY <1>1 DEF SaveInv, TypeOK
<1>3. Sole' /\ Current' /\ Opened' /\ Written' /\ Apart' /\ AlwaysLoads'
  BY <1>1 DEF SaveInv, Sole, Busy, Current, Opened, Written, Apart, AlwaysLoads
<1>4. QED
  BY <1>1, <1>2, <1>3, DiskKept DEF SaveInv

(* So do a writer's, which are steps of the register; it has to be up.     *)
LEMMA StoreHandled ==
  ASSUME ServingInv, NEW w \in Writers, Handle(w), UNCHANGED stage
  PROVE  ServingInv' /\ Abstract!Next
<1>1. SaveInv' /\ Abstract!Next
  BY SaveHandle, DiskHandle DEF ServingInv
<1>2. UNCHANGED up
  BY DEF Handle, Saving, Replace, Toggle, Change, Open, Write, Rename, RenameFails, Failed
<1>3. up
  <2>1. up \/ pc[w] # "idle"
    BY DEF Handle, Saving, Replace, Toggle, Change, Open, Write, Rename, RenameFails
  <2>2. QED
    BY <2>1 DEF ServingInv
<1>4. QED
  BY <1>1, <1>2, <1>3 DEF ServingInv

(* One step of the process keeps the invariant, and is a step of the       *)
(* register or none.                                                       *)
LEMMA ServingNext ==
  ASSUME OneSaver, ServingInv, [ServiceNext]_serviceVars
  PROVE  ServingInv' /\ [Abstract!Next]_<<memory, Disk>>
<1>1. up \in BOOLEAN
  BY DEF ServingInv, SaveInv, TypeOK
<1>2. ASSUME UNCHANGED vars,
             stage' = stage \/ {stage, stage'} \cap {"bind", "serving"} = {}
                            \/ {stage, stage'} = {"bind", "serving"}
      PROVE  ServingInv' /\ [Abstract!Next]_<<memory, Disk>>
  <2>1. UNCHANGED <<memory, lock, fileVars, handlerVars, up>>
    BY <1>2 DEF vars
  <2>2. SaveInv' /\ UNCHANGED <<memory, Disk>>
    BY <1>1, <2>1, StoreKept DEF ServingInv
  <2>3. UNCHANGED pc /\ (up <=> stage' \in {"bind", "serving"})
    BY <1>2, <2>1 DEF ServingInv, handlerVars
  <2>4. QED
    BY <2>1, <2>2, <2>3 DEF ServingInv
<1>3. CASE Start \/ CheckAuth \/ OpenAuth \/ WriteAuth \/ RestrictAuth \/ Bind
  BY <1>2, <1>3 DEF Start, CheckAuth, OpenAuth, WriteAuth, RestrictAuth, Bind, At
<1>4. CASE LoadNodes
  <2>1. memory' \in Values
    BY <1>4 DEF LoadNodes, Loadable, Parses, Values, Default, ServingInv, SaveInv, TypeOK
  <2>2. UNCHANGED <<lock, live, tmp, text, pc, mine, fd, dropped, up>> /\ ~up
        /\ stage' = "loadSettings"
    BY <1>4 DEF LoadNodes, At, ServingInv, fileVars, handlerVars
  <2>3. TypeOK'
    BY <2>1, <2>2 DEF ServingInv, SaveInv, TypeOK
  <2>4. Sole' /\ Current' /\ Opened' /\ Written' /\ Apart' /\ AlwaysLoads'
    BY <2>2
       DEF ServingInv, SaveInv, Sole, Busy, Current, Opened, Written, Apart, AlwaysLoads
  <2>5. Abstract!Restart
    BY <1>4, <2>2, DiskLoad DEF LoadNodes, ServingInv, SaveInv
  <2>6. QED
    BY <2>2, <2>3, <2>4, <2>5 DEF ServingInv, SaveInv, Abstract!Next
<1>5. CASE LoadSettings
  <2>1. UNCHANGED <<memory, lock, fileVars, handlerVars>> /\ up' = TRUE /\ stage' = "bind"
    BY <1>5 DEF LoadSettings
  <2>2. QED
    BY <2>1, StoreKept DEF ServingInv
<1>6. CASE RelayBinds \/ RelayAcceptFails
  BY <1>2, <1>6 DEF RelayBinds, RelayAcceptFails
<1>7. CASE Round
  <2>1. Loop \in Writers
    BY ServiceAssumption DEF ServiceAssumption
  <2>2. UNCHANGED stage /\ (UNCHANGED vars \/ Handle(Loop))
    BY <1>7, RoundStores
  <2>3. QED
    BY <1>2, <2>1, <2>2, StoreHandled
<1>8. CASE Setbacks
  <2>1. EndProcess
    BY <1>8 DEF Setbacks, MainFails, Die
  <2>2. /\ up' = FALSE /\ stage' = "down" /\ lock' = None /\ dropped' = {}
        /\ pc' = [w \in Writers |-> "idle"] /\ fd' = [w \in Writers |-> None]
        /\ UNCHANGED <<memory, live, tmp, text, mine>>
    BY <2>1 DEF EndProcess, fileVars
  <2>3. TypeOK'
    BY <2>2 DEF ServingInv, SaveInv, TypeOK
  <2>4. Sole' /\ Current' /\ Opened' /\ Written' /\ Apart' /\ AlwaysLoads'
    BY <2>2, StoreAssumption
       DEF ServingInv, SaveInv, OneSaver, Sole, Busy, Current, Opened, Written, Apart,
           AlwaysLoads, StoreAssumption
  <2>5. UNCHANGED <<memory, Disk>>
    BY <2>2, DiskKept
  <2>6. QED
    BY <2>2, <2>3, <2>4, <2>5 DEF ServingInv, SaveInv
<1>9. CASE SaveSettings \/ Configure \/ Repair
  BY <1>2, <1>9 DEF SaveSettings, Configure, Repair, bootVars
<1>10. ASSUME NEW w \in Handlers, Serve(w)
       PROVE  ServingInv' /\ [Abstract!Next]_<<memory, Disk>>
  BY <1>10, StoreHandled DEF Serve, Handlers, bootVars
<1>11. CASE UNCHANGED serviceVars
  BY <1>2, <1>11 DEF serviceVars, bootVars
<1>12. QED
  BY <1>3, <1>4, <1>5, <1>6, <1>7, <1>8, <1>9, <1>10, <1>11 DEF ServiceNext, Boot

(* The invariant of every state. *)
LEMMA ServingInvariant ==
  ASSUME OneSaver
  PROVE  ServiceSpec => []ServingInv
<1>1. ServingInv /\ [ServiceNext]_serviceVars => ServingInv'
  BY ServingNext
<1>2. QED
  BY <1>1, ServingInit, PTL DEF ServiceSpec

(* main never finds a node list it cannot read, wherever the process has   *)
(* died over a save of the refresh loop or of any number of handlers.      *)
THEOREM ServiceLoads ==
  ASSUME OneSaver
  PROVE  ServiceSpec => []AlwaysLoads
<1>1. ServingInv => AlwaysLoads
  BY DEF ServingInv, SaveInv
<1>2. QED
  BY <1>1, ServingInvariant, PTL

(* A start that is made of steps still brings back exactly the list saved  *)
(* last, and nothing is saved between the end of a process and its load.   *)
THEOREM ServiceSaves ==
  ASSUME OneSaver
  PROVE  ServiceSpec => AtomicSave
<1>1. ServiceInit => Abstract!Init
  BY DEF ServiceInit, Abstract!Init, Disk
<1>2. ServingInv /\ [ServiceNext]_serviceVars => [Abstract!Next]_<<memory, Disk>>
  BY ServingNext
<1>3. QED
  BY <1>1, <1>2, ServingInvariant, PTL DEF ServiceSpec, AtomicSave, Abstract!Spec
=============================================================================
