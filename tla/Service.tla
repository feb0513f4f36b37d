------------------------------ MODULE Service -------------------------------
(***************************************************************************)
(* The life of the process around nodes.json: the environment it reads     *)
(* (config.rs), ensure_dirs and the credentials file (store.rs), the       *)
(* loads, tasks and listeners of main, the rounds of the refresh loop with *)
(* the curl fallback of its fetch (catalog.rs) and the save that ends them *)
(* (server.rs), and the restarts of the service unit.                      *)
(*                                                                         *)
(* nodes.json and its writers are those of JsonStore: the refresh loop and *)
(* the request handlers, which save under the lock of the node list.  Its  *)
(* Crash is taken apart here: the process dies, and what main does until   *)
(* it serves again may be cut off at every step.  settings.json is whole   *)
(* or torn; its unlocked saves, which may tear it, are JsonStore's with    *)
(* LockedSave FALSE.  Handlers dropped over a save are left to JsonStore.  *)
(***************************************************************************)
EXTENDS JsonStore

CONSTANTS
  Loop,     \* the writer that is the refresh loop; the others are handlers
  Creds,    \* values of OPENVPN_AUTH_USER and OPENVPN_AUTH_PASS
  Mishaps   \* what may go wrong outside the store

ASSUME ServiceAssumption ==
  /\ None \notin Creds /\ "short" \notin Creds
  /\ Loop \in Writers
  /\ Mishaps \subseteq {"die", "disk", "port", "accept", "torn"}

VARIABLES
  env, valid,      \* the environment file: its credentials, its addresses parse
  creds,           \* the credentials main has read from it
  auth,            \* openvpn_auth.txt: missing, cut short or whole
  settings,        \* settings.json: whole (or missing), or torn
  stage,           \* what main is doing
  relay,           \* the relay's task
  round            \* the refresh loop's task

outside == <<env, valid>>
taskVars == <<relay, round>>
bootVars == <<creds, stage, taskVars>>
serviceVars == <<vars, outside, auth, settings, bootVars>>

(* The store starts empty and the process is not running. *)
ServiceInit ==
  /\ memory = Default /\ lock = None /\ live = None /\ tmp = None
  /\ text = [i \in Inodes |-> Empty]
  /\ pc = [w \in Writers |-> "idle"] /\ mine = [w \in Writers |-> Default]
  /\ fd = [w \in Writers |-> None] /\ dropped = {}
  /\ up = FALSE
  /\ env \in Creds /\ valid = TRUE /\ creds = None
  /\ auth = None /\ settings = "whole"
  /\ stage = "down" /\ relay = "off" /\ round = "off"

At(s) == stage = s

-----------------------------------------------------------------------------
(* main, up to the server. *)

(* Config::from_env.  An address that does not parse ends main; a number   *)
(* that does not is replaced by its default.                               *)
Start ==
  /\ At("down") /\ valid
  /\ creds' = env
  /\ stage' = "auth"
  /\ UNCHANGED <<vars, outside, auth, settings, taskVars>>

(* The credentials written at every start. *)
CheckAuthAlways ==
  /\ At("auth")
  /\ stage' = "openAuth"
  /\ UNCHANGED <<vars, outside, auth, settings, creds, taskVars>>

(* The credentials are written only when there is no such file.            *)
CheckAuth ==
  /\ At("auth")
  /\ stage' = IF auth = None THEN "openAuth" ELSE "loadNodes"
  /\ UNCHANGED <<vars, outside, auth, settings, creds, taskVars>>

(* In place: create or truncate, write, restrict. *)
OpenAuth ==
  /\ At("openAuth")
  /\ auth' = "short" /\ stage' = "writeAuth"
  /\ UNCHANGED <<vars, outside, settings, creds, taskVars>>

WriteAuth ==
  /\ At("writeAuth")
  /\ auth' = creds /\ stage' = "restrictAuth"
  /\ UNCHANGED <<vars, outside, settings, creds, taskVars>>

RestrictAuth ==
  /\ At("restrictAuth")
  /\ stage' = "loadNodes"
  /\ UNCHANGED <<vars, outside, auth, settings, creds, taskVars>>

(* A missing file is the default; one that does not parse is an error. *)
Loadable == live # None => Parses(text[live])

LoadNodes ==
  /\ At("loadNodes") /\ Loadable
  /\ memory' = IF live = None THEN Default ELSE text[live].head
  /\ stage' = "loadSettings"
  /\ UNCHANGED <<lock, fileVars, handlerVars, up, outside, auth, settings, creds, taskVars>>

(* Then the two tasks are spawned: from here on the list has a writer.     *)
LoadSettings ==
  /\ At("loadSettings") /\ settings = "whole"
  /\ stage' = "bind" /\ relay' = "starting" /\ round' = "fetch" /\ up' = TRUE
  /\ UNCHANGED <<memory, lock, fileVars, handlerVars, outside, auth, settings, creds>>

Bind ==
  /\ At("bind")
  /\ stage' = "serving"
  /\ UNCHANGED <<vars, outside, auth, settings, creds, taskVars>>

-----------------------------------------------------------------------------
(* The tasks. *)

(* serve_relay.  An error of bind or accept is logged and ends the task,   *)
(* and nothing else.                                                       *)
RelayBinds ==
  /\ relay = "starting"
  /\ relay' \in {"listening"} \cup {r \in {"ended"} : "port" \in Mishaps}
  /\ UNCHANGED <<vars, outside, auth, settings, creds, stage, round>>

RelayAcceptFails ==
  /\ "accept" \in Mishaps /\ relay = "listening"
  /\ relay' = "ended"
  /\ UNCHANGED <<vars, outside, auth, settings, creds, stage, round>>

(* An error that leaves the loop instead of the round.                     *)
FetchEndsLoop ==
  /\ round = "fetch"
  /\ round' \in {"parse", "curl", "sleep", "ended"}
  /\ UNCHANGED <<vars, outside, auth, settings, creds, stage, relay>>

(* fetch_catalog_text: a request that fails is made once more with curl; a *)
(* client that cannot be built ends the round.                             *)
Fetch ==
  /\ round = "fetch"
  /\ round' \in {"parse", "curl", "sleep"}
  /\ UNCHANGED <<vars, outside, auth, settings, creds, stage, relay>>

Curl ==
  /\ round = "curl"
  /\ round' \in {"parse", "sleep"}
  /\ UNCHANGED <<vars, outside, auth, settings, creds, stage, relay>>

(* parse_catalog_csv: a list, or an error when there is no node in it.     *)
Parse ==
  /\ round = "parse"
  /\ round' \in {"apply", "sleep"}
  /\ UNCHANGED <<vars, outside, auth, settings, creds, stage, relay>>

(* do_refresh gets the lock of the list, replaces it and saves it before   *)
(* it gives the lock back.  A save that fails ends the round.              *)
Apply ==
  /\ round = "apply"
  /\ \E v \in Values \ {Default} : Replace(Loop, v)
  /\ round' = "save"
  /\ UNCHANGED <<outside, auth, settings, creds, stage, relay>>

(* A save that fails ends the task with the round. *)
SaveRoundOnce ==
  /\ round = "save" /\ Saving(Loop)
  /\ round' = IF pc'[Loop] # "idle" THEN "save" ELSE IF Rename(Loop) THEN "sleep" ELSE "ended"
  /\ UNCHANGED <<outside, auth, settings, creds, stage, relay>>

SaveRound ==
  /\ round = "save" /\ Saving(Loop)
  /\ round' = IF pc'[Loop] = "idle" THEN "sleep" ELSE "save"
  /\ UNCHANGED <<outside, auth, settings, creds, stage, relay>>

Sleep ==
  /\ round = "sleep"
  /\ round' = "fetch"
  /\ UNCHANGED <<vars, outside, auth, settings, creds, stage, relay>>

(* The handlers that change the list: a refresh, a test, a connect.        *)
Serve(w) ==
  /\ At("serving")
  /\ Handle(w)
  /\ UNCHANGED <<outside, auth, settings, bootVars>>

(* Saves of settings.json, which may meet and tear it.                     *)
SaveSettings ==
  /\ At("serving")
  /\ settings' \in {"whole"} \cup {s \in {"torn"} : "torn" \in Mishaps}
  /\ UNCHANGED <<vars, outside, auth, bootVars>>

-----------------------------------------------------------------------------
(* The end of the process: all its tasks go with it, and the jobs of its   *)
(* writers wherever they stand.                                            *)
EndProcess ==
  /\ up' = FALSE /\ stage' = "down" /\ relay' = "off" /\ round' = "off"
  /\ creds' = None
  /\ lock' = None /\ dropped' = {}
  /\ pc' = [w \in Writers |-> "idle"] /\ fd' = [w \in Writers |-> None]
  /\ UNCHANGED <<memory, fileVars, mine, outside, auth, settings>>

(* main returns an error: of the disk, of a file that does not parse, of a *)
(* port that is taken.                                                     *)
MainFails ==
  /\ \/ At("loadNodes") /\ ~Loadable
     \/ At("loadSettings") /\ settings = "torn"
     \/ "disk" \in Mishaps /\ stage \in {"auth", "openAuth", "writeAuth", "restrictAuth"}
     \/ "port" \in Mishaps /\ At("bind")
  /\ EndProcess

Die ==
  /\ "die" \in Mishaps /\ ~At("down")
  /\ EndProcess

(* The operator edits /etc/default/vpngate-link, which the next start      *)
(* reads, or removes a settings file the service cannot read.              *)
Configure ==
  /\ env' \in Creds /\ valid' \in BOOLEAN
  /\ UNCHANGED <<vars, auth, settings, bootVars>>

Repair ==
  /\ At("down") /\ settings = "torn"
  /\ settings' = "whole"
  /\ UNCHANGED <<vars, outside, auth, bootVars>>

-----------------------------------------------------------------------------

(* What the service unit and main do by themselves. *)
Boot ==
  \/ Start \/ CheckAuth \/ OpenAuth \/ WriteAuth \/ RestrictAuth
  \/ LoadNodes \/ LoadSettings \/ Bind

Round == Fetch \/ Curl \/ Parse \/ Apply \/ SaveRound \/ Sleep

Setbacks == MainFails \/ Die

Handlers == Writers \ {Loop}

ServiceNext ==
  \/ Boot \/ RelayBinds \/ RelayAcceptFails \/ Round
  \/ SaveSettings \/ Setbacks \/ Configure \/ Repair
  \/ \E w \in Handlers : Serve(w)

(* Restart=always starts the service again.  tokio polls the loop's task,  *)
(* whose fetches have time limits, and the handlers that save; its RwLock  *)
(* serves those who wait for it in order, so that the loop gets it.        *)
ServiceSpec ==
  /\ ServiceInit /\ [][ServiceNext]_serviceVars
  /\ WF_serviceVars(Boot) /\ WF_serviceVars(Round) /\ SF_serviceVars(Apply)
  /\ \A w \in Handlers : WF_serviceVars(Serve(w) /\ Saving(w))

-----------------------------------------------------------------------------
(* Properties. *)

ServiceTypeOK ==
  /\ TypeOK
  /\ env \in Creds /\ valid \in BOOLEAN /\ creds \in Creds \cup {None}
  /\ auth \in Creds \cup {None, "short"} /\ settings \in {"whole", "torn"}
  /\ stage \in {"down", "auth", "openAuth", "writeAuth", "restrictAuth", "loadNodes",
                "loadSettings", "bind", "serving"}
  /\ relay \in {"off", "starting", "listening", "ended"}
  /\ round \in {"off", "fetch", "curl", "parse", "apply", "save", "sleep"}

(* Credentials that are once complete stay: no later start, with whatever  *)
(* environment and wherever it dies, damages or changes them.              *)
AuthKept == [][(auth \in Creds) => (auth' = auth)]_serviceVars

(* Whatever the process has died of and wherever nodes.json and the        *)
(* credentials were left, it comes to serve again, unless it is stopped    *)
(* again and again, or its addresses are left wrong or its settings torn:  *)
(* no crash leaves a node list main cannot get past.                       *)
ComesBack ==
  <>[](valid /\ settings = "whole") /\ <>[][~Setbacks]_serviceVars => []<>(stage = "serving")

(* While the process serves, the refresh loop fetches again and again,     *)
(* whatever its fetches, its parses and its saves end in and however the   *)
(* handlers that save the same list get in its way.                        *)
KeepsRefreshing ==
  <>[](stage = "serving") => []<>(round = "fetch") /\ []<>(round = "sleep")
=============================================================================
