------------------------------ MODULE Gateway -------------------------------
(***************************************************************************)
(* The whole gateway: sessions (Link, which Tunnel implements) and relayed *)
(* connections (Relay) over the one tun device, and the exit check of      *)
(* server.rs, which is a client of the relay itself.                       *)
(*                                                                         *)
(* One console uses the gateway.  It runs one action at a time, so while   *)
(* it waits for the exit check no connect or disconnect moves the session; *)
(* openvpn may die all the same.  Other programs use the relay at will.    *)
(***************************************************************************)
EXTENDS Naturals, Sequences

CONSTANTS
  Ids, None,                     \* as in Link
  Users, Kinds,                  \* relay clients beside the exit check, what they speak
  Check,                         \* the connection of the exit check
  Payload, Tries, FdLimit,       \* as in Relay
  Direct,                        \* the address of the host itself
  Gone                           \* a device that no longer exists

ASSUME GatewayAssumption ==
  /\ Kinds \subseteq {"socks", "bind", "connect", "plain"}
  /\ Payload \in Nat \ {0} /\ Tries \in Nat \ {0} /\ FdLimit \in Nat
  /\ Check \notin Users /\ Direct \notin Ids
  /\ None \notin Ids \cup {Direct, Gone} /\ Gone \notin Ids

VARIABLES
  stage, node, device,           \* the session
  listener, phase, kind, sent, gone, taken, buf, tries, sock, bound, told, wire,
  via,                           \* per connection: the device its socket is bound to
  exits,                         \* the addresses upstream has seen it come from
  checking, answer               \* the exit check: under way, its last answer

Conns == Users \cup {Check}
Session == INSTANCE Link WITH phase <- stage, alive <- device
Proxy == INSTANCE Relay

sessionVars == <<stage, node>>
relayVars ==
  <<listener, phase, kind, sent, gone, taken, buf, tries, sock, bound, told, wire>>
pathVars == <<via, exits>>
checkVars == <<checking, answer>>
vars == <<sessionVars, device, relayVars, pathVars, checkVars>>

Init ==
  /\ Session!Init
  /\ Proxy!Init /\ kind[Check] = "socks"
  /\ via = [c \in Conns |-> None] /\ exits = [c \in Conns |-> {}]
  /\ checking = FALSE /\ answer = None

-----------------------------------------------------------------------------
(* The session. *)

(* The steps of connects and disconnects, for which the console has to be  *)
(* free.                                                                   *)
ControlUngated ==
  \/ \E n \in Ids : Session!Rise(n)
  \/ Session!Ready \/ Session!GiveUp \/ Session!Report \/ Session!Withdraw
Control == ~checking /\ ControlUngated

(* A device is gone for good: a socket stays bound to it, not to its name. *)
SessionStep ==
  /\ Control \/ Session!Lose
  /\ via' = IF device /\ ~device' THEN [c \in Conns |-> IF via[c] = None THEN None ELSE Gone]
            ELSE via
  /\ UNCHANGED <<relayVars, exits, checkVars>>

-----------------------------------------------------------------------------
(* Relayed connections. *)

(* Where the packets of a socket leave. *)
Carrier(c) == IF ~bound[c] THEN Direct ELSE via[c]

(* Upstream is reached when the connection stands and with what is written *)
(* to it.                                                                  *)
Reaches(c) == (sock[c] # "up" /\ sock'[c] = "up") \/ wire'[c] # wire[c]

(* bind_to_device, and the kernel: a socket cannot connect through a       *)
(* device that is gone, and what is written to it goes nowhere.            *)
Path(c) ==
  /\ sock'[c] = "up" /\ sock[c] # "up" => Carrier(c) # Gone
  /\ via' = [via EXCEPT ![c] = IF sock'[c] = "none" THEN None
                               ELSE IF ~bound[c] /\ bound'[c] THEN node ELSE @]
  /\ exits' = [exits EXCEPT ![c] = IF Reaches(c) THEN @ \cup ({Carrier(c)} \ {Gone}) ELSE @]

RelayStep(c) ==
  /\ \/ Proxy!Handshake(c) \/ Proxy!Dial(c) \/ Proxy!Transfer(c)
     \/ (Proxy!Accept(c) /\ (c = Check => checking))
     \/ Proxy!Send(c) \/ (Proxy!EndInput(c) /\ c # Check)
  /\ Path(c)
  /\ UNCHANGED <<sessionVars, checkVars>>

RelayEnds ==
  /\ Proxy!AcceptFails
  /\ UNCHANGED <<sessionVars, pathVars, checkVars>>

-----------------------------------------------------------------------------
(* check_exit_ip: one request through the relay to a service that answers  *)
(* with the address it sees.                                               *)

StartCheck ==
  /\ ~checking /\ phase[Check] = "none" /\ stage \in {"down", "reported"}
  /\ checking' = TRUE
  /\ UNCHANGED <<sessionVars, device, relayVars, pathVars, answer>>

(* The client is dropped and closes its connection, if it still has one.   *)
EndCheck ==
  /\ checking' = FALSE
  /\ gone' = [gone EXCEPT ![Check] = Check \in Proxy!Live]
  /\ UNCHANGED <<sessionVars, pathVars, listener, device, phase, kind, sent, taken, buf>>
  /\ UNCHANGED <<tries, sock, bound, told, wire>>

(* The request has left and its answer comes back the same way. *)
CheckAnswers ==
  /\ checking /\ sock[Check] = "up"
  /\ wire[Check] # <<>> /\ Carrier(Check) # Gone
  /\ answer' = Carrier(Check)
  /\ EndCheck

(* The relay refuses, or eight seconds have passed. *)
CheckFails ==
  /\ checking
  /\ UNCHANGED answer
  /\ EndCheck

Next ==
  \/ SessionStep
  \/ \E c \in Conns : RelayStep(c)
  \/ RelayEnds
  \/ StartCheck \/ CheckAnswers \/ CheckFails

Spec == Init /\ [][Next]_vars

-----------------------------------------------------------------------------
(* Properties. *)

TypeOK ==
  /\ Proxy!TypeOK
  /\ stage \in {"down", "risen", "ready", "reported"} /\ node \in Ids \cup {None}
  /\ via \in [Conns -> Ids \cup {None, Gone}]
  /\ exits \in [Conns -> SUBSET (Ids \cup {Direct})]
  /\ checking \in BOOLEAN /\ answer \in Ids \cup {None, Direct}

(* The exit IP that is shown is that of the node reported as active when   *)
(* it is shown, and never the host's own, wherever openvpn dies and a new  *)
(* session comes up around the check.                                      *)
ExitHonest == [][answer' # answer => stage = "reported" /\ answer' = node]_vars

(* Upstream sees a relayed connection come from one exit from its first    *)
(* byte to its last, and that is never the host itself: a stream does not  *)
(* move to the next session when its own ends, nor does one whose dial     *)
(* began in a session go on beside it.                                     *)
OneExit ==
  \A c \in Conns : Direct \notin exits[c] /\ \A m, n \in exits[c] : m = n
=============================================================================
