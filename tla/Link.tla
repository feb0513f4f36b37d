-------------------------------- MODULE Link --------------------------------
(***************************************************************************)
(* What the control plane promises one operator: a session is one node     *)
(* from the moment its tunnel comes up to the moment the report of it is   *)
(* withdrawn.  It comes up where nothing is reported, its readiness is     *)
(* noticed before it is reported, it may be lost at any time, and the      *)
(* report is withdrawn only over a tunnel that is gone.                    *)
(***************************************************************************)
CONSTANTS Ids, None

VARIABLES
  phase,  \* of the session: down, risen, ready, reported
  node,   \* its node
  alive   \* the tun device exists

vars == <<phase, node, alive>>

Init == phase = "down" /\ node = None /\ alive = FALSE

(* The device comes up: only one session at a time has it. *)
Rise(n) ==
  /\ phase = "down" /\ ~alive
  /\ phase' = "risen" /\ node' = n /\ alive' = TRUE

(* openvpn's ready line is read, perhaps after openvpn has died. *)
Ready ==
  /\ phase = "risen"
  /\ phase' = "ready"
  /\ UNCHANGED <<node, alive>>

(* The timeout or a failure ends the wait, and the tunnel with it. *)
GiveUp ==
  /\ phase = "risen"
  /\ phase' = "down" /\ node' = None /\ alive' = FALSE

Report ==
  /\ phase = "ready"
  /\ phase' = "reported"
  /\ UNCHANGED <<node, alive>>

(* The tunnel is killed by a teardown, or lost. *)
Lose ==
  /\ alive
  /\ alive' = FALSE
  /\ UNCHANGED <<phase, node>>

Withdraw ==
  /\ phase = "reported" /\ ~alive
  /\ phase' = "down" /\ node' = None
  /\ UNCHANGED alive

Next == (\E n \in Ids : Rise(n)) \/ Ready \/ GiveUp \/ Report \/ Lose \/ Withdraw

Spec == Init /\ [][Next]_vars
=============================================================================
