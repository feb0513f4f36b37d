------------------------------ MODULE MCTunnel ------------------------------
(* Instances of Tunnel for TLC. *)
EXTENDS Tunnel, TLC

CONSTANTS e1, e2, e3, n1, n2, c1, c2, background, p1, p2

OneEntry == {e1}
TwoEntries == {e1, e2}
ThreeEntries == {e1, e2, e3}
OneId == {n1}
TwoIds == {n1, n2}
OneProc == {p1}
OneClient == {c1}
TwoClients == {c1, c2}
TwoProcs == {p1, p2}

(* Each entry with an id of its own, or the first two sharing one. *)
SingleIdOf == e1 :> n1
DistinctIdOf == e1 :> n1 @@ e2 :> n2
RepeatedIdOf == e1 :> n1 @@ e2 :> n1 @@ e3 :> n2

NoId == {}
SecondId == {n2}

(* The list the upstream serves is complete, or loses entries. *)
Single == {{e1}}
Full == {{e1, e2, e3}}
Shrinking == {{e1, e2}, {e2}}

NoFaults == {}
Drops == {"abort", "spawn"}
Failures == {"crash", "exit", "io", "spawn"}
ProcessFaults == {"exit", "save", "io", "spawn", "route"}

AllOps == {"connect", "auto", "disconnect", "refresh", "test"}
Sessions == {"connect", "disconnect"}
Connects == {"connect"}

ProcSymmetry == Permutations(Procs)
ActorSymmetry == ProcSymmetry \cup Permutations(TwoClients)

(* The two entries of one id, exchanged. *)
TwinSymmetry == ActorSymmetry \cup {e1 :> e2 @@ e2 :> e1}
=============================================================================
