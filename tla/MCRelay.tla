------------------------------ MODULE MCRelay -------------------------------
(* Instances of Relay for TLC. *)
EXTENDS Relay, TLC

CONSTANTS k1, k2

TwoConns == {k1, k2}
AllKinds == {"socks", "bind", "connect", "plain"}

Symmetric == Permutations(TwoConns)
=============================================================================
