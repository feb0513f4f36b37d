----------------------------- MODULE MCGateway ------------------------------
(* Instances of Gateway for TLC. *)
EXTENDS Gateway, TLC

CONSTANTS n1, n2, user

TwoIds == {n1, n2}
OneUser == {user}
AllKinds == {"socks", "bind", "connect", "plain"}

Symmetric == Permutations(TwoIds)
=============================================================================
