----------------------------- MODULE MCService ------------------------------
(* Instances of Service for TLC. *)
EXTENDS Service

CONSTANTS a, loop, w1, i1, i2, old, new

OneName == {a}
LoopAndHandler == {loop, w1}
TwoInodes == {i1, i2}
FullDisk == {"full"}
TwoCreds == {old, new}
AllMishaps == {"die", "disk", "port", "accept", "torn"}
=============================================================================
