------------------------------ MODULE MCStore -------------------------------
(* The instance of JsonStore for TLC: settings.json, saved without a lock. *)
EXTENDS JsonStore, TLC

CONSTANTS a, b, w1, w2, i1, i2, i3, i4

TwoNames == {a, b}
TwoWriters == {w1, w2}
FourInodes == {i1, i2, i3, i4}
AllFaults == {"abort", "crash", "full"}

Symmetric == Permutations(Names) \cup Permutations(Writers) \cup Permutations(FourInodes)
=============================================================================
