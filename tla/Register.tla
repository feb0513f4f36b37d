------------------------------ MODULE Register ------------------------------
(***************************************************************************)
(* What saving a value promises: the disk holds nothing, or a complete     *)
(* value that was in memory when it was saved, and a restart of the        *)
(* service brings exactly that value back.                                 *)
(***************************************************************************)
CONSTANTS Values, Default, None

VARIABLES memory, disk

Init == memory = Default /\ disk = None

Change == memory' \in Values /\ UNCHANGED disk

Save == disk' = memory /\ UNCHANGED memory

Restart ==
  /\ memory' = IF disk = None THEN Default ELSE disk
  /\ UNCHANGED disk

Next == Change \/ Save \/ Restart

Spec == Init /\ [][Next]_<<memory, disk>>
=============================================================================
