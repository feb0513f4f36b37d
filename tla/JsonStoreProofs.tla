--------------------------- MODULE JsonStoreProofs --------------------------
(***************************************************************************)
(* A file whose saves run under the lock always parses and behaves as the  *)
(* register of module Register, for any values, any number of handlers,    *)
(* crashes and full disks.  A handler that is dropped over its save would  *)
(* leave a job behind that no lock keeps apart: that fault is excluded.    *)
(***************************************************************************)
EXTENDS JsonStore, TLAPS, FiniteSetTheorems

(* Saves come one at a time. *)
OneSaver == LockedSave /\ "abort" \notin Faults

(* One handler saves at a time, it saves what memory holds, into a file    *)
(* that is not the live one and that nobody else has open.                 *)
Busy == \A w \in Writers : pc[w] # "idle" <=> lock = w
Sole == LockedSave /\ dropped = {} /\ Busy
Current == \A w \in Writers : pc[w] # "idle" => mine[w] = memory
Opened == \A w \in Writers : pc[w] = "write" => tmp # None /\ fd[w] = tmp /\ text[tmp] = Empty
Written == \A w \in Writers : pc[w] = "rename" => tmp # None /\ text[tmp] = Text(mine[w])
Apart == tmp # None => tmp # live

SaveInv == TypeOK /\ Sole /\ Current /\ Opened /\ Written /\ Apart /\ AlwaysLoads

-----------------------------------------------------------------------------
(* A value's text has a positive length. *)
LEMMA LengthType ==
  ASSUME NEW v \in Values
  PROVE  Length(v) \in Nat /\ Length(v) > 0
<1>1. Cardinality(v) \in Nat
  BY StoreAssumption, FS_Subset, FS_CardinalityType DEF StoreAssumption, Values
<1>2. QED
  BY <1>1 DEF Length

(* Written over nothing, it is the text; and the text parses. *)
LEMMA OverEmpty ==
  ASSUME NEW v \in Values
  PROVE  Over(v, Empty) = Text(v)
BY LengthType DEF Over, Empty, Text

(* A text written whole parses back to its value. *)
LEMMA TextParses ==
  ASSUME NEW v \in Values
  PROVE  Parses(Text(v)) /\ Text(v).head = v
BY StoreAssumption DEF Parses, Text, StoreAssumption, Values

(* The texts of the model are records of their type. *)
LEMMA TextType ==
  ASSUME NEW v \in Values, NEW t \in [head : {None} \cup Values, size : Nat]
  PROVE  /\ Over(v, t) \in [head : {None} \cup Values, size : Nat]
         /\ Empty \in [head : {None} \cup Values, size : Nat]
         /\ [head |-> None, size |-> t.size] \in [head : {None} \cup Values, size : Nat]
BY LengthType DEF Over, Empty

-----------------------------------------------------------------------------
LEMMA SaveInit == OneSaver /\ Init => SaveInv
<1> SUFFICES ASSUME OneSaver, Init PROVE SaveInv
  OBVIOUS
<1>1. TypeOK
  BY DEF Init, TypeOK, Values, Default, Empty
<1>2. QED
  BY <1>1, StoreAssumption
     DEF Init, SaveInv, OneSaver, Sole, Busy, Current, Opened, Written, Apart, AlwaysLoads,
         StoreAssumption

(* Beside a handler that saves, or is free to, nobody does. *)
LEMMA OthersIdle ==
  ASSUME SaveInv, NEW w \in Writers, pc[w] # "idle" \/ lock = None
  PROVE  \A u \in Writers : u # w => pc[u] = "idle"
BY StoreAssumption DEF SaveInv, Sole, Busy, StoreAssumption

(* The end of a handler keeps saves apart. *)
LEMMA SoleFinish ==
  ASSUME SaveInv, NEW w \in Writers, pc[w] # "idle", Finish(w)
  PROVE  Sole'
<1>1. \A u \in Writers : pc'[u] = "idle"
  BY OthersIdle DEF Finish, SaveInv, TypeOK
<1>2. QED
  BY <1>1, StoreAssumption DEF SaveInv, Sole, Busy, Finish, Unlocked, StoreAssumption

(* A change of the value keeps the invariant. *)
LEMMA SaveChange ==
  ASSUME SaveInv, NEW w \in Writers, NEW v \in Values, Change(w, v)
  PROVE  SaveInv'
<1>1. \A u \in Writers : u # w => pc[u] = "idle"
  BY OthersIdle DEF Change
<1> USE StoreAssumption
    DEF SaveInv, TypeOK, Current, Opened, Written, Apart, AlwaysLoads, StoreAssumption,
        fileVars
<1>2. TypeOK'
  BY DEF Change
<1>3. UNCHANGED <<live, tmp, text, fd, dropped>>
      /\ pc' = [pc EXCEPT ![w] = "open"] /\ mine' = [mine EXCEPT ![w] = v]
      /\ lock = None /\ lock' = (IF LockedSave THEN w ELSE None) /\ memory' = v
  BY DEF Change
<1>4. Current' /\ Opened' /\ Written'
  BY <1>1, <1>3
<1>5. Sole'
  BY <1>1, <1>3 DEF Sole, Busy
<1>6. QED
  BY <1>2, <1>3, <1>4, <1>5

(* Opening the temporary file keeps it. *)
LEMMA SaveOpen ==
  ASSUME SaveInv, NEW w \in Writers, Open(w)
  PROVE  SaveInv' /\ (live # None => text'[live] = text[live])
<1>0. \A u \in Writers : u # w => pc[u] = "idle"
  BY OthersIdle DEF Open
<1> USE StoreAssumption
    DEF SaveInv, TypeOK, Current, Opened, Written, Apart, AlwaysLoads, StoreAssumption
<1>1. PICK i \in Inodes :
        /\ IF tmp = None THEN Free(i) ELSE i = tmp
        /\ tmp' = i
        /\ text' = [text EXCEPT ![i] = Empty]
        /\ fd' = [fd EXCEPT ![w] = i]
  BY DEF Open
<1>2. pc' = [pc EXCEPT ![w] = "write"] /\ pc[w] = "open"
      /\ UNCHANGED <<memory, lock, live, mine, dropped, up>>
  BY DEF Open
<1>3. i # live /\ i # None
  BY <1>1 DEF Free
<1>4. TypeOK'
  <2>1. text' \in [Inodes -> [head : {None} \cup Values, size : Nat]]
    BY <1>1 DEF Empty
  <2>2. QED
    BY <1>1, <1>2, <2>1
<1>5. AlwaysLoads' /\ (live # None => text'[live] = text[live])
  BY <1>1, <1>2, <1>3
<1>6. Sole' /\ Current'
  BY <1>2 DEF Sole, Busy
<1>7. \A u \in Writers : u # w => pc'[u] = "idle"
  BY <1>0, <1>2
<1>8. Opened' /\ Written' /\ Apart'
  BY <1>1, <1>2, <1>3, <1>7
<1>9. QED
  BY <1>2, <1>4, <1>5, <1>6, <1>8

(* Writing it, in whole or in part, keeps it. *)
LEMMA SaveWrite ==
  ASSUME SaveInv, NEW w \in Writers, Write(w)
  PROVE  SaveInv' /\ (live # None => text'[live] = text[live])
<1>2. \A u \in Writers : u # w => pc[u] = "idle"
  BY OthersIdle DEF Write
<1> USE StoreAssumption
    DEF SaveInv, TypeOK, Current, Opened, Written, Apart, AlwaysLoads, StoreAssumption
<1>1. pc[w] = "write" /\ tmp # None /\ fd[w] = tmp /\ text[tmp] = Empty
      /\ tmp \in Inodes /\ tmp # live
      /\ UNCHANGED <<memory, live, tmp, mine, up>>
  BY DEF Write
<1>3. CASE /\ text' = [text EXCEPT ![fd[w]] = Over(mine[w], @)]
           /\ w \notin dropped
           /\ pc' = [pc EXCEPT ![w] = "rename"] /\ fd' = [fd EXCEPT ![w] = None]
           /\ UNCHANGED <<lock, dropped>>
  <2>1. text' = [text EXCEPT ![tmp] = Text(mine[w])]
    BY <1>1, <1>3, OverEmpty
  <2>2. Text(mine[w]) \in [head : {None} \cup Values, size : Nat]
    BY LengthType DEF Text
  <2>3. TypeOK'
    BY <1>1, <1>3, <2>1, <2>2
  <2>4. Current' /\ Opened' /\ Written' /\ Apart' /\ AlwaysLoads'
    BY <1>1, <1>2, <1>3, <2>1
  <2>5. Sole'
    BY <1>1, <1>3 DEF Sole, Busy
  <2>6. QED
    BY <1>1, <2>1, <2>3, <2>4, <2>5
<1>4. ASSUME NEW t \in [head : {None} \cup Values, size : Nat],
             text' = [text EXCEPT ![tmp] = t], Finish(w)
      PROVE  SaveInv' /\ (live # None => text'[live] = text[live])
  <2>1. /\ pc' = [pc EXCEPT ![w] = "idle"] /\ fd' = [fd EXCEPT ![w] = None]
        /\ dropped' \subseteq Writers /\ lock' \in Writers \cup {None}
    BY <1>4 DEF Finish, Unlocked
  <2>2. TypeOK'
    BY <1>1, <1>4, <2>1
  <2>3. Current' /\ Opened' /\ Written' /\ Apart' /\ AlwaysLoads'
    BY <1>1, <1>2, <1>4, <2>1
  <2>4. Sole'
    BY <1>1, <1>4, SoleFinish
  <2>5. QED
    BY <1>1, <1>4, <2>2, <2>3, <2>4
<1>5. CASE text' = [text EXCEPT ![fd[w]] = Over(mine[w], @)] /\ Finish(w)
  <2>1. Over(mine[w], text[tmp]) \in [head : {None} \cup Values, size : Nat]
    BY <1>1, TextType
  <2>2. QED
    BY <1>1, <1>4, <1>5, <2>1
<1>6. CASE text' = [text EXCEPT ![fd[w]] = [head |-> None, size |-> @.size]] /\ Finish(w)
  <2>1. [head |-> None, size |-> text[tmp].size] \in [head : {None} \cup Values, size : Nat]
    BY <1>1
  <2>2. QED
    BY <1>1, <1>4, <1>6, <2>1
<1>7. QED
  BY <1>3, <1>5, <1>6 DEF Write

(* The rename, which never misses its file, keeps it. *)
LEMMA SaveRename ==
  ASSUME SaveInv, NEW w \in Writers, Rename(w) \/ RenameFails(w)
  PROVE  SaveInv' /\ Rename(w) /\ text[tmp] = Text(memory)
<1>0. Sole'
  BY SoleFinish DEF Rename, RenameFails, Failed
<1>1. \A u \in Writers : u # w => pc[u] = "idle"
  BY OthersIdle DEF Rename, RenameFails
<1> USE StoreAssumption
    DEF SaveInv, TypeOK, Current, Opened, Written, Apart, AlwaysLoads, StoreAssumption
<1>2. Rename(w) /\ text[tmp] = Text(memory)
  BY DEF Rename, RenameFails
<1>3. /\ pc' = [pc EXCEPT ![w] = "idle"] /\ fd' = [fd EXCEPT ![w] = None]
      /\ dropped' \subseteq Writers /\ lock' \in Writers \cup {None}
      /\ live' = tmp /\ tmp' = None /\ UNCHANGED <<memory, text, mine, up>>
  BY <1>2 DEF Rename, Finish, Unlocked
<1>4. \A u \in Writers : pc'[u] = "idle"
  BY <1>1, <1>3
<1>5. AlwaysLoads'
  BY <1>2, <1>3, TextParses
<1>6. QED
  BY <1>0, <1>2, <1>3, <1>4, <1>5

(* A crash finds a file that parses. *)
LEMMA SaveCrash ==
  ASSUME OneSaver, SaveInv, Crash
  PROVE  /\ SaveInv' /\ UNCHANGED <<live, text>>
         /\ memory' = IF live = None THEN Default ELSE text[live].head
<1> USE StoreAssumption
    DEF SaveInv, TypeOK, Current, Opened, Written, Apart, AlwaysLoads, StoreAssumption
<1>1. /\ up' /\ lock' = None /\ dropped' = {} /\ UNCHANGED <<live, tmp, text, mine>>
      /\ memory' = IF live = None THEN Default ELSE text[live].head
      /\ pc' = [w \in Writers |-> "idle"] /\ fd' = [w \in Writers |-> None]
  BY DEF Crash, fileVars
<1>2. memory' \in Values
  BY <1>1 DEF Parses, Values, Default
<1>3. Sole'
  BY <1>1 DEF OneSaver, Sole, Busy
<1>4. QED
  BY <1>1, <1>2, <1>3

(* A step of a handler keeps the invariant. *)
LEMMA SaveHandle ==
  ASSUME SaveInv, NEW w \in Writers, Handle(w)
  PROVE  SaveInv'
<1>1. CASE \E v \in Values : Replace(w, v)
  BY <1>1, SaveChange DEF Replace
<1>2. CASE \E n \in Names : Toggle(w, n)
  <2>1. PICK n \in Names : Toggle(w, n)
    BY <1>2
  <2>2. (IF n \in memory THEN memory \ {n} ELSE memory \cup {n}) \in Values
    BY DEF SaveInv, TypeOK, Values
  <2>3. QED
    BY <2>1, <2>2, SaveChange DEF Toggle
<1>3. QED
  BY <1>1, <1>2, SaveOpen, SaveWrite, SaveRename DEF Handle, Saving

(* One step of any kind keeps it. *)
LEMMA SaveNext ==
  ASSUME OneSaver, SaveInv, [Next]_vars
  PROVE  SaveInv'
<1>1. CASE UNCHANGED vars
  BY <1>1 DEF vars, fileVars, handlerVars, SaveInv, TypeOK, Sole, Busy, Current, Opened,
       Written, Apart, AlwaysLoads
<1>2. QED
  BY <1>1, SaveHandle, SaveCrash DEF Next, Abort, OneSaver

(* The invariant under that assumption on the run. *)
LEMMA SaveInvariant ==
  ASSUME OneSaver
  PROVE  Spec => []SaveInv
<1>1. SaveInv /\ [Next]_vars => SaveInv'
  BY SaveNext
<1>2. QED
  BY <1>1, SaveInit, PTL DEF Spec

(* The saved file parses at every moment, so every restart gets past it.   *)
THEOREM AlwaysLoadsHolds ==
  ASSUME OneSaver
  PROVE  Spec => []AlwaysLoads
<1>1. SaveInv => AlwaysLoads
  BY DEF SaveInv
<1>2. QED
  BY <1>1, SaveInvariant, PTL

-----------------------------------------------------------------------------
(* Refinement. *)

(* The service starts as the register does: nothing saved yet. *)
LEMMA DiskInit == Init => Abstract!Init
BY DEF Init, Abstract!Init, Disk

(* What is on disk changes with the directory entry or its text. *)
LEMMA DiskKept ==
  ASSUME UNCHANGED live, live # None => text'[live] = text[live]
  PROVE  Disk' = Disk
BY DEF Disk

(* Every step of a handler is a step of the register. *)
LEMMA DiskHandle ==
  ASSUME SaveInv, NEW w \in Writers, Handle(w)
  PROVE  Abstract!Next
<1>1. CASE Rename(w)
  <2>1. text[tmp] = Text(memory) /\ memory \in Values
    BY <1>1, SaveRename DEF SaveInv, TypeOK
  <2>2. live' = tmp /\ UNCHANGED <<memory, text>> /\ tmp # None
    BY <1>1 DEF Rename
  <2>3. Disk' = memory
    BY <2>1, <2>2, TextParses DEF Disk
  <2>4. QED
    BY <2>2, <2>3 DEF Abstract!Save, Abstract!Next
<1>2. CASE ~Rename(w)
  <2>1. UNCHANGED live /\ (live # None => text'[live] = text[live])
    <3>1. CASE Open(w)
      BY <3>1, SaveOpen DEF Open
    <3>2. CASE Write(w)
      BY <3>2, SaveWrite DEF Write
    <3>3. CASE UNCHANGED <<live, text>>
      BY <3>3
    <3>4. QED
      BY <1>2, <3>1, <3>2, <3>3, SaveRename
         DEF Handle, Saving, Replace, Toggle, Change, RenameFails, Failed, fileVars
  <2>2. Disk' = Disk
    BY <2>1, DiskKept
  <2>3. memory' \in Values
    BY SaveHandle DEF SaveInv, TypeOK
  <2>4. QED
    BY <2>2, <2>3 DEF Abstract!Change, Abstract!Next
<1>3. QED
  BY <1>1, <1>2

(* The load of a start brings back what is on disk. *)
LEMMA DiskLoad ==
  ASSUME AlwaysLoads, UNCHANGED <<live, text>>,
         memory' = IF live = None THEN Default ELSE text[live].head
  PROVE  Abstract!Restart
<1>1. Disk' = Disk
  BY DiskKept
<1>2. live = None <=> Disk = None
  BY DEF Disk, AlwaysLoads, Parses
<1>3. live # None => Disk = text[live].head
  BY DEF Disk, AlwaysLoads
<1>4. QED
  BY <1>1, <1>2, <1>3 DEF Abstract!Restart

(* Every step of the file protocol is a step of the register or a stutter. *)
LEMMA DiskNext ==
  ASSUME OneSaver, SaveInv, [Next]_vars
  PROVE  [Abstract!Next]_<<memory, Disk>>
<1>1. ASSUME Crash PROVE Abstract!Next
  BY <1>1, SaveCrash, DiskLoad DEF SaveInv, Abstract!Next
<1>2. CASE UNCHANGED vars
  BY <1>2, DiskKept DEF vars, fileVars
<1>3. QED
  BY <1>1, <1>2, DiskHandle DEF Next, Abort, OneSaver

(* A save is one atomic store of the current value and a restart brings    *)
(* the stored value back: JsonStore implements Register.                   *)
THEOREM AtomicSaveHolds ==
  ASSUME OneSaver
  PROVE  Spec => AtomicSave
<1>1. SaveInv /\ [Next]_vars => [Abstract!Next]_<<memory, Disk>>
  BY DiskNext
<1>2. QED
  BY <1>1, DiskInit, SaveInvariant, PTL DEF Spec, AtomicSave, Abstract!Spec

-----------------------------------------------------------------------------
(* With every fault, dropped handlers included. *)

(* The state is well typed whatever goes wrong. *)
LEMMA TypeNext == TypeOK /\ [Next]_vars => TypeOK'
<1> SUFFICES ASSUME TypeOK, [Next]_vars PROVE TypeOK'
  OBVIOUS
<1> USE StoreAssumption DEF TypeOK, StoreAssumption
<1>1. ASSUME NEW w \in Writers, NEW v \in Values, Change(w, v) PROVE TypeOK'
  BY <1>1 DEF Change, fileVars
<1>2. ASSUME NEW w \in Writers, Open(w) PROVE TypeOK'
  <2>1. PICK i \in Inodes : /\ tmp' = i
                           /\ text' = [text EXCEPT ![i] = Empty]
                           /\ fd' = [fd EXCEPT ![w] = i]
    BY <1>2 DEF Open
  <2>2. text' \in [Inodes -> [head : {None} \cup Values, size : Nat]]
    BY <2>1 DEF Empty
  <2>3. QED
    BY <1>2, <2>1, <2>2 DEF Open
<1>3. ASSUME NEW w \in Writers, Finish(w)
      PROVE  /\ pc' \in [Writers -> {"idle", "open", "write", "rename"}]
             /\ fd' \in [Writers -> Inodes \cup {None}] /\ dropped' \subseteq Writers
             /\ lock' \in Writers \cup {None}
  BY <1>3 DEF Finish, Unlocked
<1>4. ASSUME NEW w \in Writers, Write(w) PROVE TypeOK'
  <2>1. \A t \in [head : {None} \cup Values, size : Nat] :
          /\ Over(mine[w], t) \in [head : {None} \cup Values, size : Nat]
          /\ [head |-> None, size |-> t.size] \in [head : {None} \cup Values, size : Nat]
    BY TextType
  <2>2. text' \in [Inodes -> [head : {None} \cup Values, size : Nat]]
    <3>1. \/ text' = [text EXCEPT ![fd[w]] = Over(mine[w], @)]
          \/ text' = [text EXCEPT ![fd[w]] = [head |-> None, size |-> @.size]]
      BY <1>4 DEF Write
    <3>2. QED
      BY <2>1, <3>1
  <2>3. UNCHANGED <<memory, live, tmp, mine, up>>
    BY <1>4 DEF Write
  <2>4. CASE Finish(w)
    BY <1>3, <2>2, <2>3, <2>4
  <2>5. CASE ~Finish(w)
    BY <1>4, <2>2, <2>3, <2>5 DEF Write
  <2>6. QED
    BY <2>4, <2>5
<1>5. ASSUME NEW w \in Writers, Rename(w) \/ RenameFails(w) PROVE TypeOK'
  BY <1>3, <1>5 DEF Rename, RenameFails, Failed
<1>6. ASSUME NEW w \in Writers, Abort(w) PROVE TypeOK'
  BY <1>3, <1>6 DEF Abort, Unlocked, fileVars
<1>7. CASE Crash
  BY <1>7 DEF Crash, Parses, Values, Default, fileVars
<1>8. CASE UNCHANGED vars
  BY <1>8 DEF vars, fileVars, handlerVars
<1>9. ASSUME NEW w \in Writers, NEW n \in Names, Toggle(w, n) PROVE TypeOK'
  <2>1. (IF n \in memory THEN memory \ {n} ELSE memory \cup {n}) \in Values
    BY DEF Values
  <2>2. QED
    BY <1>1, <1>9, <2>1 DEF Toggle
<1>10. QED
  BY <1>1, <1>2, <1>4, <1>5, <1>6, <1>7, <1>8, <1>9 DEF Next, Handle, Saving, Replace

(* The store's state is well typed for any writers and any faults. *)
THEOREM TypeCorrect == Spec => []TypeOK
<1>1. Init => TypeOK
  BY DEF Init, TypeOK, Values, Default, Empty
<1>2. QED
  BY <1>1, TypeNext, PTL DEF Spec
=============================================================================
