----------------------------- MODULE JsonStore ------------------------------
(***************************************************************************)
(* One JSON file of the data directory and the value in memory that it     *)
(* saves: write_json_atomic (store.rs) at the level of the file system,    *)
(* called by concurrent request handlers, and the load at the next start.  *)
(*                                                                         *)
(* write_json_atomic truncates and writes <name>.tmp and renames it over   *)
(* the file.  Both are jobs of tokio's blocking pool: a handler that is    *)
(* dropped while it waits for a job does not stop the job.  save_nodes and *)
(* save_runtime are called inside the write lock of the value they save,   *)
(* save_settings after it: LockedSave tells the two apart.                 *)
(*                                                                         *)
(* The value is a set of names, as the favorite list is, and a longer list *)
(* makes a longer text.  What a file holds is the value its text starts    *)
(* with and the length of the text: a text over a longer one that was not  *)
(* truncated leaves a tail, and does not parse.                            *)
(***************************************************************************)
EXTENDS Naturals, FiniteSets

CONSTANTS
  Names,      \* what a value is made of
  Writers,    \* concurrent request handlers
  Inodes,     \* the files the directory may hold at once
  None,
  LockedSave, \* the save runs under the lock of the value
  Faults      \* what may go wrong

ASSUME StoreAssumption ==
  /\ IsFiniteSet(Names)
  /\ None \notin Inodes \cup Writers /\ \A v \in SUBSET Names : v # None
  /\ LockedSave \in BOOLEAN
  /\ Faults \subseteq {"abort", "crash", "full"}

VARIABLES
  memory, lock,     \* the value and the owner of its write lock
  live, tmp,        \* the two directory entries
  text,             \* per inode: the text it holds
  pc, mine, fd,     \* per handler: step, value to save, open file
  dropped,          \* the handlers that are gone while their job runs on
  up                \* the service runs

fileVars == <<live, tmp, text>>
handlerVars == <<pc, mine, fd, dropped>>
vars == <<memory, lock, fileVars, handlerVars, up>>

Values == SUBSET Names
Default == {}

Length(v) == Cardinality(v) + 1
Text(v) == [head |-> v, size |-> Length(v)]
Empty == [head |-> None, size |-> 0]

(* Written from offset 0 over a text that may be longer. *)
Over(v, t) ==
  [head |-> v, size |-> IF t.size > Length(v) THEN t.size ELSE Length(v)]

(* serde_json reads the whole text or reports an error. *)
Parses(t) == t.head # None /\ t = Text(t.head)

Init ==
  /\ memory = Default /\ lock = None
  /\ live = None /\ tmp = None
  /\ text = [i \in Inodes |-> Empty]
  /\ pc = [w \in Writers |-> "idle"] /\ mine = [w \in Writers |-> Default]
  /\ fd = [w \in Writers |-> None] /\ dropped = {}
  /\ up = TRUE

-----------------------------------------------------------------------------

Unlocked(w) == IF lock = w THEN None ELSE lock

(* The lock given back before the save. *)
ChangeUnlocked(w, v) ==
  /\ up /\ pc[w] = "idle" /\ lock = None
  /\ memory' = v
  /\ mine' = [mine EXCEPT ![w] = v]
  /\ pc' = [pc EXCEPT ![w] = "open"]
  /\ UNCHANGED <<fileVars, lock, fd, dropped, up>>

(* The handler's own part: change the value under the lock and copy it.    *)
Change(w, v) ==
  /\ up /\ pc[w] = "idle" /\ lock = None
  /\ memory' = v
  /\ mine' = [mine EXCEPT ![w] = v]
  /\ lock' = IF LockedSave THEN w ELSE None
  /\ pc' = [pc EXCEPT ![w] = "open"]
  /\ UNCHANGED <<fileVars, fd, dropped, up>>

Replace(w, v) == Change(w, v)

Toggle(w, n) ==
  Change(w, IF n \in memory THEN memory \ {n} ELSE memory \cup {n})

(* The handler is done, or its job is when the handler is gone. *)
Finish(w) ==
  /\ pc' = [pc EXCEPT ![w] = "idle"] /\ fd' = [fd EXCEPT ![w] = None]
  /\ dropped' = dropped \ {w}
  /\ lock' = Unlocked(w)

Failed(w) ==
  /\ Finish(w)
  /\ UNCHANGED <<memory, live, tmp, text, mine, up>>

Free(i) == i \notin {live, tmp} /\ \A w \in Writers : fd[w] # i

(* std::fs::write opens with O_CREAT and O_TRUNC.  Without the second the  *)
(* text a crash has left in <name>.tmp stays under the new one.            *)
OpenKeepsText(w) ==
  /\ pc[w] = "open"
  /\ \E i \in Inodes :
       /\ IF tmp = None THEN Free(i) ELSE i = tmp
       /\ tmp' = i
       /\ fd' = [fd EXCEPT ![w] = i]
  /\ pc' = [pc EXCEPT ![w] = "write"]
  /\ UNCHANGED <<memory, lock, live, text, mine, dropped, up>>

Open(w) ==
  /\ pc[w] = "open"
  /\ \E i \in Inodes :
       /\ IF tmp = None THEN Free(i) ELSE i = tmp
       /\ tmp' = i
       /\ text' = [text EXCEPT ![i] = Empty]
       /\ fd' = [fd EXCEPT ![w] = i]
  /\ pc' = [pc EXCEPT ![w] = "write"]
  /\ UNCHANGED <<memory, lock, live, mine, dropped, up>>

(* Then write_all.  A full disk takes a part of the text and ends in an *)
(* error.  The job of a dropped handler ends here: nobody renames.         *)
Write(w) ==
  /\ pc[w] = "write"
  /\ \/ /\ text' = [text EXCEPT ![fd[w]] = Over(mine[w], @)]
        /\ w \notin dropped
        /\ pc' = [pc EXCEPT ![w] = "rename"] /\ fd' = [fd EXCEPT ![w] = None]
        /\ UNCHANGED <<lock, dropped>>
     \/ /\ text' = [text EXCEPT ![fd[w]] = Over(mine[w], @)]
        /\ w \in dropped
        /\ Finish(w)
     \/ /\ "full" \in Faults
        /\ text' = [text EXCEPT ![fd[w]] = [head |-> None, size |-> @.size]]
        /\ Finish(w)
  /\ UNCHANGED <<memory, live, tmp, mine, up>>

(* The rename moves whatever <name>.tmp is by now; without one it fails.   *)
Rename(w) ==
  /\ pc[w] = "rename" /\ tmp # None
  /\ live' = tmp /\ tmp' = None
  /\ Finish(w)
  /\ UNCHANGED <<memory, text, mine, up>>

RenameFails(w) == pc[w] = "rename" /\ tmp = None /\ Failed(w)

-----------------------------------------------------------------------------
(* The environment. *)

(* The handler is dropped.  The job it waits for runs on, and none is      *)
(* queued only where a handler can be dropped before its first job: in the *)
(* log call between the settings lock and the save.                        *)
Abort(w) ==
  /\ "abort" \in Faults
  /\ pc[w] # "idle" /\ w \notin dropped
  /\ \/ /\ dropped' = dropped \cup {w} /\ lock' = Unlocked(w)
        /\ UNCHANGED <<pc, fd>>
     \/ /\ pc[w] = "open" /\ ~LockedSave
        /\ Finish(w)
  /\ UNCHANGED <<memory, fileVars, mine, up>>

(* The process dies and is started again.  A file that is missing gives    *)
(* the default, one that does not parse ends main, at every restart.       *)
Crash ==
  /\ "crash" \in Faults
  /\ up' = (live = None \/ Parses(text[live]))
  /\ memory' = IF ~up' THEN memory ELSE IF live = None THEN Default ELSE text[live].head
  /\ lock' = None
  /\ pc' = [w \in Writers |-> "idle"] /\ fd' = [w \in Writers |-> None]
  /\ dropped' = {}
  /\ UNCHANGED <<fileVars, mine>>

-----------------------------------------------------------------------------

Saving(w) == Open(w) \/ Write(w) \/ Rename(w) \/ RenameFails(w)

Handle(w) ==
  \/ \E v \in Values : Replace(w, v)
  \/ \E n \in Names : Toggle(w, n)
  \/ Saving(w)

Next == (\E w \in Writers : Handle(w) \/ Abort(w)) \/ Crash

Spec == Init /\ [][Next]_vars

-----------------------------------------------------------------------------
(* Properties. *)

TypeOK ==
  /\ memory \in Values /\ lock \in Writers \cup {None}
  /\ live \in Inodes \cup {None} /\ tmp \in Inodes \cup {None}
  /\ text \in [Inodes -> [head : {None} \cup Values, size : Nat]]
  /\ pc \in [Writers -> {"idle", "open", "write", "rename"}]
  /\ mine \in [Writers -> Values]
  /\ fd \in [Writers -> Inodes \cup {None}] /\ dropped \subseteq Writers
  /\ up \in BOOLEAN

(* The file parses at every moment, whatever jobs are under way and        *)
(* wherever a crash cuts them: the next start of main gets past its load.  *)
AlwaysLoads == live # None => Parses(text[live])

(* The file behaves as one register: a save stores the whole current value *)
(* in one step, a restart brings the stored value back.                    *)
Disk ==
  IF live = None THEN None
  ELSE IF Parses(text[live]) THEN text[live].head ELSE text[live]

Abstract == INSTANCE Register WITH disk <- Disk

AtomicSave == Abstract!Spec
=============================================================================
