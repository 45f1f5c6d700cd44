------------------------------- MODULE StoreFile -------------------------------
(***************************************************************************)
(* internal/store/store.go below the level of Store.tla: an operation      *)
(* takes Store.mu, changes the map, writes the whole of it to path.tmp,    *)
(* renames that over path and unlocks.  The process may die between any    *)
(* two of these, a full disk may fail the write, and Open reads path only. *)
(* Store.tla takes all this as one step: DurableMap is what it relies on.  *)
(*                                                                         *)
(* A file is what decoding it gives: Missing, a whole map, or Torn when    *)
(* its writer stopped halfway.  The machine itself does not lose power, so *)
(* what has been written is there for the next process.                    *)
(***************************************************************************)
CONSTANTS
  Keys, Values, None,   \* grabs, what they can be, and no entry
  Callers,              \* goroutines that call the store
  Nobody,               \* the holder of a free mutex
  Missing, Torn

\* What the file can hold.
FileMaps == [Keys -> Values \union {None}]

ASSUME FileAssumption ==
  /\ Nobody \notin Callers
  /\ Missing \notin FileMaps
  /\ Torn \notin FileMaps
  /\ Torn # Missing

VARIABLES
  memory,     \* Store.grabs
  file, tmp,  \* path and path.tmp
  holder,     \* who holds Store.mu
  stage,      \* where each caller is
  reply,      \* what its last call returned
  up          \* Open has returned

fileVars == <<memory, file, tmp, holder, stage, reply, up>>

Outcomes == {"ok", "error", "missing"}
FileStages == {"idle", "lock", "apply", "create", "write", "rename"} \union Outcomes

EmptyMap == [k \in Keys |-> None]

\* What Open makes of the file; an undecodable one stays what it is.
Contents(f) == IF f = Missing THEN EmptyMap ELSE f

FileInit ==
  /\ memory = EmptyMap
  /\ file = Missing /\ tmp = Missing
  /\ holder = Nobody
  /\ stage = [c \in Callers |-> "idle"]
  /\ reply = [c \in Callers |-> "none"]
  /\ up = TRUE

At(c, from, to) == stage[c] = from /\ stage' = [stage EXCEPT ![c] = to]

Call(c) ==
  /\ up
  /\ At(c, "idle", "lock")
  /\ reply' = [reply EXCEPT ![c] = "none"]
  /\ UNCHANGED <<memory, file, tmp, holder, up>>

\* Mutant: no mutex.
LockNoStore(c) ==
  /\ At(c, "lock", "apply")
  /\ UNCHANGED <<memory, file, tmp, holder, reply, up>>

LockStore(c) ==
  /\ holder = Nobody
  /\ At(c, "lock", "apply")
  /\ holder' = c
  /\ UNCHANGED <<memory, file, tmp, reply, up>>

\* Put and Delete; Update of a grab that is there.
ChangeEntry(c) ==
  /\ At(c, "apply", "create")
  /\ \E k \in Keys, v \in Values \union {None} : memory' = [memory EXCEPT ![k] = v]
  /\ UNCHANGED <<file, tmp, holder, reply, up>>

\* Update of a grab that is gone.
UpdateMissing(c) ==
  /\ \E k \in Keys : memory[k] = None
  /\ At(c, "apply", "missing")
  /\ UNCHANGED <<memory, file, tmp, holder, reply, up>>

\* Mutant: the file is written in place.
WriteInPlace(c) ==
  /\ At(c, "create", "write")
  /\ tmp' = Torn
  /\ file' = Torn
  /\ UNCHANGED <<memory, holder, reply, up>>

\* os.WriteFile truncates path.tmp, or cannot open it.
CreateTmp(c) ==
  /\ \/ At(c, "create", "write") /\ tmp' = Torn
     \/ At(c, "create", "error") /\ UNCHANGED tmp
  /\ UNCHANGED <<memory, file, holder, reply, up>>

\* It writes every byte, or stops at the first that does not fit.
WriteTmp(c) ==
  /\ \/ At(c, "write", "rename") /\ tmp' = memory
     \/ At(c, "write", "error") /\ UNCHANGED tmp
  /\ UNCHANGED <<memory, file, holder, reply, up>>

RenameTmp(c) ==
  /\ \/ At(c, "rename", "ok") /\ file' = tmp /\ tmp' = Missing
     \/ At(c, "rename", "error") /\ UNCHANGED <<file, tmp>>
  /\ UNCHANGED <<memory, holder, reply, up>>

\* The deferred Unlock.  Every caller but the tests drops the error.
Unlock(c) ==
  /\ stage[c] \in Outcomes
  /\ At(c, stage[c], "idle")
  /\ reply' = [reply EXCEPT ![c] = stage[c]]
  /\ holder' = Nobody
  /\ UNCHANGED <<memory, file, tmp, up>>

ProcessDies ==
  /\ up
  /\ up' = FALSE
  /\ memory' = EmptyMap
  /\ holder' = Nobody
  /\ stage' = [c \in Callers |-> "idle"]
  /\ reply' = [c \in Callers |-> "none"]
  /\ UNCHANGED <<file, tmp>>

\* Open answers an error for a file it cannot decode, and main exits.
Open ==
  /\ ~up
  /\ file # Torn
  /\ memory' = Contents(file)
  /\ up' = TRUE
  /\ UNCHANGED <<file, tmp, holder, stage, reply>>

FileNext ==
  \/ \E c \in Callers :
       \/ Call(c)      \/ LockStore(c) \/ ChangeEntry(c) \/ UpdateMissing(c)
       \/ CreateTmp(c) \/ WriteTmp(c)  \/ RenameTmp(c)   \/ Unlock(c)
  \/ ProcessDies
  \/ Open

FileSpec == FileInit /\ [][FileNext]_fileVars

-------------------------------------------------------------------------------
(***************************************************************************)
(* The map of callers is the one in memory while there is one; what a      *)
(* restart finds is the file.                                              *)
(***************************************************************************)
Promised == INSTANCE DurableMap WITH
  mem <- IF up THEN memory ELSE Contents(file),
  disk <- Contents(file),
  answer <- reply

(***************************************************************************)
(* Whatever is interrupted or fails, store.go keeps DurableMap's promise:  *)
(* a restart finds a whole earlier map and no mixture, path.tmp is never   *)
(* taken for it, and an operation that returned nil is in it although      *)
(* other callers' operations failed before, meanwhile or since.            *)
(***************************************************************************)
StoreIsDurable == Promised!Spec
===============================================================================
