------------------------------ MODULE SonarrQueue ------------------------------
(***************************************************************************)
(* internal/sonarr/client.go: finding the queue record of a failed grab by *)
(* walking Sonarr's queue page by page, and removing that record.          *)
(*                                                                         *)
(* The queue is Sonarr's, external: records come, go and change places (it *)
(* is sorted by time left) between one page and the next.  Of a record the *)
(* walk sees whether it has the wanted downloadId; one grab may have       *)
(* several records, one per episode.  Grabber.tla takes the whole walk as  *)
(* one poll that finds the grab or does not.                               *)
(***************************************************************************)
EXTENDS Naturals, Sequences, FiniteSets, SequencesExt

CONSTANTS
  PageSize,     \* 100 in the code
  MaxRecords,   \* 500 in the code
  MaxQueue      \* bound: how long Sonarr's queue gets

ASSUME QueueAssumption ==
  /\ PageSize \in Nat \ {0}
  /\ MaxRecords \in Nat \ {0}
  /\ MaxQueue \in Nat

VARIABLES
  queue,      \* Sonarr's queue: TRUE for a record of the wanted grab
  walk,       \* the walk: where it is, the page it asks for, records seen so far
  disorder    \* since the walk began: what the queue went through, see Changed

queueVars == <<queue, walk, disorder>>

NoWalk == [pc |-> "idle", page |-> 1, seen |-> 0]

Calm == [shrunk |-> FALSE, missing |-> FALSE, far |-> FALSE]

Wanted == {i \in DOMAIN queue : queue[i]}

QueueInit == queue = <<>> /\ walk = NoWalk /\ disorder = Calm

(***************************************************************************)
(* What may keep a walk from seeing a record: a record before it left or   *)
(* it moved forward itself (shrunk), it was not there at some time         *)
(* (missing), or only beyond the cap (far).  The program has no such       *)
(* variable.                                                               *)
(***************************************************************************)
Changed(q, shrinks) ==
  LET found == {i \in DOMAIN q : q[i]}
  IN disorder' = [shrunk |-> disorder.shrunk \/ shrinks,
                  missing |-> disorder.missing \/ found = {},
                  far |-> disorder.far \/ \E i \in found : i > MaxRecords]

RecordArrives ==
  /\ Len(queue) < MaxQueue
  /\ \E i \in 1..(Len(queue) + 1), r \in BOOLEAN :
       /\ queue' = InsertAt(queue, i, r)
       /\ Changed(queue', FALSE)
  /\ UNCHANGED walk

RecordLeaves ==
  /\ \E i \in DOMAIN queue : queue' = RemoveAt(queue, i) /\ Changed(queue', TRUE)
  /\ UNCHANGED walk

Resort ==
  /\ \E i, j \in DOMAIN queue :
       /\ i < j
       /\ queue' = [queue EXCEPT ![i] = queue[j], ![j] = queue[i]]
       /\ Changed(queue', TRUE)
  /\ UNCHANGED walk

-------------------------------------------------------------------------------
StartWalk ==
  /\ walk.pc = "idle"
  /\ walk' = [NoWalk EXCEPT !.pc = "page"]
  /\ disorder' = [shrunk |-> FALSE, missing |-> Wanted = {},
                  far |-> \E i \in Wanted : i > MaxRecords]
  /\ UNCHANGED queue

Page(n) == {i \in DOMAIN queue : (n - 1) * PageSize < i /\ i <= n * PageSize}

\* Mutant: a full page ends the walk as a short one does.
LastPageFull(n, seen) == Len(queue) < n * PageSize \/ Cardinality(Page(n)) = PageSize

\* Mutant: no cap.
LastPageUncapped(n, seen) == Len(queue) < n * PageSize \/ seen >= Len(queue)

\* A short page, the answer's totalRecords, or the cap.
LastPage(n, seen) ==
  \/ Len(queue) < n * PageSize
  \/ seen >= Len(queue)
  \/ seen >= MaxRecords

\* One GET of a page and what FindByDownloadID makes of the answer.
ReadPage ==
  /\ walk.pc = "page"
  /\ LET n    == walk.page
         seen == walk.seen + Cardinality(Page(n))
     IN walk' = IF Page(n) \intersect Wanted # {} THEN [walk EXCEPT !.pc = "found"]
                ELSE IF LastPage(n, seen) THEN [walk EXCEPT !.pc = "missed", !.seen = seen]
                ELSE [walk EXCEPT !.page = n + 1, !.seen = seen]
  /\ UNCHANGED <<queue, disorder>>

\* RemoveAndBlocklist, by the record's id.  Sonarr drops what the grab has in
\* its queue and keeps the others' records, or answers 404 when all of it is gone.
Blocklist ==
  /\ walk.pc = "found"
  /\ queue' = [i \in 1..(Len(queue) - Cardinality(Wanted)) |-> FALSE]
  /\ walk' = NoWalk
  /\ disorder' = Calm

\* The caller waits for its next attempt; a GET or the DELETE failed.
GiveUp ==
  /\ walk.pc \in {"page", "found", "missed"}
  /\ walk' = NoWalk
  /\ disorder' = Calm
  /\ UNCHANGED queue

QueueNext == RecordArrives \/ RecordLeaves \/ Resort \/ StartWalk \/ ReadPage \/ Blocklist \/ GiveUp

QueueSpec == QueueInit /\ [][QueueNext]_queueVars

-------------------------------------------------------------------------------
(***************************************************************************)
(* "Returns id, true if found": a walk that misses a grab which was in the *)
(* queue all along has been overtaken by it (records left or changed       *)
(* places while it read on) or has given up at the cap.  What merely       *)
(* arrives, at any place and at any time, hides nothing.                   *)
(***************************************************************************)
MissIsExcused == walk.pc = "missed" => disorder.shrunk \/ disorder.missing \/ disorder.far

(***************************************************************************)
(* "To keep us bounded ... we cap at 500 records": the walk never asks for *)
(* a page past the cap, however fast the queue grows ahead of it.          *)
(***************************************************************************)
WalkIsBounded == (walk.page - 1) * PageSize < MaxRecords
===============================================================================
