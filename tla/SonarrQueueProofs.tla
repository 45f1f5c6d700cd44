--------------------------- MODULE SonarrQueueProofs ---------------------------
(***************************************************************************)
(* Proofs about SonarrQueue: the walk is bounded for every page size, cap  *)
(* and queue, however the queue moves under it, and it misses no record    *)
(* without an excuse.                                                      *)
(***************************************************************************)
EXTENDS SonarrQueue, FiniteSetTheorems, TLAPS

\* A page that is not the last one is full.
LEMMA FullPage ==
  ASSUME NEW n \in Nat \ {0}, queue \in Seq(BOOLEAN), n * PageSize <= Len(queue)
  PROVE  Cardinality(Page(n)) = PageSize
<1> DEFINE lo == (n - 1) * PageSize
           hi == n * PageSize
<1>1. lo \in Nat /\ hi \in Nat /\ hi = lo + PageSize /\ PageSize \in Nat \ {0}
  BY QueueAssumption
<1>2. Page(n) = (lo + 1)..hi
  BY <1>1 DEF Page
<1>3. Cardinality((lo + 1)..hi) = hi - (lo + 1) + 1
  <2>. HIDE DEF lo, hi
  <2>. QED
    BY <1>1, FS_Interval
<1>. QED
  <2>. HIDE DEF lo, hi
  <2>. QED
    BY <1>1, <1>2, <1>3

\* What the walk has seen are the pages before the one it asks for.
WalkInv ==
  /\ queue \in Seq(BOOLEAN)
  /\ walk \in [pc : {"idle", "page", "found", "missed"}, page : Nat \ {0}, seen : Nat]
  /\ walk.pc = "page" => walk.seen = (walk.page - 1) * PageSize
  /\ WalkIsBounded

LEMMA Times == \A n \in Nat \ {0} : (n - 1) * PageSize \in Nat /\ n * PageSize = (n - 1) * PageSize + PageSize
BY QueueAssumption

LEMMA PageFinite == ASSUME queue \in Seq(BOOLEAN), NEW n \in Nat \ {0} PROVE Cardinality(Page(n)) \in Nat
<1>1. IsFiniteSet(1..Len(queue))
  BY FS_Interval
<1>2. Page(n) \subseteq 1..Len(queue)
  BY DEF Page
<1>. QED
  BY <1>1, <1>2, FS_Subset, FS_CardinalityType

LEMMA RemovedAt ==
  ASSUME NEW q \in Seq(BOOLEAN), NEW i \in DOMAIN q PROVE RemoveAt(q, i) \in Seq(BOOLEAN)
<1>1. /\ SubSeq(q, 1, i - 1) \in Seq(BOOLEAN)
      /\ SubSeq(q, i + 1, Len(q)) \in Seq(BOOLEAN)
  OBVIOUS
<1>. QED
  BY <1>1 DEF RemoveAt

LEMMA NextWalk == WalkInv /\ [QueueNext]_queueVars => WalkInv'
<1>. SUFFICES ASSUME WalkInv, [QueueNext]_queueVars PROVE WalkInv'
  OBVIOUS
<1>. USE QueueAssumption
<1>1. CASE UNCHANGED walk /\ queue' \in Seq(BOOLEAN)
  BY <1>1 DEF WalkInv, WalkIsBounded
<1>2. CASE walk' \in {NoWalk, [NoWalk EXCEPT !.pc = "page"]} /\ queue' \in Seq(BOOLEAN)
  <2>1. walk' \in [pc : {"idle", "page"}, page : {1}, seen : {0}]
    BY <1>2 DEF NoWalk
  <2>2. walk'.page = 1 /\ walk'.seen = 0
    BY <2>1
  <2>3. (walk'.page - 1) * PageSize = 0
    BY <2>2
  <2>. QED
    BY <1>2, <2>1, <2>2, <2>3 DEF WalkInv, WalkIsBounded
<1>3. CASE ReadPage
  <2> DEFINE n == walk.page
             seen == walk.seen + Cardinality(Page(n))
  <2>1. /\ n \in Nat \ {0} /\ walk.pc = "page" /\ UNCHANGED queue
        /\ walk.seen = (n - 1) * PageSize
        /\ queue \in Seq(BOOLEAN) /\ seen \in Nat
    BY <1>3, PageFinite DEF ReadPage, WalkInv
  <2>2. CASE walk' = [walk EXCEPT !.pc = "found"]
    BY <2>1, <2>2 DEF WalkInv, WalkIsBounded
  <2>3. CASE walk' = [walk EXCEPT !.pc = "missed", !.seen = seen]
    <3>. HIDE DEF seen
    <3>. QED
      BY <2>1, <2>3 DEF WalkInv, WalkIsBounded
  <2>4. CASE ~LastPage(n, seen) /\ walk' = [walk EXCEPT !.page = n + 1, !.seen = seen]
    <3>1. n * PageSize <= Len(queue) /\ seen < MaxRecords
      <4>1. n * PageSize \in Nat /\ Len(queue) \in Nat
        BY <2>1, Times
      <4>. QED
        BY <2>1, <2>4, <4>1 DEF LastPage
    <3>2. seen = n * PageSize
      BY <2>1, <3>1, FullPage, Times
    <3>3. walk'.page = n + 1 /\ walk'.seen = seen /\ walk' \in [pc : {"page"}, page : Nat \ {0}, seen : Nat]
      <4>. HIDE DEF seen
      <4>1. walk \in [pc : {"idle", "page", "found", "missed"}, page : Nat \ {0}, seen : Nat]
        BY DEF WalkInv
      <4>2. walk' = [pc |-> "page", page |-> n + 1, seen |-> seen]
        BY <2>1, <2>4, <4>1
      <4>3. n + 1 \in Nat \ {0} /\ seen \in Nat
        BY <2>1
      <4>. QED
        BY <4>2, <4>3
    <3>4. walk'.page - 1 = n
      BY <2>1, <3>3
    <3>5. (walk'.page - 1) * PageSize = seen
      BY <3>2, <3>4
    <3>. HIDE DEF seen
    <3>. QED
      BY <2>1, <3>1, <3>3, <3>5 DEF WalkInv, WalkIsBounded
  <2>. QED
    BY <1>3, <2>2, <2>3, <2>4 DEF ReadPage
<1>4. CASE RecordArrives
  <2>1. PICK i \in 1..(Len(queue) + 1), r \in BOOLEAN : queue' = InsertAt(queue, i, r)
    BY <1>4 DEF RecordArrives
  <2>2. queue' \in Seq(BOOLEAN)
    BY <2>1 DEF InsertAt, WalkInv
  <2>. QED
    BY <1>1, <1>4, <2>2 DEF RecordArrives
<1>5. CASE RecordLeaves
  <2>1. PICK i \in DOMAIN queue : queue' = RemoveAt(queue, i)
    BY <1>5 DEF RecordLeaves
  <2>2. queue' \in Seq(BOOLEAN)
    BY <2>1, RemovedAt DEF WalkInv
  <2>. QED
    BY <1>1, <1>5, <2>2 DEF RecordLeaves
<1>6. CASE Resort
  <2>1. queue' \in Seq(BOOLEAN)
    BY <1>6 DEF Resort, WalkInv
  <2>. QED
    BY <1>1, <1>6, <2>1 DEF Resort
<1>7. CASE Blocklist
  <2>1. queue \in Seq(BOOLEAN)
    BY DEF WalkInv
  <2>2. Wanted \subseteq 1..Len(queue) /\ Len(queue) \in Nat
    BY <2>1 DEF Wanted
  <2>3. Cardinality(Wanted) \in Nat /\ Cardinality(Wanted) <= Len(queue)
    <3>1. IsFiniteSet(1..Len(queue)) /\ Cardinality(1..Len(queue)) = Len(queue)
      BY <2>2, FS_Interval
    <3>. QED
      BY <2>2, <3>1, FS_Subset, FS_CardinalityType
  <2>4. Len(queue) - Cardinality(Wanted) \in Nat
    BY <2>2, <2>3
  <2>5. queue' \in Seq(BOOLEAN)
    <3>1. \A m \in Nat : [i \in 1..m |-> FALSE] \in Seq(BOOLEAN)
      OBVIOUS
    <3>. QED
      BY <1>7, <2>4, <3>1 DEF Blocklist
  <2>. QED
    BY <1>2, <1>7, <2>5 DEF Blocklist
<1>. QED
  BY <1>1, <1>2, <1>3, <1>4, <1>5, <1>6, <1>7 DEF QueueNext, StartWalk, GiveUp, queueVars, WalkInv

(***************************************************************************)
(* No walk asks for a page past the cap.                                   *)
(***************************************************************************)
THEOREM WalksAreBounded == QueueSpec => []WalkIsBounded
<1>1. QueueInit => WalkInv
  BY QueueAssumption DEF QueueInit, WalkInv, WalkIsBounded, NoWalk
<1>2. WalkInv => WalkIsBounded
  BY DEF WalkInv
<1>. QED
  BY <1>1, <1>2, NextWalk, PTL DEF QueueSpec

(***************************************************************************)
(* A walk with no excuse has a record of the grab still ahead of it, this  *)
(* side of the cap.                                                        *)
(***************************************************************************)
Excused == disorder.shrunk \/ disorder.missing \/ disorder.far

Ahead ==
  /\ \E w \in Wanted : (walk.page - 1) * PageSize < w
  /\ \A w \in Wanted : w <= MaxRecords

MissInv ==
  /\ walk.pc = "page" /\ ~Excused => Ahead
  /\ MissIsExcused

\* What arrives pushes a record away from the walk, never behind it.
LEMMA Inserted ==
  ASSUME NEW q \in Seq(BOOLEAN), NEW i \in 1..(Len(q) + 1), NEW r \in BOOLEAN
  PROVE  /\ InsertAt(q, i, r) \in Seq(BOOLEAN)
         /\ Len(InsertAt(q, i, r)) = Len(q) + 1
         /\ \A w \in 1..Len(q) : \E v \in {w, w + 1} : InsertAt(q, i, r)[v] = q[w]
<1> DEFINE a == SubSeq(q, 1, i - 1)
           b == SubSeq(q, i, Len(q))
<1>1. /\ a \in Seq(BOOLEAN) /\ Len(a) = i - 1
      /\ \A w \in 1..(i - 1) : a[w] = q[w]
  OBVIOUS
<1>2. /\ b \in Seq(BOOLEAN) /\ Len(b) = Len(q) + 1 - i
      /\ \A w \in 1..(Len(q) + 1 - i) : b[w] = q[w + i - 1]
  OBVIOUS
<1>3. InsertAt(q, i, r) = a \o <<r>> \o b
  BY DEF InsertAt
<1>. HIDE DEF a, b
<1> DEFINE c == a \o <<r>>
<1>4. c \in Seq(BOOLEAN) /\ Len(c) = i /\ \A w \in 1..(i - 1) : c[w] = q[w]
  BY <1>1
<1>. HIDE DEF c
<1>5. c \o b \in Seq(BOOLEAN) /\ Len(c \o b) = Len(q) + 1
  <2>1. Len(c \o b) = Len(c) + Len(b) /\ Len(q) \in Nat
    BY <1>2, <1>4
  <2>. QED
    BY <1>2, <1>4, <2>1
<1>6. ASSUME NEW w \in 1..Len(q) PROVE \E v \in {w, w + 1} : (c \o b)[v] = q[w]
  <2>1. CASE w < i
    <3>1. (c \o b)[w] = c[w]
      BY <1>2, <1>4, <2>1
    <3>2. c[w] = q[w]
      BY <1>4, <2>1
    <3>. QED
      BY <3>1, <3>2, Zenon
  <2>2. CASE i <= w
    <3>1. (c \o b)[w + 1] = b[w + 1 - i]
      BY <1>2, <1>4, <2>2
    <3>2. b[w + 1 - i] = q[w]
      BY <1>2, <2>2
    <3>. QED
      BY <3>1, <3>2, Zenon
  <2>3. w < i \/ i <= w
    OBVIOUS
  <2>. QED
    BY <2>1, <2>2, <2>3, Zenon
<1>. QED
  BY <1>3, <1>5, <1>6 DEF c

LEMMA InsertedBefore ==
  ASSUME queue \in Seq(BOOLEAN), NEW i \in 1..(Len(queue) + 1), NEW r \in BOOLEAN,
         queue' = InsertAt(queue, i, r), NEW w \in Wanted
  PROVE  \E v \in Wanted' : w <= v
<1>1. w \in 1..Len(queue) /\ queue[w] /\ Len(queue) \in Nat
  BY DEF Wanted
<1>2. PICK v \in {w, w + 1} : queue'[v] = queue[w]
  BY <1>1, Inserted
<1>3. v \in 1..Len(queue') /\ queue' \in Seq(BOOLEAN)
  BY <1>1, <1>2, Inserted
<1>4. queue'[v]
  BY <1>1, <1>2, Zenon
<1>. QED
  BY <1>1, <1>2, <1>3, <1>4 DEF Wanted

LEMMA ReadFindsOrGoesOn == ASSUME WalkInv, MissInv, ReadPage PROVE MissInv'
<1>. USE QueueAssumption
<1> DEFINE n == walk.page
           seen == walk.seen + Cardinality(Page(n))
<1>1. /\ n \in Nat \ {0} /\ walk.pc = "page" /\ UNCHANGED <<queue, disorder>>
      /\ walk.seen = (n - 1) * PageSize
      /\ queue \in Seq(BOOLEAN) /\ Len(queue) \in Nat
      /\ walk \in [pc : {"idle", "page", "found", "missed"}, page : Nat \ {0}, seen : Nat]
  BY DEF ReadPage, WalkInv
<1>2. CASE Excused
  BY <1>1, <1>2 DEF MissInv, MissIsExcused, Excused
<1>3. CASE ~Excused /\ Page(n) \intersect Wanted # {}
  <2>1. walk'.pc = "found"
    <3>1. walk' = [walk EXCEPT !.pc = "found"]
      BY <1>3 DEF ReadPage
    <3>. QED
      BY <1>1, <3>1
  <2>. QED
    BY <2>1 DEF MissInv, MissIsExcused
<1>4. CASE ~Excused /\ Page(n) \intersect Wanted = {}
  <2>1. PICK w \in Wanted : (n - 1) * PageSize < w /\ w <= MaxRecords
    BY <1>1, <1>4 DEF MissInv, Ahead
  <2>2. w \in 1..Len(queue)
    BY <1>1, <2>1 DEF Wanted
  <2>3. n * PageSize \in Nat /\ n * PageSize < w
    BY <1>1, <1>4, <2>1, <2>2, Times DEF Page
  <2>4. seen = n * PageSize
    BY <1>1, <2>2, <2>3, FullPage, Times
  <2>5. ~LastPage(n, seen)
    <3>. HIDE DEF seen
    <3>. QED
      BY <1>1, <2>1, <2>2, <2>3, <2>4 DEF LastPage
  <2>6. walk' = [walk EXCEPT !.page = n + 1, !.seen = seen]
    BY <1>4, <2>5 DEF ReadPage
  <2>7. walk'.pc = "page" /\ walk'.page - 1 = n
    BY <1>1, <2>6
  <2>8. Wanted' = Wanted
    BY <1>1 DEF Wanted
  <2>9. Ahead'
    BY <1>1, <1>4, <2>1, <2>3, <2>7, <2>8 DEF Ahead, MissInv
  <2>. QED
    BY <2>7, <2>9 DEF MissInv, MissIsExcused
<1>. QED
  BY <1>2, <1>3, <1>4

LEMMA NextMiss == WalkInv /\ MissInv /\ [QueueNext]_queueVars => MissInv'
<1>. SUFFICES ASSUME WalkInv, MissInv, [QueueNext]_queueVars PROVE MissInv'
  OBVIOUS
<1>. USE QueueAssumption DEF MissInv, MissIsExcused, Excused
<1>1. queue \in Seq(BOOLEAN) /\ walk.page \in Nat \ {0}
  BY DEF WalkInv
<1>2. CASE RecordArrives
  <2>1. PICK i \in 1..(Len(queue) + 1), r \in BOOLEAN :
           queue' = InsertAt(queue, i, r) /\ Changed(queue', FALSE)
    BY <1>2 DEF RecordArrives
  <2>2. UNCHANGED walk
    BY <1>2 DEF RecordArrives
  <2>3. /\ disorder'.shrunk <=> disorder.shrunk
        /\ disorder'.missing <=> disorder.missing \/ Wanted' = {}
        /\ disorder'.far <=> disorder.far \/ \E w \in Wanted' : w > MaxRecords
    <3>1. disorder' = [shrunk |-> disorder.shrunk \/ FALSE,
                       missing |-> disorder.missing \/ Wanted' = {},
                       far |-> disorder.far \/ \E w \in Wanted' : w > MaxRecords]
      BY <2>1, Zenon DEF Changed, Wanted
    <3>. QED
      BY <3>1, Zenon
  <2>4. ASSUME walk.pc = "page", ~Excused' PROVE Ahead'
    <3>1. ~Excused /\ \A w \in Wanted' : ~(w > MaxRecords)
      BY <2>3, <2>4
    <3>2. PICK w \in Wanted : (walk.page - 1) * PageSize < w
      BY <2>4, <3>1 DEF Ahead
    <3>3. PICK v \in Wanted' : w <= v
      BY <1>1, <2>1, InsertedBefore
    <3>4. w \in Nat /\ Wanted' \subseteq Nat /\ (walk.page - 1) * PageSize \in Nat
      <4>1. queue' \in Seq(BOOLEAN)
        BY <1>1, <2>1 DEF InsertAt
      <4>2. DOMAIN queue \subseteq Nat /\ DOMAIN queue' \subseteq Nat
        BY <1>1, <4>1
      <4>3. w \in Nat /\ Wanted' \subseteq Nat
        BY <4>2 DEF Wanted
      <4>4. (walk.page - 1) * PageSize \in Nat
        BY ONLY <1>1, Times
      <4>. QED
        BY <4>3, <4>4
    <3>5. (walk.page - 1) * PageSize < v
      BY <3>2, <3>3, <3>4
    <3>. QED
      BY <2>2, <3>1, <3>3, <3>4, <3>5 DEF Ahead
  <2>. QED
    BY <2>2, <2>3, <2>4
<1>3. CASE RecordLeaves \/ Resort
  <2>1. Changed(queue', TRUE)
    BY <1>3 DEF RecordLeaves, Resort
  <2>2. disorder'.shrunk = (disorder.shrunk \/ TRUE)
    BY <2>1, Zenon DEF Changed
  <2>. QED
    BY <2>2
<1>4. CASE StartWalk
  <2>1. walk' = [pc |-> "page", page |-> 1, seen |-> 0] /\ Wanted' = Wanted
    BY <1>4 DEF StartWalk, NoWalk, Wanted
  <2>2. walk'.pc = "page" /\ (walk'.page - 1) * PageSize = 0
    BY <2>1
  <2>3. \A w \in Wanted : w \in Nat \ {0}
    BY <1>1 DEF Wanted
  <2>4. /\ disorder'.missing = (Wanted = {})
        /\ disorder'.far = (\E w \in Wanted : w > MaxRecords)
    BY <1>4, Zenon DEF StartWalk
  <2>5. ~Excused' => Ahead'
    <3>1. SUFFICES ASSUME ~disorder'.missing, ~disorder'.far PROVE Ahead'
      OBVIOUS
    <3>2. Wanted # {} /\ ~\E w \in Wanted : w > MaxRecords
      BY <2>4, <3>1, Zenon
    <3>. QED
      BY <2>1, <2>2, <2>3, <3>2 DEF Ahead
  <2>. QED
    BY <2>2, <2>5
<1>5. CASE ReadPage
  BY <1>5, ReadFindsOrGoesOn
<1>6. CASE Blocklist \/ GiveUp
  BY <1>6 DEF Blocklist, GiveUp, NoWalk
<1>7. CASE UNCHANGED queueVars
  BY <1>7 DEF queueVars, Ahead, Wanted
<1>. QED
  BY <1>2, <1>3, <1>4, <1>5, <1>6, <1>7 DEF QueueNext

(***************************************************************************)
(* A walk that misses a grab was overtaken by it or stopped at the cap.    *)
(***************************************************************************)
THEOREM MissesAreExcused == QueueSpec => []MissIsExcused
<1>1. QueueInit => WalkInv /\ MissInv
  BY QueueAssumption
     DEF QueueInit, WalkInv, WalkIsBounded, NoWalk, MissInv, MissIsExcused
<1>2. MissInv => MissIsExcused
  BY DEF MissInv
<1>. QED
  BY <1>1, <1>2, NextWalk, NextMiss, PTL DEF QueueSpec
===============================================================================
