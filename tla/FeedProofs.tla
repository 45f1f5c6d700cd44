------------------------------- MODULE FeedProofs -------------------------------
(***************************************************************************)
(* Proofs about FeedSplit and SeasonParse: for any number of upstreams and *)
(* whatever they answer, in whatever order.                                *)
(***************************************************************************)
EXTENDS FeedSplit, SeasonParse, TLAPS

LEMMA LeastPattern ==
  ASSUME NEW P \in SUBSET RangePatterns, P # {}
  PROVE  \E m \in P : \A n \in P : m <= n
<1>. USE DEF RangePatterns
<1>1. CASE 1 \in P
  BY <1>1
<1>2. CASE 1 \notin P /\ 2 \in P
  BY <1>2
<1>3. CASE 1 \notin P /\ 2 \notin P /\ 3 \in P
  BY <1>3
<1>4. CASE 1 \notin P /\ 2 \notin P /\ 3 \notin P /\ 4 \in P
  BY <1>4
<1>5. CASE 1 \notin P /\ 2 \notin P /\ 3 \notin P /\ 4 \notin P /\ 5 \in P
  BY <1>5
<1>6. CASE P \subseteq {6, 7} /\ 6 \in P
  BY <1>6
<1>7. CASE P = {7}
  BY <1>7
<1>8. CASE 1 \notin P /\ 2 \notin P /\ 3 \notin P /\ 4 \notin P /\ 5 \notin P
  <2>1. \A m \in P : m \in 6..7
    BY <1>8
  <2>2. P \subseteq {6, 7}
    BY <2>1
  <2>3. 6 \in P \/ P = {7}
    BY <2>2
  <2>. QED
    BY <1>6, <1>7, <2>2, <2>3
<1>. QED
  BY <1>1, <1>2, <1>3, <1>4, <1>5, <1>8

\* What Detect answers is a range of two seasons or more.
LEMMA DetectsRanges ==
  ASSUME NEW title \in Title
  PROVE  /\ Detect(title) \in [lo : 0..99, hi : 0..99]
         /\ Detect(title) # NoRange => Detect(title).lo < Detect(title).hi
<1> DEFINE hits == {i \in DOMAIN title : FirstOfPattern(title, i) /\ Plausible(title[i])}
           Best(i) == \A j \in hits : title[i].pattern <= title[j].pattern
           best == CHOOSE i \in hits : Best(i)
<1>1. \A i \in hits : title[i] \in RangeMention /\ title[i].lo < title[i].hi
  BY DEF Title, Plausible
<1>2. Detect(title) = IF hits = {} THEN NoRange ELSE [lo |-> title[best].lo, hi |-> title[best].hi]
  BY DEF Detect
<1>3. hits # {} => best \in hits
  <2>. SUFFICES ASSUME hits # {} PROVE \E i \in hits : Best(i)
    OBVIOUS
  <2> DEFINE P == {title[i].pattern : i \in hits}
  <2>1. P \in SUBSET RangePatterns /\ P # {}
    BY <1>1 DEF RangeMention
  <2>2. PICK m \in P : \A n \in P : m <= n
    <3>. HIDE DEF P
    <3>. QED
      BY <2>1, LeastPattern
  <2>. QED
    BY <2>2
<1>. HIDE DEF hits, best
<1>. QED
  BY <1>1, <1>2, <1>3 DEF RangeMention, NoRange

LEMMA PackSeasons ==
  ASSUME NEW it \in Item, IsPack(it)
  PROVE  /\ Detect(it.title).lo \in Nat /\ Detect(it.title).hi \in Nat
         /\ Detect(it.title).lo < Detect(it.title).hi
         /\ NumSeasons(it) \in Nat \ {0}
<1>1. it.title \in Title
  BY DEF Item
<1>. QED
  BY <1>1, DetectsRanges DEF IsPack, NumSeasons

LEMMA Appended ==
  ASSUME NEW S, NEW q \in Seq(S), NEW e \in S
  PROVE  /\ Append(q, e) \in Seq(S)
         /\ Len(Append(q, e)) = Len(q) + 1
         /\ DOMAIN Append(q, e) = 1..(Len(q) + 1)
         /\ \A j \in 1..Len(q) : Append(q, e)[j] = q[j]
         /\ Append(q, e)[Len(q) + 1] = e
OBVIOUS

LEMMA Replaced ==
  ASSUME NEW S, NEW q \in Seq(S), NEW i \in DOMAIN q, NEW e \in S
  PROVE  /\ [q EXCEPT ![i] = e] \in Seq(S)
         /\ Len([q EXCEPT ![i] = e]) = Len(q)
         /\ [q EXCEPT ![i] = e][i] = e
         /\ \A j \in DOMAIN q : j # i => [q EXCEPT ![i] = e][j] = q[j]
OBVIOUS

LEMMA DividedNat == ASSUME NEW v \in Nat, NEW n \in Nat \ {0} PROVE Divided(v, n) \in Nat
<1>1. v \div n \in Nat
  OBVIOUS
<1>. QED
  BY <1>1 DEF Divided

LEMMA HashesAreNames ==
  ASSUME NEW it \in Item
  PROVE  /\ Hash(it) \in Names
         /\ MagnetFromItem(it.enclosure, it.link, it.guid) \in Names
BY DEF Item, Hash, ExtractInfohash, MagnetFromItem, Names

-------------------------------------------------------------------------------
(***************************************************************************)
(* The loops.  The cells of what has not been split are as they were read, *)
(* and what splitItems read of the pack it is at stays what it read.       *)
(***************************************************************************)
Cell == [hash : Names \union Synths, length : Nat]
Attr == [hash : Names \union Synths, size : Nat]
Result == [src : Nat \ {0}, season : Nat \union {NoSeason}, guid : Ids \union Synths,
           link : Names \union Synths, size : Nat]

Intact(i) == encl[i].hash = items[i].enclosure /\ attrs[i].hash = items[i].attr

AtPack ==
  /\ phase = "split"
  /\ at \in DOMAIN items /\ IsPack(items[at])
  /\ season \in SeasonsOf(items[at])
  /\ ih = Hash(items[at])
  /\ magnet = MagnetFromItem(items[at].enclosure, items[at].link, items[at].guid)

Loops ==
  /\ phase \in {"request", "fetch"} => Len(bodies) = Upstreams
  /\ parsed + Len(bodies) <= Upstreams
  /\ season # NoSeason => AtPack
  /\ phase \notin {"split", "served"} => at = 1 /\ out = <<>> /\ registered = {}
  /\ phase = "served" => at = Len(items) + 1
  /\ \A i \in DOMAIN items : i > at \/ (i = at /\ season = NoSeason) => Intact(i)

IdOf(i) == IF Hash(items[i]) = NoHash THEN <<NoHash, i>> ELSE Hash(items[i])

SynthOf(i, s) == <<IdOf(i), s>>

LEMMA SynthsAreSynths ==
  ASSUME TypeOK, NEW i \in DOMAIN items, NEW s \in Nat
  PROVE  SynthOf(i, s) \in Synths
BY HashesAreNames DEF TypeOK, SynthOf, IdOf, Synths, Ids, Names

\* One turn of the season loop.
LEMMA SplitDoes ==
  ASSUME TypeOK, Loops, Split
  PROVE  /\ AtPack /\ at \in 1..Len(items) /\ items[at] \in Item /\ season \in Nat
         /\ encl' \in Seq(Cell) /\ Len(encl') = Len(encl)
         /\ attrs' \in Seq(Attr) /\ Len(attrs') = Len(attrs)
         /\ \A i \in DOMAIN items : i # at => encl'[i] = encl[i] /\ attrs'[i] = attrs[i]
         /\ encl'[at].hash = Rewritten(encl[at].hash, SynthOf(at, season))
         /\ attrs'[at].hash = Rewritten(attrs[at].hash, SynthOf(at, season))
         /\ \E z \in Nat :
              out' = Append(out, [src |-> at, season |-> season, guid |-> SynthOf(at, season),
                                  link |-> Rewritten(items[at].link, SynthOf(at, season)), size |-> z])
         /\ registered' = Registered(SynthOf(at, season), magnet)
         /\ NextSeason
         /\ UNCHANGED <<proxyVars, bodies, parsed, items, phase>>
<1>1. /\ AtPack /\ at \in 1..Len(items) /\ items[at] \in Item /\ season \in Nat
      /\ ih = Hash(items[at])
  BY PackSeasons DEF Loops, Split, AtPack, TypeOK, SeasonsOf
<1>2. PICK i \in 1..Len(items), s \in Nat : i = at /\ s = season
  BY <1>1
<1>0. i \in DOMAIN items
  BY DEF TypeOK
<1>3. PICK synth : synth = SynthOf(i, s) /\ synth \in Synths
  BY <1>0, SynthsAreSynths
<1>4. SyntheticInfohash(IF ih = NoHash THEN <<NoHash, at>> ELSE ih, season) = synth
  BY <1>1, <1>2, <1>3 DEF SyntheticInfohash, SynthOf, IdOf
<1>5. SynthItem(synth) /\ registered' = Registered(synth, magnet)
  BY <1>4 DEF Split
<1>6. PICK n \in Nat \ {0} : n = NumSeasons(items[i])
  BY <1>1, <1>2, PackSeasons DEF AtPack
<1>7. /\ encl \in Seq(Cell) /\ attrs \in Seq(Attr)
      /\ i \in DOMAIN encl /\ i \in DOMAIN attrs
      /\ encl[i] \in Cell /\ attrs[i] \in Attr
  <2>1. encl \in Seq(Cell) /\ Len(encl) = Len(items) /\ attrs \in Seq(Attr) /\ Len(attrs) = Len(items)
    BY DEF TypeOK, Cell, Attr
  <2>. QED
    BY <2>1
<1> DEFINE e == [hash |-> Rewritten(encl[i].hash, synth), length |-> Divided(encl[i].length, n)]
           a == [hash |-> Rewritten(attrs[i].hash, synth), size |-> Divided(attrs[i].size, n)]
<1>8. e \in Cell /\ a \in Attr
  <2>1. Divided(encl[i].length, n) \in Nat /\ Divided(attrs[i].size, n) \in Nat
    BY <1>7, DividedNat DEF Cell, Attr
  <2>. QED
    BY <1>3, <1>7, <2>1 DEF Cell, Attr, Rewritten, Names
<1>9. /\ encl' = [encl EXCEPT ![i] = e]
      /\ attrs' = [attrs EXCEPT ![i] = a]
      /\ out' = Append(out, [src |-> i, season |-> s, guid |-> synth,
                             link |-> Rewritten(items[i].link, synth), size |-> Divided(items[i].size, n)])
  BY <1>2, <1>5, <1>6 DEF SynthItem
<1>10. Divided(items[i].size, n) \in Nat
  BY <1>1, <1>2, DividedNat DEF Item
<1>11. e.hash = Rewritten(encl[i].hash, synth) /\ a.hash = Rewritten(attrs[i].hash, synth)
  OBVIOUS
<1>. HIDE DEF e, a
<1>12. /\ encl' \in Seq(Cell) /\ Len(encl') = Len(encl) /\ encl'[i] = e
       /\ attrs' \in Seq(Attr) /\ Len(attrs') = Len(attrs) /\ attrs'[i] = a
       /\ \A k \in DOMAIN items : k # i => encl'[k] = encl[k] /\ attrs'[k] = attrs[k]
  BY <1>7, <1>8, <1>9 DEF TypeOK
<1>. QED
  BY <1>1, <1>2, <1>3, <1>5, <1>9, <1>10, <1>11, <1>12 DEF Split

LEMMA TypesHold == TypeOK /\ Loops /\ [Next]_vars => TypeOK'
<1>. SUFFICES ASSUME TypeOK, Loops, [Next]_vars PROVE TypeOK'
  OBVIOUS
<1>. USE FeedAssumption
<1>1. CASE Handle \/ AllArrived \/ Merged
  BY <1>1 DEF TypeOK, Handle, AllArrived, Merged, proxyVars, splitVars
<1>2. ASSUME NEW i \in 1..Upstreams, Arrive(i) PROVE TypeOK'
  <2>1. answers[i] \in Seq(Item) \union {NoBody, BadBody}
    BY DEF TypeOK
  <2>2. bodies' \in Seq(Seq(Item) \union {NoBody, BadBody})
    <3>. DEFINE B == Seq(Item) \union {NoBody, BadBody}
    <3>1. bodies \in Seq(B) /\ answers[i] \in B /\ bodies' = [bodies EXCEPT ![i] = answers[i]]
      BY <1>2, <2>1 DEF TypeOK, Arrive
    <3>. HIDE DEF B
    <3>2. i \in DOMAIN bodies
      BY <1>2, <3>1 DEF Loops, Arrive
    <3>3. bodies' \in Seq(B)
      BY <3>1, <3>2, Replaced
    <3>. QED
      BY <3>3 DEF B
  <2>. QED
    BY <1>2, <2>2 DEF TypeOK, Arrive, splitVars
<1>3. CASE MergeItem
  <2> DEFINE B == Seq(Item) \union {NoBody, BadBody}
             it == Head(Head(bodies))
  <2>1. bodies # <<>> /\ bodies \in Seq(B) /\ Head(bodies) \in Seq(Item) /\ Head(bodies) # <<>>
    <3>1. bodies # <<>> /\ bodies \in Seq(B) /\ Head(bodies) \notin {NoBody, BadBody, <<>>}
      BY <1>3 DEF TypeOK, MergeItem
    <3>2. Head(bodies) \in B
      <4>. HIDE DEF B
      <4>. QED
        BY <3>1
    <3>. QED
      BY <3>1, <3>2
  <2>2. it \in Item /\ Tail(Head(bodies)) \in Seq(Item)
    BY <2>1
  <2>3. bodies' \in Seq(B)
    <3>1. bodies' = [bodies EXCEPT ![1] = Tail(Head(bodies))]
      BY <1>3, <2>1 DEF MergeItem
    <3>2. Tail(Head(bodies)) \in B
      BY <2>2
    <3>. HIDE DEF B
    <3>3. 1 \in DOMAIN bodies
      BY <2>1
    <3>. QED
      BY <2>1, <3>1, <3>2, <3>3, Replaced
  <2>4. CASE UNCHANGED <<items, encl, attrs>>
    BY <1>3, <2>3, <2>4 DEF TypeOK, MergeItem, proxyVars
  <2>5. CASE /\ items' = Append(items, it)
             /\ encl' = Append(encl, [hash |-> it.enclosure, length |-> it.size])
             /\ attrs' = Append(attrs, [hash |-> it.attr, size |-> it.size])
    <3>. HIDE DEF it, B
    <3>1. /\ [hash |-> it.enclosure, length |-> it.size] \in Cell
          /\ [hash |-> it.attr, size |-> it.size] \in Attr
      BY <2>2 DEF Item, Cell, Attr, Names
    <3>2. /\ items' \in Seq(Item) /\ Len(items') = Len(items) + 1
          /\ encl' \in Seq(Cell) /\ Len(encl') = Len(items) + 1
          /\ attrs' \in Seq(Attr) /\ Len(attrs') = Len(items) + 1
      BY <2>2, <2>5, <3>1, Appended DEF TypeOK, Cell, Attr
    <3>. QED
      BY <1>3, <2>3, <3>2 DEF TypeOK, MergeItem, proxyVars, Cell, Attr, B
  <2>. QED
    BY <1>3, <2>4, <2>5 DEF MergeItem
<1>4. CASE NextBody
  <2>1. Len(bodies) \in Nat \ {0} /\ bodies' \in Seq(Seq(Item) \union {NoBody, BadBody})
    BY <1>4 DEF NextBody, TypeOK
  <2>2. parsed' \in 0..Upstreams
    BY <1>4, <2>1 DEF NextBody, TypeOK, Loops
  <2>. QED
    BY <1>4, <2>1, <2>2 DEF NextBody, TypeOK, proxyVars
<1>5. CASE Keep
  <2>1. at \in 1..Len(items) /\ items[at] \in Item /\ at' = at + 1
    BY <1>5 DEF Keep, Splitting, TypeOK
  <2>2. [src |-> at, season |-> NoSeason, guid |-> <<NoHash, at>>,
         link |-> items[at].link, size |-> items[at].size] \in Result
    BY <2>1 DEF Result, Item, Names, Ids
  <2>3. out' \in Seq(Result)
    BY <1>5, <2>2, Appended DEF Keep, TypeOK, Result
  <2>4. UNCHANGED <<proxyVars, bodies, parsed, items, encl, attrs, ih, magnet, season, registered, phase>>
    BY <1>5 DEF Keep
  <2>5. at' \in 1..(Len(items') + 1)
    <3>1. at + 1 \in 1..(Len(items) + 1)
      BY <2>1 DEF TypeOK
    <3>. QED
      BY <2>1, <2>4, <3>1
  <2>. HIDE <1>5
  <2>. QED
    BY <2>3, <2>4, <2>5 DEF TypeOK, proxyVars, Result
<1>6. CASE StartPack
  <2>1. at \in 1..Len(items) /\ items[at] \in Item /\ IsPack(items[at]) /\ Intact(at)
    BY <1>6 DEF StartPack, Splitting, TypeOK, Loops
  <2>2. /\ ih' = Hash(items[at])
        /\ magnet' = MagnetFromItem(items[at].enclosure, items[at].link, items[at].guid)
        /\ season' = Detect(items[at].title).lo
    BY <1>6, <2>1 DEF StartPack, Intact, Hash
  <2>3. ih' \in Names /\ magnet' \in Names /\ season' \in Nat
    BY <2>1, <2>2, HashesAreNames, PackSeasons
  <2>4. UNCHANGED <<proxyVars, bodies, parsed, items, encl, attrs, at, out, registered, phase>>
    BY <1>6 DEF StartPack
  <2>. QED
    BY <2>3, <2>4 DEF TypeOK, proxyVars
<1>7. CASE Split
  <2>1. /\ AtPack /\ at \in 1..Len(items) /\ items[at] \in Item /\ season \in Nat
        /\ SynthOf(at, season) \in Synths
    <3>1. AtPack /\ at \in 1..Len(items) /\ items[at] \in Item /\ season \in Nat
      BY <1>7, SplitDoes
    <3>2. DOMAIN items = 1..Len(items)
      BY DEF TypeOK
    <3>. QED
      BY <3>1, <3>2, SynthsAreSynths
  <2>2. out' \in Seq(Result)
    <3>1. PICK z \in Nat :
             out' = Append(out, [src |-> at, season |-> season, guid |-> SynthOf(at, season),
                                 link |-> Rewritten(items[at].link, SynthOf(at, season)), size |-> z])
      BY <1>7, SplitDoes
    <3>2. Rewritten(items[at].link, SynthOf(at, season)) \in Names \union Synths
      BY <2>1 DEF Rewritten, Names
    <3>3. [src |-> at, season |-> season, guid |-> SynthOf(at, season),
           link |-> Rewritten(items[at].link, SynthOf(at, season)), size |-> z] \in Result
      BY <2>1, <3>2 DEF Result
    <3>. QED
      BY <3>1, <3>3, Appended DEF TypeOK, Result
  <2>3. registered' \subseteq Synths \X Infohashes \X Names
    <3>1. registered' = Registered(SynthOf(at, season), magnet)
      BY <1>7, SplitDoes
    <3>2. registered \subseteq Synths \X Infohashes \X Names /\ ih \in Names /\ magnet \in Names
      BY DEF TypeOK
    <3>. QED
      BY <2>1, <3>1, <3>2 DEF Registered
  <2>4. /\ at' \in 1..(Len(items) + 1) /\ season' \in Nat \union {NoSeason}
        /\ ih' \in Names /\ magnet' \in Names
    <3>1. NextSeason /\ UNCHANGED items
      BY <1>7, SplitDoes
    <3>2. ih \in Names /\ magnet \in Names /\ NoHash \in Names /\ Len(items) \in Nat
      BY DEF TypeOK, Names
    <3>. QED
      BY <2>1, <3>1, <3>2 DEF NextSeason
  <2>. QED
    BY <1>7, <2>2, <2>3, <2>4, SplitDoes DEF TypeOK, proxyVars, Cell, Attr, Result
<1>8. CASE Marshal \/ UNCHANGED vars
  BY <1>8 DEF Marshal, TypeOK, vars, proxyVars, splitVars
<1>. QED
  BY <1>1, <1>2, <1>3, <1>4, <1>5, <1>6, <1>7, <1>8 DEF Next

LEMMA LoopsHold == TypeOK /\ Loops /\ [Next]_vars => Loops'
<1>. SUFFICES ASSUME TypeOK, Loops, [Next]_vars PROVE Loops'
  OBVIOUS
<1>0. TypeOK'
  BY TypesHold
<1>1. CASE Handle \/ AllArrived \/ Merged
  <2>1. /\ UNCHANGED <<bodies, parsed, items, encl, attrs, at, season, out, registered>>
        /\ phase \in {"request", "fetch", "merge"} /\ phase' \notin {"request", "served"}
        /\ phase' = "fetch" => phase = "request"
    BY <1>1 DEF Handle, AllArrived, Merged, splitVars
  <2>. QED
    BY <2>1 DEF Loops, AtPack, Intact
<1>2. ASSUME NEW i \in 1..Upstreams, Arrive(i) PROVE Loops'
  <2>1. /\ UNCHANGED <<parsed, items, encl, attrs, at, season, out, registered, phase>>
        /\ phase = "fetch" /\ bodies' = [bodies EXCEPT ![i] = answers[i]]
    BY <1>2 DEF Arrive, splitVars
  <2>2. Len(bodies') = Len(bodies)
    BY <2>1 DEF TypeOK
  <2>. QED
    BY <2>1, <2>2 DEF Loops, AtPack, Intact
<1>3. CASE MergeItem
  <2> DEFINE it == Head(Head(bodies))
  <2>1. /\ UNCHANGED <<parsed, at, season, out, registered, phase>>
        /\ phase = "merge" /\ Len(bodies') = Len(bodies)
    BY <1>3 DEF MergeItem, TypeOK
  <2>2. season = NoSeason /\ at = 1
    BY <2>1 DEF Loops, AtPack
  <2>3. \A i \in DOMAIN items : Intact(i)
    BY <2>2 DEF Loops, TypeOK
  <2>4. CASE UNCHANGED <<items, encl, attrs>>
    BY <2>1, <2>2, <2>3, <2>4 DEF Loops, Intact
  <2>5. CASE /\ items' = Append(items, it)
             /\ encl' = Append(encl, [hash |-> it.enclosure, length |-> it.size])
             /\ attrs' = Append(attrs, [hash |-> it.attr, size |-> it.size])
    <3>. HIDE DEF it
    <3> DEFINE e == [hash |-> it.enclosure, length |-> it.size]
               a == [hash |-> it.attr, size |-> it.size]
    <3>1. e.hash = it.enclosure /\ a.hash = it.attr
      OBVIOUS
    <3>. HIDE DEF e, a
    <3>2. items \in Seq(Item) /\ encl \in Seq(Cell) /\ attrs \in Seq(Attr)
          /\ Len(encl) = Len(items) /\ Len(attrs) = Len(items)
      BY DEF TypeOK, Cell, Attr
    <3>3. items' = Append(items, it) /\ encl' = Append(encl, e) /\ attrs' = Append(attrs, a)
      BY <2>5 DEF e, a
    <3>4. \A i \in 1..Len(items) : items'[i] = items[i] /\ encl'[i] = encl[i] /\ attrs'[i] = attrs[i]
      BY <3>2, <3>3
    <3>5. LET i == Len(items) + 1 IN items'[i] = it /\ encl'[i] = e /\ attrs'[i] = a
      BY <3>2, <3>3
    <3>6. DOMAIN items' = 1..(Len(items) + 1) /\ DOMAIN items = 1..Len(items) /\ Len(items) \in Nat
      BY <3>2, <3>3
    <3>7. ASSUME NEW i \in DOMAIN items' PROVE Intact(i)'
      BY <2>3, <3>1, <3>4, <3>5, <3>6 DEF Intact
    <3>. QED
      BY <2>1, <2>2, <3>7 DEF Loops
  <2>. QED
    BY <1>3, <2>4, <2>5 DEF MergeItem
<1>4. CASE NextBody
  <2>1. /\ UNCHANGED <<items, encl, attrs, at, season, out, registered, phase>>
        /\ phase = "merge" /\ Len(bodies') = Len(bodies) - 1 /\ parsed' \in {parsed, parsed + 1}
        /\ Len(bodies) \in Nat
    BY <1>4 DEF NextBody, TypeOK
  <2>2. parsed' + Len(bodies') <= Upstreams
    BY <2>1, FeedAssumption DEF Loops, TypeOK
  <2>. QED
    BY <2>1, <2>2 DEF Loops, AtPack, Intact
<1>5. CASE Keep
  <2>1. /\ UNCHANGED <<bodies, parsed, items, encl, attrs, season, phase>>
        /\ phase = "split" /\ at' = at + 1 /\ season = NoSeason
    BY <1>5 DEF Keep, Splitting, Loops, AtPack
  <2>2. at \in Nat /\ DOMAIN items \subseteq Nat
    BY DEF TypeOK
  <2>. QED
    BY <2>1, <2>2 DEF Loops, Intact
<1>6. CASE StartPack
  <2>1. /\ UNCHANGED <<bodies, parsed, items, encl, attrs, at, phase>>
        /\ phase = "split" /\ at \in DOMAIN items /\ items[at] \in Item /\ IsPack(items[at]) /\ Intact(at)
    <3>1. /\ UNCHANGED <<bodies, parsed, items, encl, attrs, at, phase>>
          /\ phase = "split" /\ at <= Len(items) /\ IsPack(items[at]) /\ season = NoSeason
      BY <1>6 DEF StartPack, Splitting
    <3>2. at \in DOMAIN items /\ items[at] \in Item
      BY <3>1 DEF TypeOK
    <3>. QED
      BY <3>1, <3>2 DEF Loops
  <2>2. /\ ih' = Hash(items[at])
        /\ magnet' = MagnetFromItem(items[at].enclosure, items[at].link, items[at].guid)
        /\ season' = Detect(items[at].title).lo
    BY <1>6, <2>1 DEF StartPack, Intact, Hash
  <2>3. season' \in SeasonsOf(items[at])
    BY <2>1, <2>2, PackSeasons DEF SeasonsOf
  <2>4. AtPack'
    BY <2>1, <2>2, <2>3 DEF AtPack
  <2>5. \A i \in DOMAIN items : i > at => Intact(i)'
    BY <2>1 DEF Loops, Intact
  <2>6. \A i \in DOMAIN items : i = at => Intact(i)'
    BY <2>1 DEF Intact
  <2>. QED
    BY <2>1, <2>4, <2>5, <2>6 DEF Loops
<1>7. CASE Split
  <2>1. /\ AtPack /\ at \in 1..Len(items) /\ items[at] \in Item /\ season \in Nat /\ NextSeason
        /\ \A i \in DOMAIN items : i # at => encl'[i] = encl[i] /\ attrs'[i] = attrs[i]
        /\ UNCHANGED <<bodies, parsed, items, phase>>
    BY <1>7, SplitDoes
  <2>2. DOMAIN items = 1..Len(items) /\ Len(items) \in Nat
    BY DEF TypeOK
  <2>3. \A i \in DOMAIN items : i > at => Intact(i)'
    BY <2>1, <2>2 DEF Loops, Intact
  <2>4. CASE season' = NoSeason /\ at' = at + 1
    <3>1. \A i \in DOMAIN items : i > at' \/ i = at' => i > at
      BY <2>1, <2>2, <2>4
    <3>. QED
      BY <2>1, <2>3, <2>4, <3>1 DEF Loops, AtPack
  <2>5. CASE /\ season # Detect(items[at].title).hi
             /\ season' = season + 1
             /\ UNCHANGED <<ih, magnet, at>>
    <3>1. season' \in SeasonsOf(items[at]) /\ season' # NoSeason
      BY <2>1, <2>5, PackSeasons DEF AtPack, SeasonsOf, NoSeason
    <3>2. AtPack'
      BY <2>1, <2>5, <3>1 DEF AtPack
    <3>. QED
      BY <2>1, <2>3, <2>5, <3>1, <3>2 DEF Loops, AtPack
  <2>. QED
    BY <2>1, <2>4, <2>5 DEF NextSeason
<1>8. CASE Marshal
  <2>1. /\ UNCHANGED <<bodies, parsed, items, encl, attrs, at, season, out, registered>>
        /\ phase = "split" /\ phase' = "served" /\ at = Len(items) + 1
    BY <1>8 DEF Marshal, splitVars, TypeOK
  <2>2. season = NoSeason
    <3>1. DOMAIN items = 1..Len(items) /\ Len(items) \in Nat
      BY DEF TypeOK
    <3>. QED
      BY <2>1, <3>1 DEF Loops, AtPack
  <2>. QED
    BY <2>1, <2>2 DEF Loops, Intact
<1>9. CASE UNCHANGED vars
  BY <1>9 DEF vars, Loops, AtPack, Intact
<1>. QED
  BY <1>1, <1>2, <1>3, <1>4, <1>5, <1>6, <1>7, <1>8, <1>9 DEF Next

LEMMA InitTypes == Init => TypeOK /\ Loops
<1>. SUFFICES ASSUME Init PROVE TypeOK /\ Loops
  OBVIOUS
<1>. USE FeedAssumption DEF Init
<1>1. bodies \in Seq(Seq(Item) \union {NoBody, BadBody}) /\ Len(bodies) = Upstreams
  OBVIOUS
<1>2. TypeOK
  BY <1>1 DEF TypeOK, Names
<1>3. Loops
  BY <1>1 DEF Loops, AtPack
<1>. QED
  BY <1>2, <1>3

(***************************************************************************)
(* Every variable has its type; StartPack never reads a rewritten hash.    *)
(***************************************************************************)
THEOREM FeedTypes == Spec => [](TypeOK /\ Loops)
<1>. QED
  BY InitTypes, TypesHold, LoopsHold, PTL DEF Spec

-------------------------------------------------------------------------------
(***************************************************************************)
(* The merge.  Of the upstreams before the one it is at, and of that one   *)
(* before the item it is at, every infohash is in the feed, and each item  *)
(* of the feed is the first in the upstreams' order with its infohash.     *)
(***************************************************************************)
Body == Seq(Item) \union {NoBody, BadBody}

InPlace ==
  phase \in {"request", "fetch"} =>
    \A i \in 1..Upstreams : bodies[i] = IF i \in arrived THEN answers[i] ELSE NoBody

Done == Upstreams - Len(bodies)

\* b is what is left of the answer a.
Rest(b, a) ==
  \/ a \in {NoBody, BadBody} /\ b = a
  \/ /\ a \in Seq(Item) /\ b \in Seq(Item) /\ Len(b) <= Len(a)
     /\ \A n \in 1..Len(b) : b[n] = a[Len(a) - Len(b) + n]

Known(it) == Hash(it) \in Seen \union {NoHash}

MergedSoFar ==
  phase = "merge" =>
    /\ \A k \in 2..Len(bodies) : bodies[k] = answers[Done + k]
    /\ \A i \in 1..Done : \A n \in DOMAIN Listed(i) : Known(Listed(i)[n])
    /\ bodies # <<>> =>
         /\ Rest(bodies[1], answers[Done + 1])
         /\ bodies[1] \in Seq(Item) =>
              \A n \in 1..(Len(answers[Done + 1]) - Len(bodies[1])) : Known(answers[Done + 1][n])

Firsts ==
  \A i \in DOMAIN items : Hash(items[i]) # NoHash => items[i] = FirstListed(Hash(items[i]))

NoneTwice ==
  \A i, j \in DOMAIN items : i # j /\ Hash(items[i]) # NoHash => Hash(items[i]) # Hash(items[j])

MergeInv == InPlace /\ MergedSoFar /\ Firsts /\ NoneTwice

\* FirstListed depends on the answers alone.
ListedIn(A, i) == IF A[i] \in {NoBody, BadBody} THEN <<>> ELSE A[i]

FirstIn(A, h) ==
  LET u == CHOOSE i \in 1..Upstreams :
             /\ \E n \in DOMAIN ListedIn(A, i) : Hash(ListedIn(A, i)[n]) = h
             /\ \A j \in 1..(i - 1) : \A n \in DOMAIN ListedIn(A, j) : Hash(ListedIn(A, j)[n]) # h
      n == CHOOSE n \in DOMAIN ListedIn(A, u) :
             /\ Hash(ListedIn(A, u)[n]) = h
             /\ \A m \in 1..(n - 1) : Hash(ListedIn(A, u)[m]) # h
  IN ListedIn(A, u)[n]

LEMMA SameAnswers ==
  ASSUME UNCHANGED answers
  PROVE  \A h : FirstListed(h)' = FirstListed(h)
<1>. TAKE h
<1>1. FirstListed(h) = FirstIn(answers, h)
  BY DEF FirstListed, Listed, FirstIn, ListedIn
<1>2. FirstListed(h)' = FirstIn(answers', h)
  BY DEF FirstListed, Listed, FirstIn, ListedIn
<1>. QED
  BY <1>1, <1>2

LEMMA ListedItems ==
  ASSUME TypeOK, NEW i \in 1..Upstreams
  PROVE  answers[i] \in Body /\ Listed(i) \in Seq(Item)
BY FeedAssumption DEF TypeOK, Listed, Body

LEMMA FirstIs ==
  ASSUME TypeOK, NEW h, NEW u \in 1..Upstreams, NEW n \in DOMAIN Listed(u),
         Hash(Listed(u)[n]) = h,
         \A j \in 1..(u - 1) : \A m \in DOMAIN Listed(j) : Hash(Listed(j)[m]) # h,
         \A m \in 1..(n - 1) : Hash(Listed(u)[m]) # h
  PROVE  FirstListed(h) = Listed(u)[n]
<1> DEFINE U(i) == /\ \E m \in DOMAIN Listed(i) : Hash(Listed(i)[m]) = h
                   /\ \A j \in 1..(i - 1) : \A m \in DOMAIN Listed(j) : Hash(Listed(j)[m]) # h
           N(m) == /\ Hash(Listed(u)[m]) = h
                   /\ \A l \in 1..(m - 1) : Hash(Listed(u)[l]) # h
<1>1. Upstreams \in Nat /\ u \in Nat
  BY FeedAssumption
<1>2. \A i \in 1..Upstreams : U(i) => i = u
  <2>. SUFFICES ASSUME NEW i \in 1..Upstreams, U(i), i # u PROVE FALSE
    OBVIOUS
  <2>1. i < u \/ u < i
    BY <1>1
  <2>. QED
    BY <1>1, <2>1
<1>3. (CHOOSE i \in 1..Upstreams : U(i)) = u
  <2>1. U(u)
    OBVIOUS
  <2>. HIDE DEF U
  <2>. QED
    BY <1>2, <2>1
<1>4. DOMAIN Listed(u) = 1..Len(Listed(u)) /\ Len(Listed(u)) \in Nat
  BY ListedItems
<1>5. \A m \in DOMAIN Listed(u) : N(m) => m = n
  <2>. SUFFICES ASSUME NEW m \in DOMAIN Listed(u), N(m), m # n PROVE FALSE
    OBVIOUS
  <2>1. m < n \/ n < m
    BY <1>4
  <2>. QED
    BY <1>4, <2>1
<1>6. (CHOOSE m \in DOMAIN Listed(u) : N(m)) = n
  <2>1. N(n)
    OBVIOUS
  <2>. HIDE DEF N
  <2>. QED
    BY <1>5, <2>1
<1>. QED
  BY <1>3, <1>6 DEF FirstListed

\* The next upstream's turn.
LEMMA NextBodyMerges == ASSUME TypeOK, Loops, MergeInv, NextBody PROVE MergedSoFar'
<1>. USE FeedAssumption
<1>1. /\ bodies \in Seq(Body) /\ bodies # <<>> /\ Head(bodies) = bodies[1]
      /\ bodies[1] \in {NoBody, BadBody, <<>>}
      /\ UNCHANGED <<answers, items, phase>> /\ phase = "merge"
      /\ Len(bodies') = Len(bodies) - 1 /\ \A k \in 1..(Len(bodies) - 1) : bodies'[k] = bodies[k + 1]
      /\ Len(bodies) \in Nat /\ Len(bodies) <= Upstreams
  BY DEF NextBody, proxyVars, TypeOK, Loops, Body
<1>2. PICK d \in Nat, l \in Nat \ {0} : d = Done /\ l = Len(bodies) /\ d + l = Upstreams
  BY <1>1 DEF Done
<1>3. Done' = d + 1
  BY <1>1, <1>2 DEF Done
<1>4. Seen' = Seen /\ \A i : Listed(i)' = Listed(i)
  BY <1>1 DEF Seen, Listed
<1>5. /\ \A k \in 2..l : bodies[k] = answers[d + k]
      /\ \A i \in 1..d : \A n \in DOMAIN Listed(i) : Known(Listed(i)[n])
      /\ Rest(bodies[1], answers[d + 1])
      /\ bodies[1] \in Seq(Item) =>
           \A n \in 1..(Len(answers[d + 1]) - Len(bodies[1])) : Known(answers[d + 1][n])
  BY <1>1, <1>2 DEF MergeInv, MergedSoFar
<1>6. \A n \in DOMAIN Listed(d + 1) : Known(Listed(d + 1)[n])
  <2>1. CASE answers[d + 1] \in {NoBody, BadBody}
    BY <2>1 DEF Listed
  <2>2. CASE answers[d + 1] \notin {NoBody, BadBody}
    <3>1. bodies[1] = <<>> /\ answers[d + 1] \in Seq(Item) /\ Listed(d + 1) = answers[d + 1]
      BY <1>1, <1>5, <2>2 DEF Rest, Listed
    <3>2. Len(answers[d + 1]) - Len(bodies[1]) = Len(answers[d + 1]) /\ bodies[1] \in Seq(Item)
      BY <3>1
    <3>. QED
      BY <1>5, <3>1, <3>2
  <2>. QED
    BY <2>1, <2>2
<1>7. \A k \in 2..Len(bodies') : bodies'[k] = answers'[d + 1 + k]
  <2>1. SUFFICES ASSUME NEW k \in 2..Len(bodies') PROVE bodies'[k] = answers[d + 1 + k]
    BY <1>1
  <2>2. Len(bodies') = l - 1
    BY ONLY <1>1, <1>2
  <2>3. k \in 1..(l - 1) /\ k + 1 \in 2..l /\ d + (k + 1) = d + 1 + k
    BY ONLY <2>2, l \in Nat \ {0}, d \in Nat, k \in 2..Len(bodies')
  <2>4. bodies'[k] = bodies[k + 1]
    BY <1>1, <1>2, <2>3
  <2>5. bodies[k + 1] = answers[d + (k + 1)]
    BY <1>5, <2>3
  <2>. QED
    BY <2>3, <2>4, <2>5
<1>8. \A i \in 1..(d + 1) : \A n \in DOMAIN Listed(i) : Known(Listed(i)[n])
  <2>1. \A i \in 1..(d + 1) : i \in 1..d \/ i = d + 1
    OBVIOUS
  <2>. QED
    BY <1>5, <1>6, <2>1
<1>9. ASSUME bodies' # <<>>
      PROVE  /\ Rest(bodies'[1], answers'[d + 2])
             /\ bodies'[1] \in Seq(Item) => Len(answers'[d + 2]) - Len(bodies'[1]) = 0
  <2>1. l >= 2 /\ d + 2 \in 1..Upstreams /\ bodies' \in Seq(Body)
    <3>1. bodies' = Tail(bodies) /\ bodies' \in Seq(Body)
      BY <1>1 DEF NextBody
    <3>2. Len(bodies') # 0
      BY <1>9, <3>1
    <3>. QED
      BY <1>1, <1>2, <3>1, <3>2
  <2>2. bodies'[1] = answers[d + 2]
    BY <1>1, <1>2, <1>5, <2>1
  <2>3. answers[d + 2] \in Body
    BY <2>1, ListedItems
  <2>4. \A b \in Seq(Item) : Len(b) \in Nat /\ Len(b) <= Len(b) /\ Len(b) - Len(b) = 0
          /\ \A n \in 1..Len(b) : b[n] = b[Len(b) - Len(b) + n]
    OBVIOUS
  <2>. QED
    BY <1>1, <2>2, <2>3, <2>4 DEF Rest, Body
<1>10. 1..0 = {} /\ d + 1 + 1 = d + 2
  OBVIOUS
<1>. QED
  BY <1>1, <1>3, <1>4, <1>7, <1>8, <1>9, <1>10 DEF MergedSoFar, Known

\* One item's turn.
LEMMA MergeItemMerges ==
  ASSUME TypeOK, Loops, MergeInv, MergeItem
  PROVE  MergedSoFar' /\ Firsts' /\ NoneTwice'
<1>. USE FeedAssumption
<1>1. /\ bodies \in Seq(Body) /\ bodies # <<>> /\ Head(bodies) = bodies[1] /\ 1 \in DOMAIN bodies
      /\ bodies[1] \notin {NoBody, BadBody, <<>>}
      /\ bodies' = [bodies EXCEPT ![1] = Tail(bodies[1])]
      /\ UNCHANGED <<answers, phase>> /\ phase = "merge"
      /\ Len(bodies) \in Nat \ {0} /\ Len(bodies) <= Upstreams
  BY DEF MergeItem, proxyVars, TypeOK, Loops, Body
<1>2. PICK d \in Nat, l \in Nat \ {0} : d = Done /\ l = Len(bodies) /\ d + l = Upstreams
  <2>1. Done \in Nat /\ Done + Len(bodies) = Upstreams
    BY <1>1 DEF Done
  <2>. QED
    BY <1>1, <2>1
<1>3. /\ \A k \in 2..l : bodies[k] = answers[d + k]
      /\ \A i \in 1..d : \A n \in DOMAIN Listed(i) : Known(Listed(i)[n])
      /\ Rest(bodies[1], answers[d + 1])
      /\ bodies[1] \in Seq(Item) =>
           \A n \in 1..(Len(answers[d + 1]) - Len(bodies[1])) : Known(answers[d + 1][n])
  BY <1>1, <1>2 DEF MergeInv, MergedSoFar
<1>4. PICK b \in Seq(Item), a \in Seq(Item) : b = bodies[1] /\ a = answers[d + 1]
  BY <1>1, <1>3 DEF Rest
<1>5. /\ b # <<>> /\ Len(b) \in Nat \ {0} /\ Len(a) \in Nat /\ Len(b) <= Len(a)
      /\ \A n \in 1..Len(b) : b[n] = a[Len(a) - Len(b) + n]
      /\ \A n \in 1..(Len(a) - Len(b)) : Known(a[n])
  <2>1. b # <<>> /\ a \notin {NoBody, BadBody} /\ Len(a) \in Nat /\ Len(b) \in Nat \ {0}
    BY <1>1, <1>4
  <2>. QED
    BY <1>3, <1>4, <2>1 DEF Rest
<1>6. PICK p \in Nat \ {0} : p = Len(a) - Len(b) + 1 /\ p <= Len(a)
  BY <1>5
<1>7. PICK it \in Item : it = a[p] /\ it = Head(Head(bodies))
  <2>1. Head(Head(bodies)) = b[1]
    BY <1>1, <1>4
  <2>2. p \in 1..Len(a) /\ Len(a) - Len(b) + 1 = p
    BY ONLY <1>5, <1>6
  <2>3. b[1] = a[Len(a) - Len(b) + 1]
    <3>1. 1 \in 1..Len(b)
      BY ONLY <1>5
    <3>. QED
      BY ONLY <1>5, <3>1
  <2>4. a[p] \in Item
    BY ONLY <2>2, a \in Seq(Item)
  <2>. QED
    BY ONLY <2>1, <2>2, <2>3, <2>4
<1>8. d + 1 \in 1..Upstreams /\ Listed(d + 1) = a
  BY <1>1, <1>2, <1>3, <1>4 DEF Rest, Listed
<1>9. bodies' \in Seq(Body) /\ Len(bodies') = l /\ bodies'[1] = Tail(b)
      /\ \A k \in 2..l : bodies'[k] = bodies[k]
  <2>1. Tail(b) \in Body
    BY <1>5 DEF Body
  <2>. QED
    BY <1>1, <1>2, <1>4, <2>1, Replaced
<1>10. Done' = d /\ \A i : Listed(i)' = Listed(i)
  BY <1>1, <1>2, <1>9 DEF Done, Listed
<1>11. /\ Tail(b) \in Seq(Item) /\ Len(Tail(b)) = Len(b) - 1
       /\ \A n \in 1..(Len(b) - 1) : Tail(b)[n] = b[n + 1]
  BY <1>5
<1>12. Rest(Tail(b), a)
  <2>1. \A n \in 1..(Len(b) - 1) : b[n + 1] = a[Len(a) - Len(b) + (n + 1)]
    BY <1>5
  <2>2. \A n \in 1..(Len(b) - 1) : Len(a) - Len(b) + (n + 1) = Len(a) - (Len(b) - 1) + n
    BY <1>5
  <2>. QED
    BY <1>5, <1>11, <2>1, <2>2 DEF Rest
<1>15. \A n \in 1..(Len(a) - Len(Tail(b))) : n \in 1..(Len(a) - Len(b)) \/ n = p
  <2>1. PICK x \in Nat, y \in Nat : x = Len(a) /\ y = Len(b)
    BY <1>5
  <2>2. Len(a) - Len(Tail(b)) = x - (y - 1) /\ p = x - y + 1 /\ Len(a) - Len(b) = x - y
    BY <1>6, <1>11, <2>1
  <2>3. \A n \in 1..(x - (y - 1)) : n \in 1..(x - y) \/ n = x - y + 1
    OBVIOUS
  <2>. QED
    BY <2>2, <2>3
<1>13. CASE UNCHANGED items /\ Hash(it) \in Seen
  <2>1. Seen' = Seen
    BY <1>13 DEF Seen
  <2>2. \A n \in 1..(Len(a) - Len(Tail(b))) : Known(a[n])
    BY <1>5, <1>7, <1>13, <1>15 DEF Known
  <2>3. MergedSoFar'
    BY <1>1, <1>3, <1>4, <1>9, <1>10, <1>12, <2>1, <2>2 DEF MergedSoFar, Known
  <2>4. Firsts'
    BY <1>1, <1>13, SameAnswers DEF MergeInv, Firsts
  <2>. QED
    BY <1>13, <2>3, <2>4 DEF MergeInv, NoneTwice
<1>14. CASE items' = Append(items, it) /\ Hash(it) \notin Seen
  <2>0. items \in Seq(Item) /\ Len(items) \in Nat /\ DOMAIN items = 1..Len(items)
    BY DEF TypeOK
  <2>1. /\ DOMAIN items' = 1..(Len(items) + 1)
        /\ \A j \in 1..Len(items) : items'[j] = items[j]
        /\ items'[Len(items) + 1] = it
    BY <1>14, <2>0, Appended
  <2>2. Seen' = Seen \union ({Hash(it)} \ {NoHash})
    <3>1. DOMAIN items' = DOMAIN items \union {Len(items) + 1}
      BY <2>0, <2>1
    <3>2. \A h : h \in Seen' <=> h # NoHash /\ \E j \in DOMAIN items' : h = Hash(items'[j])
      BY DEF Seen
    <3>3. \A h : h \in Seen <=> h # NoHash /\ \E j \in DOMAIN items : h = Hash(items[j])
      BY DEF Seen
    <3>4. \A h : (\E j \in DOMAIN items' : h = Hash(items'[j]))
                  <=> h = Hash(it) \/ \E j \in DOMAIN items : h = Hash(items[j])
      BY <2>0, <2>1, <3>1
    <3>. QED
      BY <3>2, <3>3, <3>4
  <2>3. \A n \in 1..(Len(a) - Len(Tail(b))) : Hash(a[n]) \in Seen' \union {NoHash}
    BY <1>5, <1>7, <1>15, <2>2 DEF Known
  <2>4. MergedSoFar'
    BY <1>1, <1>3, <1>4, <1>9, <1>10, <1>12, <2>2, <2>3 DEF MergedSoFar, Known
  <2>5. \A j \in DOMAIN items : Hash(items[j]) # NoHash => Hash(items[j]) # Hash(it)
    BY <1>14 DEF Seen
  <2>6. Hash(it) # NoHash => FirstListed(Hash(it)) = it
    <3>. SUFFICES ASSUME Hash(it) # NoHash PROVE FirstListed(Hash(it)) = it
      OBVIOUS
    <3>1. p \in DOMAIN Listed(d + 1) /\ Listed(d + 1)[p] = it
      <4>1. DOMAIN a = 1..Len(a)
        OBVIOUS
      <4>2. p \in 1..Len(a)
        BY <1>5, <1>6
      <4>3. a[p] = it
        BY <1>7
      <4>. QED
        BY <1>8, <4>1, <4>2, <4>3, Zenon
    <3>2. \A n \in 1..(p - 1) : Hash(Listed(d + 1)[n]) # Hash(it)
      BY <1>5, <1>6, <1>8, <1>14 DEF Known
    <3>3. \A j \in 1..((d + 1) - 1) : \A n \in DOMAIN Listed(j) : Hash(Listed(j)[n]) # Hash(it)
      BY <1>3, <1>14 DEF Known
    <3>. QED
      BY <1>8, <3>1, <3>2, <3>3, FirstIs
  <2>7. \A h : FirstListed(h)' = FirstListed(h)
    BY <1>1, SameAnswers
  <2>8. Firsts'
    BY <2>0, <2>1, <2>6, <2>7 DEF MergeInv, Firsts
  <2>9. NoneTwice'
    BY <2>0, <2>1, <2>5 DEF MergeInv, NoneTwice
  <2>. QED
    BY <2>4, <2>8, <2>9
<1>. QED
  BY <1>7, <1>13, <1>14 DEF MergeItem

LEMMA MergeHolds == TypeOK /\ Loops /\ MergeInv /\ [Next]_vars => MergeInv'
<1>. SUFFICES ASSUME TypeOK, Loops, MergeInv, [Next]_vars PROVE MergeInv'
  OBVIOUS
<1>. USE FeedAssumption
<1>1. UNCHANGED <<answers, items>> => (Firsts /\ NoneTwice)'
  BY SameAnswers DEF MergeInv, Firsts, NoneTwice
<1>2. CASE Handle \/ Merged \/ Keep \/ StartPack \/ Split \/ Marshal \/ UNCHANGED vars
  <2>1. UNCHANGED <<answers, arrived, bodies, items>>
    BY <1>2 DEF Handle, Merged, Keep, StartPack, Split, Marshal, vars, proxyVars, splitVars
  <2>2. phase' \in {"request", "fetch"} => phase \in {"request", "fetch"}
    BY <1>2 DEF Handle, Merged, Keep, StartPack, Split, Marshal, vars, Splitting
  <2>3. phase' = "merge" => phase = "merge"
    BY <1>2 DEF Handle, Merged, Keep, StartPack, Split, Marshal, vars, Splitting
  <2>. QED
    <3>1. InPlace'
      BY <2>1, <2>2 DEF MergeInv, InPlace
    <3>2. MergedSoFar'
      <4>1. Done' = Done /\ Seen' = Seen /\ \A i : Listed(i)' = Listed(i)
        BY <2>1 DEF Done, Seen, Listed
      <4>. QED
        BY <2>1, <2>3, <4>1 DEF MergeInv, MergedSoFar, Known
    <3>. QED
      BY <1>1, <2>1, <3>1, <3>2 DEF MergeInv
<1>3. ASSUME NEW i \in 1..Upstreams, Arrive(i) PROVE MergeInv'
  <2>1. /\ UNCHANGED <<answers, items, phase>> /\ phase = "fetch"
        /\ arrived' = arrived \union {i} /\ bodies' = [bodies EXCEPT ![i] = answers[i]]
    BY <1>3 DEF Arrive, splitVars
  <2>2. DOMAIN bodies = 1..Upstreams
    BY <2>1 DEF TypeOK, Loops
  <2>. QED
    BY <1>1, <2>1, <2>2 DEF MergeInv, InPlace, MergedSoFar
<1>4. CASE AllArrived
  <2>1. /\ UNCHANGED <<answers, bodies, items>> /\ phase = "fetch" /\ phase' = "merge"
        /\ arrived = 1..Upstreams
    BY <1>4 DEF AllArrived, proxyVars, splitVars
  <2>2. Len(bodies) = Upstreams /\ \A i \in 1..Upstreams : bodies[i] = answers[i]
    BY <2>1 DEF MergeInv, InPlace, Loops
  <2>3. Done' = 0
    BY <2>1, <2>2 DEF Done
  <2>4. Rest(bodies[1], answers[1]) /\ (bodies[1] \in Seq(Item) => Len(answers[1]) - Len(bodies[1]) = 0)
    <3>1. answers[1] \in Body /\ bodies[1] = answers[1]
      BY <2>2, ListedItems
    <3>2. \A b \in Seq(Item) : Len(b) \in Nat /\ Len(b) <= Len(b) /\ Len(b) - Len(b) = 0
            /\ \A n \in 1..Len(b) : b[n] = b[Len(b) - Len(b) + n]
      OBVIOUS
    <3>. QED
      BY <3>1, <3>2 DEF Rest, Body
  <2>5. MergedSoFar'
    <3>1. 1..0 = {} /\ 0 + 1 = 1 /\ \A k \in 2..Upstreams : 0 + k = k
      OBVIOUS
    <3>. QED
      BY <2>1, <2>2, <2>3, <2>4, <3>1 DEF MergedSoFar
  <2>. QED
    BY <1>1, <2>1, <2>5 DEF MergeInv, InPlace
<1>5. CASE MergeItem
  BY <1>5, MergeItemMerges DEF MergeInv, InPlace, MergeItem
<1>6. CASE NextBody
  BY <1>1, <1>6, NextBodyMerges DEF MergeInv, InPlace, NextBody, proxyVars
<1>. QED
  BY <1>2, <1>3, <1>4, <1>5, <1>6 DEF Next

(***************************************************************************)
(* Whoever answers first, of what several indexers list the first one's    *)
(* item is served.                                                         *)
(***************************************************************************)
THEOREM FirstUpstreamsWin == Spec => []FirstUpstreamWins
<1>1. Init => MergeInv
  BY FeedAssumption DEF Init, MergeInv, InPlace, MergedSoFar, Firsts, NoneTwice
<1>2. MergeInv => FirstUpstreamWins
  BY DEF MergeInv, Firsts, FirstUpstreamWins
<1>. QED
  BY <1>1, <1>2, InitTypes, TypesHold, LoopsHold, MergeHolds, PTL DEF Spec

-------------------------------------------------------------------------------
(***************************************************************************)
(* The fan-out.  The results so far are those of the items and seasons     *)
(* before the one the loops are at, in order, each with the GUID of its    *)
(* own; what carries an infohash carries a registered one.                 *)
(***************************************************************************)
Seasonal == Nat \union {NoSeason}

Belongs(i, s) == IF IsPack(items[i]) THEN s \in SeasonsOf(items[i]) ELSE s = NoSeason

Before(i, s) == i < at \/ (i = at /\ season # NoSeason /\ s < season)

FanInv ==
  /\ \A j \in DOMAIN out :
       /\ out[j].src \in DOMAIN items
       /\ Belongs(out[j].src, out[j].season) /\ Before(out[j].src, out[j].season)
  /\ \A i \in DOMAIN items, s \in Seasonal :
       Belongs(i, s) /\ Before(i, s) => \E j \in DOMAIN out : out[j].src = i /\ out[j].season = s
  /\ \A j, k \in DOMAIN out :
       j < k => \/ out[j].src < out[k].src
                \/ out[j].src = out[k].src /\ out[j].season < out[k].season

GuidOf(i, s) == IF s = NoSeason THEN <<NoHash, i>> ELSE SynthOf(i, s)

GuidInv == \A j \in DOMAIN out : out[j].guid = GuidOf(out[j].src, out[j].season)

RegisteredWith(h, real) == \E m \in Names : <<h, real, m>> \in registered

AdvertisedInv ==
  \A j \in DOMAIN out : out[j].season # NoSeason /\ RealHashOf(j) \in Hex =>
    \A h \in Advertised(j) : RegisteredWith(h, RealHashOf(j))

SplitInv == FanInv /\ GuidInv /\ AdvertisedInv /\ OnlyRealMagnetsRegistered

LEMMA ResultTypes ==
  ASSUME TypeOK
  PROVE  /\ out \in Seq(Result) /\ Len(out) \in Nat /\ DOMAIN out = 1..Len(out)
         /\ \A j \in DOMAIN out : out[j] \in Result /\ out[j].src \in Nat \ {0} /\ out[j].season \in Seasonal
<1>1. out \in Seq(Result)
  BY DEF TypeOK, Result
<1>2. \A j \in DOMAIN out : out[j] \in Result
  BY <1>1
<1>. QED
  BY <1>1, <1>2 DEF Result, Seasonal

LEMMA Quiet ==
  ASSUME TypeOK, Loops, phase \notin {"split", "served"}
  PROVE  SplitInv
<1>1. out = <<>> /\ DOMAIN out = {} /\ registered = {} /\ at = 1 /\ season = NoSeason
  BY DEF Loops, AtPack
<1>2. \A i \in DOMAIN items, s \in Seasonal : ~Before(i, s)
  BY <1>1 DEF TypeOK, Before
<1>. QED
  BY <1>1, <1>2 DEF SplitInv, FanInv, GuidInv, AdvertisedInv, OnlyRealMagnetsRegistered

\* One result more: that of the item and season the loops were at.
LEMMA OneMore ==
  ASSUME TypeOK, SplitInv, NEW r \in Result, out' = Append(out, r), UNCHANGED items,
         at \in DOMAIN items, r.src = at, r.season = season, r.guid = GuidOf(at, season),
         Belongs(at, season),
         \A i \in DOMAIN items, s \in Seasonal :
           Belongs(i, s) => (Before(i, s)' <=> Before(i, s) \/ (i = at /\ s = season))
  PROVE  /\ FanInv' /\ GuidInv'
         /\ DOMAIN out' = 1..(Len(out) + 1) /\ Len(out) \in Nat /\ DOMAIN out = 1..Len(out)
         /\ \A j \in DOMAIN out : out'[j] = out[j]
         /\ out'[Len(out) + 1] = r
<1>1. out \in Seq(Result) /\ Len(out) \in Nat /\ DOMAIN out = 1..Len(out) /\ season \in Seasonal
  BY ResultTypes DEF TypeOK, Seasonal
<1>2. /\ DOMAIN out' = 1..(Len(out) + 1)
      /\ \A j \in DOMAIN out : out'[j] = out[j]
      /\ out'[Len(out) + 1] = r
  BY <1>1, Appended
<1>3. \A i, s : Belongs(i, s)' = Belongs(i, s) /\ GuidOf(i, s)' = GuidOf(i, s)
  BY DEF Belongs, GuidOf, SynthOf, IdOf
<1>4. \A j \in DOMAIN out : out[j] \in Result /\ out[j].src \in DOMAIN items /\ out[j].season \in Seasonal
  BY ResultTypes DEF SplitInv, FanInv
<1>5. \A j \in DOMAIN out' : j \in DOMAIN out \/ j = Len(out) + 1
  BY <1>1, <1>2
<1>6. ASSUME NEW j \in DOMAIN out'
      PROVE  /\ out'[j].src \in DOMAIN items /\ out'[j].season \in Seasonal
             /\ Belongs(out'[j].src, out'[j].season)
             /\ Before(out'[j].src, out'[j].season) \/ (out'[j].src = at /\ out'[j].season = season)
             /\ out'[j].guid = GuidOf(out'[j].src, out'[j].season)
  <2>1. CASE j \in DOMAIN out
    BY <1>2, <1>4, <2>1 DEF SplitInv, FanInv, GuidInv
  <2>2. CASE j = Len(out) + 1
    BY <1>1, <1>2, <2>2
  <2>. QED
    BY <1>5, <2>1, <2>2
<1>7. ASSUME NEW j \in DOMAIN out'
      PROVE  /\ out'[j].src \in DOMAIN items'
             /\ Belongs(out[j].src, out[j].season)' /\ Before(out[j].src, out[j].season)'
             /\ out'[j].guid = GuidOf(out[j].src, out[j].season)'
  <2>1. PICK i \in DOMAIN items, s \in Seasonal : i = out'[j].src /\ s = out'[j].season
    BY <1>6
  <2>2. Belongs(i, s) /\ (Before(i, s) \/ (i = at /\ s = season)) /\ out'[j].guid = GuidOf(i, s)
    BY <1>6, <2>1
  <2>3. Belongs(i, s)' /\ Before(i, s)' /\ out'[j].guid = GuidOf(i, s)'
    BY <1>3, <2>2
  <2>. QED
    BY <2>1, <2>3 DEF Belongs, Before, GuidOf, SynthOf, IdOf
<1>8. ASSUME NEW i \in DOMAIN items', NEW s \in Seasonal, Belongs(i, s)', Before(i, s)'
      PROVE  \E j \in DOMAIN out' : out'[j].src = i /\ out'[j].season = s
  <2>1. Belongs(i, s) /\ i \in DOMAIN items
    BY <1>3, <1>8
  <2>2. Before(i, s) \/ (i = at /\ s = season)
    BY <1>8, <2>1
  <2>3. CASE Before(i, s)
    <3>1. PICK j \in DOMAIN out : out[j].src = i /\ out[j].season = s
      BY <2>1, <2>3 DEF SplitInv, FanInv
    <3>. QED
      BY <1>1, <1>2, <3>1
  <2>4. CASE i = at /\ s = season
    BY <1>1, <1>2, <2>4
  <2>. QED
    BY <2>2, <2>3, <2>4
<1>9. ASSUME NEW j \in DOMAIN out', NEW k \in DOMAIN out', j < k
      PROVE  \/ out'[j].src < out'[k].src
             \/ out'[j].src = out'[k].src /\ out'[j].season < out'[k].season
  <2>1. j \in DOMAIN out
    BY <1>1, <1>2, <1>9
  <2>2. CASE k \in DOMAIN out
    BY <1>2, <1>9, <2>1, <2>2 DEF SplitInv, FanInv
  <2>3. CASE k = Len(out) + 1
    BY <1>2, <2>1, <2>3 DEF SplitInv, FanInv, Before
  <2>. QED
    BY <1>5, <2>2, <2>3
<1>. QED
  BY <1>1, <1>2, <1>7, <1>8, <1>9 DEF FanInv, GuidInv

LEMMA KeepSplits == ASSUME TypeOK, Loops, SplitInv, Keep PROVE SplitInv'
<1>1. /\ UNCHANGED <<items, encl, attrs, season, registered>>
      /\ at \in Nat /\ at <= Len(items) /\ at' = at + 1 /\ season = NoSeason /\ ~IsPack(items[at])
  BY DEF Keep, Splitting, Loops, AtPack, TypeOK
<1>2. at \in DOMAIN items /\ items[at] \in Item /\ DOMAIN items = 1..Len(items) /\ Len(items) \in Nat
  BY <1>1 DEF TypeOK
<1> DEFINE r == [src |-> at, season |-> NoSeason, guid |-> <<NoHash, at>>,
                 link |-> items[at].link, size |-> items[at].size]
<1>3. r \in Result /\ r.src = at /\ r.season = season /\ r.guid = GuidOf(at, season)
  BY <1>1, <1>2 DEF Result, Item, Names, Ids, GuidOf
<1>4. out' = Append(out, r)
  BY DEF Keep
<1>. HIDE DEF r
<1>5. Belongs(at, season)
  BY <1>1 DEF Belongs
<1>6. \A i \in DOMAIN items, s \in Seasonal :
        Belongs(i, s) => (Before(i, s)' <=> Before(i, s) \/ (i = at /\ s = season))
  BY <1>1, <1>2 DEF Belongs, Before
<1>7. /\ FanInv' /\ GuidInv'
      /\ \A j \in DOMAIN out : out'[j] = out[j]
      /\ \A j \in DOMAIN out' : j \in DOMAIN out \/ out'[j] = r
  BY <1>1, <1>2, <1>3, <1>4, <1>5, <1>6, OneMore
<1>8. AdvertisedInv'
  BY <1>1, <1>3, <1>7 DEF SplitInv, AdvertisedInv, Advertised, RealHashOf, RegisteredWith
<1>9. OnlyRealMagnetsRegistered'
  BY <1>1 DEF SplitInv, OnlyRealMagnetsRegistered
<1>. QED
  BY <1>7, <1>8, <1>9 DEF SplitInv

LEMMA StartPackSplits == ASSUME TypeOK, Loops, SplitInv, StartPack PROVE SplitInv'
<1>1. /\ UNCHANGED <<items, encl, attrs, at, out, registered>>
      /\ at \in Nat /\ at <= Len(items) /\ season = NoSeason /\ IsPack(items[at])
      /\ season' = Detect(items[at].title).lo
  BY DEF StartPack, Splitting, TypeOK
<1>2. items[at] \in Item /\ DOMAIN items = 1..Len(items) /\ Len(items) \in Nat
  BY <1>1 DEF TypeOK
<1>3. season' \in Nat /\ \A s \in SeasonsOf(items[at]) : s \in Nat /\ ~(s < season')
  BY <1>1, <1>2, PackSeasons DEF SeasonsOf
<1>4. \A i \in DOMAIN items, s \in Seasonal : Belongs(i, s)' = Belongs(i, s)
  BY <1>1 DEF Belongs
<1>5. \A i \in DOMAIN items, s \in Seasonal : Belongs(i, s) => (Before(i, s)' <=> Before(i, s))
  BY <1>1, <1>2, <1>3 DEF Belongs, Before
<1>6. \A j \in DOMAIN out : out[j].src \in DOMAIN items /\ out[j].season \in Seasonal
  BY ResultTypes DEF SplitInv, FanInv
<1>7. FanInv'
  BY <1>1, <1>4, <1>5, <1>6 DEF SplitInv, FanInv
<1>8. GuidInv' /\ AdvertisedInv' /\ OnlyRealMagnetsRegistered'
  BY <1>1 DEF SplitInv, GuidInv, GuidOf, SynthOf, IdOf, AdvertisedInv, Advertised, RealHashOf,
              RegisteredWith, OnlyRealMagnetsRegistered
<1>. QED
  BY <1>7, <1>8 DEF SplitInv

LEMMA SplitSplits == ASSUME TypeOK, Loops, SplitInv, Split PROVE SplitInv'
<1>1. /\ AtPack /\ at \in 1..Len(items) /\ items[at] \in Item /\ season \in Nat
      /\ \A i \in DOMAIN items : i # at => encl'[i] = encl[i] /\ attrs'[i] = attrs[i]
      /\ encl'[at].hash = Rewritten(encl[at].hash, SynthOf(at, season))
      /\ attrs'[at].hash = Rewritten(attrs[at].hash, SynthOf(at, season))
      /\ registered' = Registered(SynthOf(at, season), magnet)
      /\ NextSeason
      /\ UNCHANGED items
  BY SplitDoes
<1>2. PICK i \in DOMAIN items, s \in Nat : i = at /\ s = season
  BY <1>1 DEF TypeOK
<1>3. PICK synth \in Synths : synth = SynthOf(i, s)
  BY <1>2, SynthsAreSynths
<1>4. PICK r : /\ r \in Result /\ out' = Append(out, r)
               /\ r.src = i /\ r.season = s /\ r.guid = synth /\ r.link = Rewritten(items[i].link, synth)
  <2>1. PICK z \in Nat :
           out' = Append(out, [src |-> at, season |-> season, guid |-> SynthOf(at, season),
                               link |-> Rewritten(items[at].link, SynthOf(at, season)), size |-> z])
    BY SplitDoes
  <2>2. Rewritten(items[i].link, synth) \in Names \union Synths
    BY <1>1, <1>2 DEF Rewritten, Names
  <2>3. i \in Nat \ {0}
    BY <1>1, <1>2
  <2>4. [src |-> i, season |-> s, guid |-> synth, link |-> Rewritten(items[i].link, synth), size |-> z]
          \in Result
    BY <2>2, <2>3 DEF Result
  <2>. QED
    BY <1>2, <1>3, <2>1, <2>4
<1>5. s # NoSeason /\ GuidOf(at, season) = synth
  BY <1>2, <1>3 DEF GuidOf, NoSeason
<1>6. IsPack(items[i]) /\ s \in SeasonsOf(items[i]) /\ ih = Hash(items[i])
      /\ magnet = MagnetFromItem(items[i].enclosure, items[i].link, items[i].guid)
  BY <1>1, <1>2 DEF AtPack
<1>7. Belongs(at, season)
  BY <1>2, <1>6 DEF Belongs
<1>8. \A k \in DOMAIN items, t \in Seasonal :
        Belongs(k, t) => (Before(k, t)' <=> Before(k, t) \/ (k = at /\ t = season))
  <2>1. DOMAIN items \subseteq Nat
    BY DEF TypeOK
  <2>2. Detect(items[i].title).lo \in Nat /\ Detect(items[i].title).hi \in Nat
    BY <1>1, <1>2, <1>6, PackSeasons
  <2>3. \A t \in Seasonal : Belongs(i, t) => t \in Nat /\ t <= Detect(items[i].title).hi
    BY <1>6, <2>2 DEF Belongs, SeasonsOf
  <2>4. CASE s = Detect(items[i].title).hi
    <3>1. season' = NoSeason /\ at' = i + 1
      BY <1>1, <1>2, <2>4 DEF NextSeason
    <3>. QED
      BY <1>2, <1>5, <2>1, <2>3, <2>4, <3>1 DEF Before
  <2>5. CASE s # Detect(items[i].title).hi
    <3>1. season' = s + 1 /\ at' = i /\ season' # NoSeason
      BY <1>1, <1>2, <2>5 DEF NextSeason, NoSeason
    <3>. QED
      BY <1>2, <1>5, <2>1, <2>3, <3>1 DEF Before
  <2>. QED
    BY <2>4, <2>5
<1>9. /\ FanInv' /\ GuidInv'
      /\ \A j \in DOMAIN out : out'[j] = out[j]
      /\ \A j \in DOMAIN out' : j \in DOMAIN out \/ out'[j] = r
  BY <1>1, <1>2, <1>4, <1>5, <1>7, <1>8, OneMore
<1>10. registered \subseteq registered'
  BY <1>1 DEF Registered
<1>11. ASSUME Hash(items[i]) \in Hex PROVE RegisteredWith(synth, Hash(items[i]))'
  <2>1. magnet \in Names
    BY DEF TypeOK
  <2>. QED
    BY <1>1, <1>2, <1>3, <1>6, <1>11, <2>1 DEF Registered, RegisteredWith
<1>12. /\ encl'[i].hash \in {NoHash, synth} /\ attrs'[i].hash \in {NoHash, synth}
       /\ r.link \in {NoHash, synth}
  BY <1>1, <1>2, <1>3, <1>4 DEF Rewritten
<1>13. ASSUME NEW j \in DOMAIN out', out'[j].season # NoSeason, RealHashOf(j)' \in Hex,
              NEW h \in Advertised(j)'
       PROVE  RegisteredWith(h, RealHashOf(j))'
  <2>1. CASE out'[j] = r
    BY <1>1, <1>4, <1>11, <1>12, <1>13, <2>1 DEF Advertised, RealHashOf
  <2>2. CASE j \in DOMAIN out /\ out[j].src = i
    <3>1. out'[j] = out[j] /\ RealHashOf(j)' = RealHashOf(j) /\ RealHashOf(j) = Hash(items[i])
      BY <1>1, <1>9, <2>2 DEF RealHashOf
    <3>2. CASE h = synth
      BY <1>1, <1>11, <1>13, <3>1, <3>2 DEF RegisteredWith, RealHashOf
    <3>3. CASE h = out[j].link /\ h # NoHash
      <4>1. RegisteredWith(h, RealHashOf(j))
        BY <1>13, <2>2, <3>1, <3>3 DEF SplitInv, AdvertisedInv, Advertised
      <4>. QED
        BY <1>10, <3>1, <4>1 DEF RegisteredWith
    <3>. QED
      BY <1>12, <1>13, <2>2, <3>1, <3>2, <3>3 DEF Advertised
  <2>3. CASE j \in DOMAIN out /\ out[j].src # i
    <3>1. out[j].src \in DOMAIN items
      BY <2>3 DEF SplitInv, FanInv
    <3>2. RealHashOf(j)' = RealHashOf(j) /\ Advertised(j)' = Advertised(j) /\ out'[j] = out[j]
      BY <1>1, <1>2, <1>9, <2>3, <3>1 DEF RealHashOf, Advertised
    <3>3. RegisteredWith(h, RealHashOf(j))
      BY <1>13, <2>3, <3>2 DEF SplitInv, AdvertisedInv
    <3>. QED
      BY <1>10, <3>2, <3>3 DEF RegisteredWith
  <2>. QED
    BY <1>9, <2>1, <2>2, <2>3
<1>14. AdvertisedInv'
  BY <1>13 DEF AdvertisedInv
<1>15. OnlyRealMagnetsRegistered'
  BY <1>1, <1>2, <1>6 DEF SplitInv, OnlyRealMagnetsRegistered, Registered
<1>. QED
  BY <1>9, <1>14, <1>15 DEF SplitInv

LEMMA SplitHolds == TypeOK /\ Loops /\ SplitInv /\ [Next]_vars => SplitInv'
<1>. SUFFICES ASSUME TypeOK, Loops, SplitInv, [Next]_vars PROVE SplitInv'
  OBVIOUS
<1>0. TypeOK' /\ Loops'
  BY TypesHold, LoopsHold
<1>1. CASE phase' \notin {"split", "served"}
  <2>1. (TypeOK /\ Loops /\ phase \notin {"split", "served"} => SplitInv)'
    BY Quiet, PTL
  <2>. QED
    BY <1>0, <1>1, <2>1
<1>2. CASE UNCHANGED <<items, encl, attrs, at, season, out, registered>>
  <2>1. FanInv'
    BY <1>2 DEF SplitInv, FanInv, Belongs, Before
  <2>2. GuidInv'
    BY <1>2 DEF SplitInv, GuidInv, GuidOf, SynthOf, IdOf
  <2>3. AdvertisedInv'
    BY <1>2 DEF SplitInv, AdvertisedInv, Advertised, RealHashOf, RegisteredWith
  <2>4. OnlyRealMagnetsRegistered'
    BY <1>2 DEF SplitInv, OnlyRealMagnetsRegistered
  <2>. QED
    BY <2>1, <2>2, <2>3, <2>4 DEF SplitInv
<1>3. CASE Keep \/ StartPack \/ Split
  BY <1>3, KeepSplits, StartPackSplits, SplitSplits
<1>4. CASE Handle \/ AllArrived \/ Merged \/ Marshal \/ UNCHANGED vars \/ \E i \in 1..Upstreams : Arrive(i)
  BY <1>2, <1>4 DEF Handle, Arrive, AllArrived, Merged, Marshal, vars, splitVars
<1>5. CASE MergeItem \/ NextBody
  BY <1>1, <1>5 DEF MergeItem, NextBody
<1>. QED
  BY <1>3, <1>4, <1>5 DEF Next

THEOREM FeedInvariant == Spec => [](TypeOK /\ Loops /\ MergeInv /\ SplitInv)
<1>1. Init => MergeInv /\ phase = "request"
  BY FeedAssumption DEF Init, MergeInv, InPlace, MergedSoFar, Firsts, NoneTwice
<1>2. Init => SplitInv
  BY <1>1, InitTypes, Quiet
<1>. QED
  BY <1>1, <1>2, InitTypes, TypesHold, LoopsHold, MergeHolds, SplitHolds, PTL DEF Spec

(***************************************************************************)
(* Every pack goes out season by season, everything else as it is, and all *)
(* of it in order.                                                         *)
(***************************************************************************)
THEOREM PacksFanOut == Spec => []FansOut
<1>1. TypeOK /\ Loops /\ SplitInv => FansOut
  <2>. SUFFICES ASSUME TypeOK, Loops, SplitInv, phase = "served" PROVE FansOut
    BY DEF FansOut
  <2>1. \A i \in DOMAIN items, s \in Seasonal : Before(i, s)
    BY DEF TypeOK, Loops, Before
  <2>2. \A i \in DOMAIN items : ResultsOf(i) = {<<i, s>> : s \in {t \in Seasonal : Belongs(i, t)}}
    <3>. SUFFICES ASSUME NEW i \in DOMAIN items
                  PROVE  ResultsOf(i) = {<<i, s>> : s \in {t \in Seasonal : Belongs(i, t)}}
      OBVIOUS
    <3>1. CASE IsPack(items[i])
      <4>1. SeasonsOf(items[i]) \subseteq Nat
        BY <3>1, PackSeasons DEF SeasonsOf, TypeOK
      <4>2. {t \in Seasonal : Belongs(i, t)} = SeasonsOf(items[i])
        BY <3>1, <4>1 DEF Belongs, Seasonal
      <4>. QED
        BY <3>1, <4>2 DEF ResultsOf
    <3>2. CASE ~IsPack(items[i])
      <4>1. {t \in Seasonal : Belongs(i, t)} = {NoSeason}
        BY <3>2 DEF Belongs, Seasonal
      <4>. QED
        BY <3>2, <4>1 DEF ResultsOf
    <3>. QED
      BY <3>1, <3>2
  <2>3. \A j \in DOMAIN out : out[j].season \in Seasonal
    BY ResultTypes
  <2>4. \A j \in DOMAIN out : <<out[j].src, out[j].season>> \in UNION {ResultsOf(i) : i \in DOMAIN items}
    BY <2>2, <2>3 DEF SplitInv, FanInv
  <2>5. ASSUME NEW i \in DOMAIN items, NEW x \in ResultsOf(i)
        PROVE  \E j \in DOMAIN out : x = <<out[j].src, out[j].season>>
    <3>1. PICK s \in Seasonal : Belongs(i, s) /\ x = <<i, s>>
      BY <2>2, <2>5
    <3>. QED
      BY <2>1, <3>1 DEF SplitInv, FanInv
  <2>6. {<<out[j].src, out[j].season>> : j \in DOMAIN out} = UNION {ResultsOf(i) : i \in DOMAIN items}
    BY <2>4, <2>5
  <2>. QED
    BY <2>6 DEF FansOut, SplitInv, FanInv
<1>. QED
  BY <1>1, FeedInvariant, PTL

(***************************************************************************)
(* No two results share a GUID.                                            *)
(***************************************************************************)
THEOREM ResultsHaveOwnGuids == Spec => []GuidsDiffer
<1>1. TypeOK /\ MergeInv /\ SplitInv => GuidsDiffer
  <2>. SUFFICES ASSUME TypeOK, MergeInv, SplitInv, NEW j \in DOMAIN out, NEW k \in DOMAIN out, j < k
                PROVE  out[j].guid # out[k].guid
    <3>1. DOMAIN out \subseteq Nat
      BY DEF TypeOK
    <3>. QED
      BY <3>1 DEF GuidsDiffer
  <2>1. PICK i \in DOMAIN items, s \in Seasonal :
           i = out[j].src /\ s = out[j].season /\ out[j].guid = GuidOf(i, s)
    BY ResultTypes DEF SplitInv, FanInv, GuidInv
  <2>2. PICK l \in DOMAIN items, t \in Seasonal :
           l = out[k].src /\ t = out[k].season /\ out[k].guid = GuidOf(l, t)
    BY ResultTypes DEF SplitInv, FanInv, GuidInv
  <2>3. i # l \/ s # t
    <3>1. i < l \/ (i = l /\ s < t)
      BY <2>1, <2>2 DEF SplitInv, FanInv
    <3>. QED
      BY <3>1 DEF Seasonal, TypeOK, NoSeason
  <2>4. /\ i \in Nat /\ l \in Nat
        /\ Hash(items[i]) \in Names /\ Hash(items[l]) \in Names
    <3>1. items \in Seq(Item)
      BY DEF TypeOK
    <3>2. DOMAIN items \subseteq Nat /\ items[i] \in Item /\ items[l] \in Item
      BY <3>1
    <3>. QED
      BY <3>2, HashesAreNames
  <2>5. \A n \in Nat : <<NoHash, n>> \notin Names
    BY FeedAssumption DEF Names
  <2>6. IdOf(i) # NoHash /\ IdOf(l) # NoHash /\ (i # l => IdOf(i) # IdOf(l))
    BY <2>4, <2>5 DEF IdOf, MergeInv, NoneTwice, Names
  <2>. QED
    BY <2>1, <2>2, <2>3, <2>6 DEF GuidOf, SynthOf
<1>. QED
  BY <1>1, FeedInvariant, PTL

(***************************************************************************)
(* What Sonarr can add of a served feed, the shim knows.                   *)
(***************************************************************************)
THEOREM AdvertisedIsKnown == Spec => []AdvertisedIsRegistered
<1>1. SplitInv => AdvertisedIsRegistered
  BY DEF SplitInv, AdvertisedInv, AdvertisedIsRegistered, RegisteredWith
<1>. QED
  BY <1>1, FeedInvariant, PTL

(***************************************************************************)
(* And with a magnet of that very torrent as an indexer gave it.           *)
(***************************************************************************)
THEOREM RegisteredMagnetsAreReal == Spec => []OnlyRealMagnetsRegistered
<1>1. SplitInv => OnlyRealMagnetsRegistered
  BY DEF SplitInv
<1>. QED
  BY <1>1, FeedInvariant, PTL

-------------------------------------------------------------------------------
(***************************************************************************)
(* SeasonParse.  What FromFilename answers is settled by the first pattern *)
(* and the first candidate for it that find a number.                      *)
(***************************************************************************)
LEMMA FirstFound ==
  ASSUME NEW p, NEW k \in SeasonPatterns, NEW c \in 1..3,
         Found(p, Candidates(p)[c], k) # 0,
         \A l \in SeasonPatterns, d \in 1..3 :
           l < k \/ (l = k /\ d < c) => Found(p, Candidates(p)[d], l) = 0
  PROVE  FromFilename(p) = Found(p, Candidates(p)[c], k)
<1> DEFINE hits == {h \in SeasonPatterns \X (1..3) : Found(p, Candidates(p)[h[2]], h[1]) # 0}
           First(h) == \A g \in hits : h[1] < g[1] \/ (h[1] = g[1] /\ h[2] <= g[2])
<1>1. <<k, c>> \in hits
  OBVIOUS
<1>2. \A h \in hits : /\ h[1] \in 1..5 /\ h[2] \in 1..3 /\ h = <<h[1], h[2]>>
                      /\ ~(h[1] < k \/ (h[1] = k /\ h[2] < c))
  BY DEF SeasonPatterns
<1>. HIDE DEF hits
<1>3. First(<<k, c>>)
  BY <1>2 DEF SeasonPatterns
<1>4. \A h \in hits : First(h) => h = <<k, c>>
  BY <1>1, <1>2 DEF SeasonPatterns
<1>. HIDE DEF First
<1>5. (CHOOSE h \in hits : First(h)) = <<k, c>>
  BY <1>1, <1>3, <1>4
<1>6. FromFilename(p) = Found(p, Candidates(p)[(<<k, c>>)[2]], (<<k, c>>)[1])
  BY <1>1, <1>5 DEF FromFilename, hits, First
<1>. QED
  BY <1>6

LEMMA Parsed == ParseSpec => [](answer \in {NoAnswer, FromFilename(path)})
<1>1. ParseInit => answer \in {NoAnswer, FromFilename(path)}
  BY DEF ParseInit
<1>2. answer \in {NoAnswer, FromFilename(path)} /\ [Parse]_parseVars
        => (answer \in {NoAnswer, FromFilename(path)})'
  BY DEF Parse, parseVars
<1>. QED
  BY <1>1, <1>2, PTL DEF ParseSpec

(***************************************************************************)
(* The name of an episode decides, whatever folders it lies in.            *)
(***************************************************************************)
THEOREM EpisodesDecide == ParseSpec => []EpisodeNamesDecide
<1>1. answer \in {NoAnswer, FromFilename(path)} => EpisodeNamesDecide
  <2>. SUFFICES ASSUME answer = FromFilename(path), Found(path, Base(path), 1) # 0
                PROVE  answer = Found(path, Base(path), 1)
    BY DEF EpisodeNamesDecide
  <2>1. Candidates(path)[1] = Base(path)
    BY DEF Candidates
  <2>2. FromFilename(path) = Found(path, Candidates(path)[1], 1)
    BY <2>1, FirstFound DEF SeasonPatterns
  <2>. QED
    BY <2>1, <2>2
<1>. QED
  BY <1>1, Parsed, PTL

(***************************************************************************)
(* Where a file says nothing its own folder decides.                       *)
(***************************************************************************)
THEOREM FoldersDecide == ParseSpec => []OwnFolderDecides
<1>1. answer \in {NoAnswer, FromFilename(path)} => OwnFolderDecides
  <2>. SUFFICES ASSUME answer = FromFilename(path), Base(path) = {},
                       Found(path, Parent(path), 3) # 0,
                       \A i \in DOMAIN path : path[i].patterns \intersect {1, 2} = {}
                PROVE  answer = Found(path, Parent(path), 3)
    BY DEF OwnFolderDecides
  <2>1. /\ Candidates(path)[1] = {} /\ Candidates(path)[2] = Parent(path)
        /\ \A d \in 1..3 : Candidates(path)[d] \subseteq DOMAIN path
    BY DEF Candidates, Parent
  <2>2. \A l \in 1..2, d \in 1..3 : Found(path, Candidates(path)[d], l) = 0
    BY <2>1 DEF Found
  <2>3. Found(path, Candidates(path)[1], 3) = 0
    BY <2>1 DEF Found
  <2>4. FromFilename(path) = Found(path, Candidates(path)[2], 3)
    <3>1. \A l \in SeasonPatterns, d \in 1..3 :
            l < 3 \/ (l = 3 /\ d < 2) => Found(path, Candidates(path)[d], l) = 0
      BY <2>2, <2>3 DEF SeasonPatterns
    <3>. QED
      BY <2>1, <3>1, FirstFound DEF SeasonPatterns
  <2>. QED
    BY <2>1, <2>4
<1>. QED
  BY <1>1, Parsed, PTL
===============================================================================
