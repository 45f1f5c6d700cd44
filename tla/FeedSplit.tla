------------------------------ MODULE FeedSplit ------------------------------
(***************************************************************************)
(* internal/torznab/proxy.go: how one request is answered.  A search is    *)
(* sent to all upstream indexers at once (handleAPI), their bodies are     *)
(* merged without repeated infohashes (splitFeedMulti), every multi-season *)
(* pack among the items is replaced by one result per season (splitItems,  *)
(* synthItem), each of them is registered with the shim (onSynth), and the *)
(* list is marshalled.                                                     *)
(*                                                                         *)
(* synthItem starts from `clone := orig`, which copies an item's strings   *)
(* (GUID, Link, Size) but shares what the item points to: the *enclosure   *)
(* and the array behind Attrs.  The model keeps those two on a heap, one   *)
(* cell per parsed item; a result names its cell by the item it came from. *)
(***************************************************************************)
EXTENDS Integers, Sequences, FiniteSets, Titles

CONSTANTS
  Infohashes,  \* of the upstream items
  Hex,         \* those the shim's isInfohash accepts; the others are base32
  NoHash,      \* no magnet, no infohash attribute
  NoBody,      \* a fetch that failed
  BadBody,     \* a body xml.Unmarshal rejects
  Bodies,      \* what an upstream may answer: a sequence of items or one of these
  Upstreams    \* how many are configured

(***************************************************************************)
(* An upstream item.  link, enclosure, attr and guid are the infohash each *)
(* of these carries, NoHash for one without (a download-proxy URL, no      *)
(* attribute, a guid that is no magnet).  size stands in all three places  *)
(* it is written to.                                                       *)
(***************************************************************************)
Item == [title : Title, size : Nat,
         guid : Infohashes \union {NoHash},
         link : Infohashes \union {NoHash},
         enclosure : Infohashes \union {NoHash},
         attr : Infohashes \union {NoHash}]

ASSUME FeedAssumption ==
  /\ NoHash \notin Infohashes
  /\ (Infohashes \union {NoHash}) \intersect ({NoHash} \X Nat) = {}
  /\ Hex \subseteq Infohashes
  /\ Bodies \subseteq Seq(Item) \union {NoBody, BadBody}
  /\ NoBody \notin Seq(Item) /\ BadBody \notin Seq(Item)
  /\ Upstreams \in Nat \ {0}

VARIABLES
  request,      \* whether the client has the API key, whether it asks for a search
  answers,      \* what each upstream answers to it
  arrived,      \* the upstreams whose answer is in
  bodies,       \* answers to merge, the first one item by item
  parsed,       \* parsedCount
  items,        \* merged.Channel.Items
  encl, attrs,  \* the heap: cell i belongs to items[i]
  at,           \* the item splitItems is at
  ih, magnet,   \* its infohash and the hash in its magnet
  season,       \* where the season loop is
  out,          \* the results so far
  registered,   \* <<synthetic hash, real hash, magnet>> the shim has stored
  phase

proxyVars == <<request, answers, arrived>>
vars == <<proxyVars, bodies, parsed, items, encl, attrs, at, ih, magnet, season, out,
          registered, phase>>

NoSeason == -1

SyntheticInfohash(id, s) == <<id, s>>

IsPack(it) == Detect(it.title) # NoRange

SeasonsOf(it) == Detect(it.title).lo..Detect(it.title).hi

NumSeasons(it) == Detect(it.title).hi - Detect(it.title).lo + 1

\* extractInfohash prefers the attribute, then the enclosure, then the link.
ExtractInfohash(attr, enclosure, link) ==
  IF attr # NoHash THEN attr ELSE IF enclosure # NoHash THEN enclosure ELSE link

Hash(it) == ExtractInfohash(it.attr, it.enclosure, it.link)

\* magnetFromItem looks in the guid too, and not in the attribute.
MagnetFromItem(enclosure, link, guid) ==
  IF enclosure # NoHash THEN enclosure ELSE IF link # NoHash THEN link ELSE guid

\* divNumericString leaves what is not positive alone.
Divided(v, n) == IF v <= 0 THEN v ELSE v \div n

\* rewriteMagnetInfohash leaves a URL without a btih alone.
Rewritten(h, synth) == IF h = NoHash THEN NoHash ELSE synth

Init ==
  /\ request \in [keyed : BOOLEAN, search : BOOLEAN]
  /\ answers \in [1..Upstreams -> Bodies]
  /\ arrived = {}
  /\ bodies = [i \in 1..Upstreams |-> NoBody]
  /\ parsed = 0
  /\ items = <<>> /\ encl = <<>> /\ attrs = <<>>
  /\ at = 1 /\ ih = NoHash /\ magnet = NoHash /\ season = NoSeason
  /\ out = <<>> /\ registered = {}
  /\ phase = "request"

splitVars == <<parsed, items, encl, attrs, at, ih, magnet, season, out, registered>>

-------------------------------------------------------------------------------
(***************************************************************************)
(* handleAPI: 401 without the key; what is no search is answered with the  *)
(* first upstream's answer as it is ("raw"), or 502.                       *)
(***************************************************************************)
Handle ==
  /\ phase = "request"
  /\ phase' = IF ~request.keyed THEN "unauthorized"
              ELSE IF request.search THEN "fetch"
              ELSE IF answers[1] = NoBody THEN "gateway" ELSE "raw"
  /\ UNCHANGED <<proxyVars, bodies, splitVars>>

\* Mutant: in the order of arrival.
ArriveInTurn(i) ==
  /\ phase = "fetch"
  /\ i \notin arrived
  /\ arrived' = arrived \union {i}
  /\ bodies' = [bodies EXCEPT ![Cardinality(arrived) + 1] = answers[i]]
  /\ UNCHANGED <<request, answers, splitVars, phase>>

\* The upstreams answer in any order, each into its own place.
Arrive(i) ==
  /\ phase = "fetch"
  /\ i \notin arrived
  /\ arrived' = arrived \union {i}
  /\ bodies' = [bodies EXCEPT ![i] = answers[i]]
  /\ UNCHANGED <<request, answers, splitVars, phase>>

\* One receive per upstream: the merge waits for the slowest.
AllArrived ==
  /\ phase = "fetch"
  /\ arrived = 1..Upstreams
  /\ phase' = "merge"
  /\ UNCHANGED <<proxyVars, bodies, splitVars>>

-------------------------------------------------------------------------------
\* Mutant: nothing is remembered.
SeenNothing == {}

\* seen: the infohashes that have been merged.
Seen == {Hash(items[i]) : i \in DOMAIN items} \ {NoHash}

MergeItem ==
  /\ phase = "merge"
  /\ bodies # <<>>
  /\ Head(bodies) \notin {NoBody, BadBody, <<>>}
  /\ bodies' = [bodies EXCEPT ![1] = Tail(@)]
  /\ LET it == Head(Head(bodies))
     IN IF Hash(it) \in Seen
        THEN UNCHANGED <<items, encl, attrs>>
        ELSE /\ items' = Append(items, it)
             /\ encl' = Append(encl, [hash |-> it.enclosure, length |-> it.size])
             /\ attrs' = Append(attrs, [hash |-> it.attr, size |-> it.size])
  /\ UNCHANGED <<proxyVars, parsed, at, ih, magnet, season, out, registered, phase>>

\* The next upstream; what did not parse is skipped.
NextBody ==
  /\ phase = "merge"
  /\ bodies # <<>>
  /\ Head(bodies) \in {NoBody, BadBody, <<>>}
  /\ bodies' = Tail(bodies)
  /\ parsed' = IF Head(bodies) \in {NoBody, BadBody} THEN parsed ELSE parsed + 1
  /\ UNCHANGED <<proxyVars, items, encl, attrs, at, ih, magnet, season, out, registered, phase>>

\* With no body parsed handleAPI serves the first non-empty one as it came,
\* or 502; nothing is split or registered.
Merged ==
  /\ phase = "merge"
  /\ bodies = <<>>
  /\ phase' = IF parsed # 0 THEN "split"
              ELSE IF \E i \in 1..Upstreams : answers[i] # NoBody THEN "raw" ELSE "gateway"
  /\ UNCHANGED <<proxyVars, bodies, splitVars>>

Splitting == phase = "split" /\ at <= Len(items)

\* Mutant: the loop variable is stepped twice.
KeepSkipping ==
  /\ Splitting
  /\ ~IsPack(items[at])
  /\ at' = at + 2
  /\ UNCHANGED <<proxyVars, bodies, parsed, items, encl, attrs, ih, magnet, season, out,
                 registered, phase>>

\* An item that is no pack goes out untouched.
Keep ==
  /\ Splitting
  /\ ~IsPack(items[at])
  /\ out' = Append(out, [src |-> at, season |-> NoSeason, guid |-> <<NoHash, at>>,
                         link |-> items[at].link, size |-> items[at].size])
  /\ at' = at + 1
  /\ UNCHANGED <<proxyVars, bodies, parsed, items, encl, attrs, ih, magnet, season, registered, phase>>

\* The item's infohash and magnet are read once, before any season rewrites
\* them.
StartPack ==
  /\ Splitting
  /\ IsPack(items[at])
  /\ season = NoSeason
  /\ ih' = ExtractInfohash(attrs[at].hash, encl[at].hash, items[at].link)
  /\ magnet' = MagnetFromItem(encl[at].hash, items[at].link, items[at].guid)
  /\ season' = Detect(items[at].title).lo
  /\ UNCHANGED <<proxyVars, bodies, parsed, items, encl, attrs, at, out, registered, phase>>

\* Mutant: one turn too few.
SplitShort ==
  /\ Splitting
  /\ season # NoSeason
  /\ season' = NoSeason
  /\ ih' = NoHash /\ magnet' = NoHash
  /\ at' = at + 1
  /\ UNCHANGED <<proxyVars, bodies, parsed, items, encl, attrs, out, registered, phase>>

\* synthItem writes through the shared enclosure and Attrs.
SynthItem(synth) ==
  LET it == items[at]
      n  == NumSeasons(it)
  IN /\ encl' = [encl EXCEPT ![at] =
           [hash |-> Rewritten(@.hash, synth), length |-> Divided(@.length, n)]]
     /\ attrs' = [attrs EXCEPT ![at] =
           [hash |-> Rewritten(@.hash, synth), size |-> Divided(@.size, n)]]
     /\ out' = Append(out, [src |-> at, season |-> season, guid |-> synth,
                            link |-> Rewritten(it.link, synth), size |-> Divided(it.size, n)])

\* onSynth, which is not called without an infohash; the shim's
\* RegisterSynthetic turns away what is not 40 hex digits.
Registered(synth, m) ==
  IF ih \in Hex THEN registered \union {<<synth, ih, m>>} ELSE registered

\* The season loop steps, or ends and the next item follows.
NextSeason ==
  IF season = Detect(items[at].title).hi
  THEN /\ season' = NoSeason
       /\ ih' = NoHash /\ magnet' = NoHash
       /\ at' = at + 1
  ELSE /\ season' = season + 1
       /\ UNCHANGED <<ih, magnet, at>>

\* Mutant: the magnet is read anew for each season.
SplitRereading ==
  /\ Splitting
  /\ season # NoSeason
  /\ LET synth == SyntheticInfohash(IF ih = NoHash THEN <<NoHash, at>> ELSE ih, season)
     IN /\ SynthItem(synth)
        /\ registered' = Registered(synth, MagnetFromItem(encl[at].hash, items[at].link, items[at].guid))
  /\ NextSeason
  /\ UNCHANGED <<proxyVars, bodies, parsed, items, phase>>

\* Mutant: the callback is told of the next season's hash.
SplitMisregistering ==
  /\ Splitting
  /\ season # NoSeason
  /\ SynthItem(SyntheticInfohash(IF ih = NoHash THEN <<NoHash, at>> ELSE ih, season))
  /\ registered' = Registered(SyntheticInfohash(ih, season + 1), magnet)
  /\ NextSeason
  /\ UNCHANGED <<proxyVars, bodies, parsed, items, phase>>

\* One turn of the season loop.  An item without infohash is told apart by
\* its GUID.
Split ==
  /\ Splitting
  /\ season # NoSeason
  /\ LET synth == SyntheticInfohash(IF ih = NoHash THEN <<NoHash, at>> ELSE ih, season)
     IN /\ SynthItem(synth)
        /\ registered' = Registered(synth, magnet)
  /\ NextSeason
  /\ UNCHANGED <<proxyVars, bodies, parsed, items, phase>>

\* xml.MarshalIndent reads the heap as it is now.
Marshal ==
  /\ phase = "split"
  /\ at > Len(items)
  /\ phase' = "served"
  /\ UNCHANGED <<proxyVars, bodies, splitVars>>

Next ==
  \/ Handle
  \/ \E i \in 1..Upstreams : Arrive(i)
  \/ AllArrived
  \/ MergeItem \/ NextBody \/ Merged
  \/ Keep \/ StartPack \/ Split
  \/ Marshal

Spec == Init /\ [][Next]_vars

-------------------------------------------------------------------------------
Names == Infohashes \union {NoHash}
Ids == Names \union ({NoHash} \X Nat)
Synths == Ids \X Nat

\* Every variable has its type.
TypeOK ==
  /\ answers \in [1..Upstreams -> Bodies]
  /\ arrived \subseteq 1..Upstreams
  /\ bodies \in Seq(Seq(Item) \union {NoBody, BadBody})
  /\ parsed \in 0..Upstreams
  /\ items \in Seq(Item)
  /\ encl \in Seq([hash : Names \union Synths, length : Nat]) /\ Len(encl) = Len(items)
  /\ attrs \in Seq([hash : Names \union Synths, size : Nat]) /\ Len(attrs) = Len(items)
  /\ at \in 1..(Len(items) + 1)
  /\ ih \in Names /\ magnet \in Names
  /\ season \in Nat \union {NoSeason}
  /\ out \in Seq([src : Nat \ {0}, season : Nat \union {NoSeason}, guid : Ids \union Synths,
                  link : Names \union Synths, size : Nat])
  /\ registered \subseteq Synths \X Infohashes \X Names
  /\ phase \in {"request", "unauthorized", "fetch", "merge", "raw", "gateway", "split", "served"}

\* The infohashes result i carries when it is marshalled.
Advertised(i) ==
  {out[i].link, encl[out[i].src].hash, attrs[out[i].src].hash} \ {NoHash}

(***************************************************************************)
(* splitItems fans out exactly: served results are, in the items' order,   *)
(* each pack's seasons from first to last, and each other item once.       *)
(***************************************************************************)
ResultsOf(i) ==
  IF IsPack(items[i]) THEN {<<i, s>> : s \in SeasonsOf(items[i])} ELSE {<<i, NoSeason>>}

FansOut ==
  phase = "served" =>
    /\ {<<out[j].src, out[j].season>> : j \in DOMAIN out} = UNION {ResultsOf(i) : i \in DOMAIN items}
    /\ \A j, k \in DOMAIN out :
         j < k => \/ out[j].src < out[k].src
                  \/ out[j].src = out[k].src /\ out[j].season < out[k].season

(***************************************************************************)
(* Whatever hash of a season result Sonarr adds, the shim resolves it: it  *)
(* was registered, for the torrent the result came from, before the feed   *)
(* is served, if that torrent's infohash is of the kind the shim takes.    *)
(***************************************************************************)
RealHashOf(j) == Hash(items[out[j].src])

AdvertisedIsRegistered ==
  phase = "served" =>
    \A j \in DOMAIN out : out[j].season # NoSeason /\ RealHashOf(j) \in Hex =>
      \A h \in Advertised(j) : \E m \in Names : <<h, RealHashOf(j), m>> \in registered

(***************************************************************************)
(* "RegisterSynthetic stored the REAL upstream magnet": what the shim gets *)
(* for a torrent is what the indexer gave as the magnet of an item of that *)
(* torrent, never one that a season before has rewritten to its own        *)
(* infohash in the enclosure they share.                                   *)
(***************************************************************************)
OnlyRealMagnetsRegistered ==
  \A x \in registered : \E i \in DOMAIN items :
    /\ Hash(items[i]) = x[2]
    /\ x[3] = MagnetFromItem(items[i].enclosure, items[i].link, items[i].guid)

(***************************************************************************)
(* The feed does not depend on who answers first: of a torrent that        *)
(* several indexers list, the item of the first configured one is served,  *)
(* where that indexer has it first.                                        *)
(***************************************************************************)
Listed(i) == IF answers[i] \in {NoBody, BadBody} THEN <<>> ELSE answers[i]

FirstListed(h) ==
  LET u == CHOOSE i \in 1..Upstreams :
             /\ \E n \in DOMAIN Listed(i) : Hash(Listed(i)[n]) = h
             /\ \A j \in 1..(i - 1) : \A n \in DOMAIN Listed(j) : Hash(Listed(j)[n]) # h
      n == CHOOSE n \in DOMAIN Listed(u) :
             /\ Hash(Listed(u)[n]) = h
             /\ \A m \in 1..(n - 1) : Hash(Listed(u)[m]) # h
  IN Listed(u)[n]

FirstUpstreamWins ==
  phase = "served" => \A i \in DOMAIN items : Hash(items[i]) # NoHash => items[i] = FirstListed(Hash(items[i]))

(***************************************************************************)
(* Merging the upstreams lists no torrent twice, so that no two results of *)
(* a feed share their GUID.                                                *)
(***************************************************************************)
GuidsDiffer == \A j, k \in DOMAIN out : j # k => out[j].guid # out[k].guid

(***************************************************************************)
(* "Rewrite magnet URLs so the synthetic release carries its own infohash" *)
(* (proxy.go:364-367): a season's result carries no other season's hash.   *)
(***************************************************************************)
CarriesOwnInfohash ==
  phase = "served" =>
    \A j \in DOMAIN out : out[j].season # NoSeason => Advertised(j) \subseteq {out[j].guid}
===============================================================================
