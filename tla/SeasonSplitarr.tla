---------------------------- MODULE SeasonSplitarr ----------------------------
(***************************************************************************)
(* The whole bridge as cmd/seasonsplitarr/main.go wires it: Sonarr, the    *)
(* HTTP handlers, the grabber and Real-Debrid around one store and one     *)
(* staging tree, with process deaths in between.                           *)
(***************************************************************************)
EXTENDS Grabber, QbitShim

CONSTANTS
  MaxSearches, MaxAdds, MaxDeletes, MaxCrashes   \* bounds on the environment

ASSUME BoundsAssumption ==
  /\ MaxSearches \in Nat /\ MaxAdds \in Nat
  /\ MaxDeletes \in Nat /\ MaxCrashes \in Nat

VARIABLES
  spent,      \* how often the environment has acted, against the bounds
  panicked,   \* the process has died of a nil pointer
  disturbed   \* grabs that were deleted under a goroutine, see Disturb

vars == <<grabs, torrents, saved, cache, inflight, addLock, pc, key, grab, todo, retry,
          search, add, del, seen, grabbed, spent, panicked, disturbed>>

Init ==
  /\ StoreInit /\ StagingInit /\ RDInit /\ GrabberInit /\ ShimInit /\ SonarrInit
  /\ spent = [search |-> 0, add |-> 0, delete |-> 0, crash |-> 0]
  /\ panicked = FALSE
  /\ disturbed = {}

-------------------------------------------------------------------------------
(***************************************************************************)
(* What a grab's folder holds is only promised while nobody deletes it     *)
(* from under the grabber.  disturbed remembers the grabs for which that   *)
(* happened: a delete has removed the folder; or the record is gone, or is *)
(* about another torrent, while a goroutine has the grab in flight; or the *)
(* record came to be about a torrent whose cache a delete is about to      *)
(* remove without counting it.  A grab is rid of its past once record,     *)
(* goroutine and folder are all gone.  The program has no such variable,   *)
(* and only properties read it.                                            *)
(***************************************************************************)
SameTorrent(k) == Stored(k) /\ Stored(k)' /\ grabs'[k].real = grabs[k].real

Uncounted(d, k) ==
  /\ del[d].real = grabs'[k].real
  /\ del[d].pc = "cache" \/ (del[d].pc = "count" /\ del[d].key = k)

Disturb ==
  {k \in Hashes :
    \/ \E d \in Deleters : del[d].pc = "tree" /\ del'[d].pc = "count" /\ del[d].key = k
    \/ Stored(k) /\ ~SameTorrent(k) /\ k \in inflight'
    \/ Stored(k)' /\ ~SameTorrent(k) /\ \E d \in Deleters : Uncounted(d, k)}

Observe ==
  disturbed' = {k \in disturbed \union Disturb :
                  Stored(k)' \/ k \in inflight' \/ saved'[k].dir}

Spend(what, bound) ==
  /\ spent[what] < bound
  /\ spent' = [spent EXCEPT ![what] = @ + 1]

\* A step of the grabber or Real-Debrid, a step of the shim.
ShimIdle == UNCHANGED <<search, add, del, seen, grabbed, spent, panicked>> /\ Observe
GrabberIdle ==
  UNCHANGED <<torrents, inflight, addLock, pc, key, grab, todo, retry, panicked>> /\ Observe

-------------------------------------------------------------------------------
RunTick(k) == (\E w \in Workers : Tick(w, k)) /\ ShimIdle

RunWorker(w) == Step(w) /\ ShimIdle

RDStill == UNCHANGED <<grabs, saved, cache, inflight, addLock, pc, key, grab, todo, retry>>

RunRealDebrid(t) == RDProgress(t) /\ RDStill /\ ShimIdle

TorrentDies(t) == RDDie(t) /\ RDStill /\ ShimIdle

Search(s, p) == SearchStart(s, p) /\ Spend("search", MaxSearches) /\ GrabberIdle

RunSearch(s) == SearchStep(s) /\ UNCHANGED spent /\ GrabberIdle

Add(a, k) == AddGet(a, k) /\ Spend("add", MaxAdds) /\ GrabberIdle

RunAdd(a) == AddWrite(a) /\ UNCHANGED spent /\ GrabberIdle

DeleteGrab(d, k) ==
  /\ \E deleteFiles \in BOOLEAN : DeleteStart(d, k, deleteFiles)
  /\ Spend("delete", MaxDeletes)
  /\ GrabberIdle

RunDelete(d) == DeleteStep(d) /\ UNCHANGED spent /\ GrabberIdle

(***************************************************************************)
(* The process dies and is started again (compose: restart unless-stopped).*)
(* Goroutines, locks and half-served requests are gone; the store file,    *)
(* the staging tree and Real-Debrid's torrents are what they were.         *)
(***************************************************************************)
Restart ==
  /\ GrabberRestart /\ ShimRestart
  /\ UNCHANGED <<grabs, torrents, saved, cache, seen, grabbed>>
  /\ Observe

Crash == Restart /\ Spend("crash", MaxCrashes) /\ UNCHANGED panicked

\* advance follows the nil pointer Store.Get answered.
Panic ==
  /\ \E w \in Workers : Panics(w)
  /\ Restart
  /\ panicked' = TRUE
  /\ UNCHANGED spent

Next ==
  \/ \E k \in Hashes : RunTick(k)
  \/ \E w \in Workers : RunWorker(w)
  \/ \E t \in TorrentIds : RunRealDebrid(t) \/ TorrentDies(t)
  \/ \E s \in Searchers, p \in Packs : Search(s, p)
  \/ \E s \in Searchers : RunSearch(s)
  \/ \E a \in Adders, k \in Hashes : Add(a, k)
  \/ \E a \in Adders : RunAdd(a)
  \/ \E d \in Deleters, k \in Hashes : DeleteGrab(d, k)
  \/ \E d \in Deleters : RunDelete(d)
  \/ Crash
  \/ Panic

Spec == Init /\ [][Next]_vars

-------------------------------------------------------------------------------
(***************************************************************************)
(* The next steps the program owes: goroutines run, the ticker ticks, the  *)
(* handlers get to their end, and Real-Debrid makes progress on a torrent  *)
(* that can.  Nothing makes Sonarr act, and nothing makes a fault happen.  *)
(***************************************************************************)
Fairness ==
  /\ \A k \in Hashes : WF_vars(RunTick(k))
  /\ \A w \in Workers : WF_vars(RunWorker(w))
  /\ \A t \in TorrentIds : WF_vars(RunRealDebrid(t))
  /\ \A s \in Searchers : WF_vars(RunSearch(s))
  /\ \A a \in Adders : WF_vars(RunAdd(a))
  /\ \A d \in Deleters : WF_vars(RunDelete(d))

FairSpec == Spec /\ Fairness

-------------------------------------------------------------------------------
\* Every variable has its type.
TypeOK ==
  /\ StoreTypeOK /\ StagingTypeOK /\ RDTypeOK
  /\ GrabberTypeOK
  /\ ShimTypeOK
  /\ spent \in [{"search", "add", "delete", "crash"} -> Nat]
  /\ panicked \in BOOLEAN
  /\ disturbed \in SUBSET Hashes

Busy(w) == pc[w] # "idle"

(***************************************************************************)
(* grabber.go's "prevents two concurrent ticks from operating on the same  *)
(* grab": a goroutine has its grab claimed to itself for as long as it     *)
(* runs, through restarts, failures and the long wait for Sonarr's queue,  *)
(* and a claim never outlives its goroutine (the grab would then never be  *)
(* looked at again).                                                       *)
(***************************************************************************)
OneAdvancePerGrab ==
  /\ \A w, v \in Workers : w # v /\ Busy(w) /\ Busy(v) => key[w] # key[v]
  /\ inflight = {key[w] : w \in {v \in Workers : Busy(v)}}

(***************************************************************************)
(* "every search would burn RD addMagnet quota for results the user never  *)
(* asked for" (store.go:26-27) does not come true: only what Sonarr has    *)
(* sent to torrents/add is worked on, gets past registered or has a        *)
(* folder, though any search registers any grab anew at any time, under a  *)
(* goroutine or a delete, too.                                             *)
(***************************************************************************)
OnlyAskedFor ==
  /\ \A w \in Workers : Busy(w) => key[w] \in grabbed
  /\ \A k \in Hashes :
       grabs[k].state \notin {"absent", "registered"} \/ saved[k].dir => k \in grabbed

HasTorrentOf(k, r) ==
  /\ Stored(k)
  /\ grabs[k].real = r
  /\ grabs[k].rd # NoTorrent
  /\ torrents[grabs[k].rd].hash = r

(***************************************************************************)
(* rdAddLocks: while a goroutine is in addMagnet for a torrent, no grab of *)
(* that torrent has an RD id for it already, so the call never duplicates  *)
(* one the store knows of.                                                 *)
(***************************************************************************)
AddMagnetGuarded ==
  \A w \in Workers, k \in Hashes :
    pc[w] = "adding" /\ grab[w].real \in Torrents => ~HasTorrentOf(k, grab[w].real)

(***************************************************************************)
(* "sibling synthetic grabs share one RD torrent": grabs of one real       *)
(* torrent that have an RD torrent of it have the same one, however their  *)
(* goroutines, deletes, re-adds and restarts interleave.                   *)
(***************************************************************************)
SiblingsShareTorrent ==
  \A r \in Torrents : \A j, k \in Hashes :
    HasTorrentOf(j, r) /\ HasTorrentOf(k, r) => grabs[j].rd = grabs[k].rd

(***************************************************************************)
(* materialise's season filter: the folder of a season's grab only ever    *)
(* holds that season's files of that torrent, whatever its siblings        *)
(* selected and whatever the folder went through before.                   *)
(***************************************************************************)
SeasonIsolation ==
  \A k \in Hashes \ disturbed :
    Stored(k) /\ grabs[k].season # 0 =>
      \A f \in saved[k].hard \union {t[2] : t \in saved[k].soft} :
        SeasonOf[f] = grabs[k].season /\ TorrentOf[f] = grabs[k].real

(***************************************************************************)
(* StateReady is "files materialised under SavePath": what Real-Debrid has *)
(* fetched for a grab can be read there for as long as the grab is ready,  *)
(* although siblings sharing the cache come and go.                        *)
(***************************************************************************)
ReadyHasSelected ==
  \A k \in Hashes \ disturbed :
    grabs[k].state = "ready" /\ grabs[k].rd # NoTorrent =>
      \A f \in torrents[grabs[k].rd].selected :
        grabs[k].season \in {0, SeasonOf[f]} => f \in Readable(k)

(***************************************************************************)
(* What has been handed to Sonarr stays handed over: no goroutine left     *)
(* over from before a delete, a re-add or a failure turns a ready grab     *)
(* into anything but what a new add, a new search or a delete makes of it. *)
(***************************************************************************)
ReadyIsFinal ==
  [][\A k \in Hashes :
       grabs[k].state = "ready" =>
         grabs'[k].state \in {"ready", "queued", "registered", "absent"}]_vars

(***************************************************************************)
(* All the goroutines, handlers, failures and restarts together do to a    *)
(* grab, as Sonarr sees it, is to live the life of GrabLife.               *)
(***************************************************************************)
Life == INSTANCE GrabLife WITH
  Grabs <- Hashes,
  Offered <- SynthHashes,
  life <- [k \in Hashes |-> grabs[k].state],
  claimed <- inflight,
  asked <- grabbed

LivesAsPromised == Life!Spec

(***************************************************************************)
(* The worklist drains: a queued or downloading grab ends ready, in error  *)
(* or deleted, whatever fails, if Real-Debrid's torrents do not die.       *)
(***************************************************************************)
GrabSettles == \A k \in Hashes : Active(k) ~> ~Active(k)

SeasonFiles(k) == {f \in FilesOf(grabs[k].real) : grabs[k].season = SeasonOf[f]}

(***************************************************************************)
(* README: "it asked for a season, it got a season".  When nothing fails,  *)
(* every season added ends ready with all its files in its folder, because *)
(* the first of the siblings selects for all of them.                      *)
(***************************************************************************)
GrabCompletes ==
  \A k \in SynthHashes :
    Active(k) ~> grabs[k].state = "ready" /\ SeasonFiles(k) \subseteq Readable(k)

(***************************************************************************)
(* A grab deleted while its goroutine works ends that goroutine quietly,   *)
(* as advance's own first check intends (grabber.go:125-128).              *)
(***************************************************************************)
MissingGrabEndsQuietly == ~panicked

(***************************************************************************)
(* "ready: Files are present under ContentPath" (grabber.go:16): a season  *)
(* Sonarr is told to import has something to import.                       *)
(***************************************************************************)
ReadyHasFiles ==
  \A k \in Hashes \ disturbed : grabs[k].state = "ready" => Readable(k) # {}

(***************************************************************************)
(* "RegisterSynthetic stored the REAL upstream magnet; that's what we need *)
(* to hand to Real-Debrid" (shim.go:188-191): no synthetic infohash, which *)
(* no peer has, ever gets there.                                           *)
(***************************************************************************)
OnlyRealMagnets ==
  \A t \in TorrentIds : torrents[t].status # "none" => torrents[t].hash \in Torrents

(***************************************************************************)
(* "once Sonarr promotes to Queued we don't want a subsequent search to    *)
(* reset state back to Registered" (shim.go:405-406): no search takes a    *)
(* grab that Sonarr has added back out of the worklist.                    *)
(***************************************************************************)
SearchKeepsGrabs ==
  [][\A k \in Hashes :
       grabs[k].state \notin {"absent", "registered"} => grabs'[k].state # "registered"]_vars

(***************************************************************************)
(* "The grabber must NOT touch these" (store.go:24-27): no magnet goes to  *)
(* Real-Debrid for a grab that is only registered.                         *)
(***************************************************************************)
RegisteredUntouched ==
  [][\A w \in Workers :
       pc[w] = "adding" /\ pc'[w] = "store" => grabs[key[w]].state # "registered"]_vars
===============================================================================
