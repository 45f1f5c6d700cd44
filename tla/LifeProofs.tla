------------------------------ MODULE LifeProofs ------------------------------
(***************************************************************************)
(* The bridge implements GrabLife: every step of every goroutine, handler  *)
(* and restart is, for the grabs as Sonarr sees them, a step of GrabLife   *)
(* or none.  What GrabLife keeps by itself then holds of the bridge.       *)
(***************************************************************************)
EXTENDS SeasonSplitarrProofs

lives == [k \in Hashes |-> grabs[k].state]

\* What GrabLife keeps.
LifeInv ==
  /\ inflight \subseteq grabbed
  /\ \A k \in Hashes : grabs[k].state \notin {"absent", "registered"} => k \in grabbed
  /\ \A k \in inflight : grabs[k].state # "ready"

\* And what the handlers and the staging tree have to do with it: a request
\* and a folder are of a grab that Sonarr has asked for.
AskedInv ==
  /\ \A a \in Adders : add[a].pc # "idle" => add[a].key \in grabbed
  /\ \A d \in Deleters : del[d].pc # "idle" => del[d].key \in grabbed
  /\ \A k \in Hashes : saved[k].dir => k \in grabbed

LifeStep == Life!Next \/ UNCHANGED <<lives, inflight, grabbed>>

-------------------------------------------------------------------------------
(***************************************************************************)
(* The store's operations, as lives shows them.                            *)
(***************************************************************************)
LEMMA PutBecomes ==
  ASSUME StoreTypeOK, NEW k \in Hashes, NEW g, Put(k, g)
  PROVE  Life!Becomes(k, g.state)
BY DEF StoreTypeOK, Put, Life!Becomes

LEMMA DeleteBecomes ==
  ASSUME StoreTypeOK, NEW k \in Hashes, Delete(k)
  PROVE  Life!Becomes(k, "absent")
BY DEF StoreTypeOK, Delete, Absent, Life!Becomes

LEMMA UpdateBecomes ==
  ASSUME StoreTypeOK, NEW k \in Hashes, NEW g, Update(k, g)
  PROVE  IF Stored(k) THEN Life!Becomes(k, g.state) ELSE UNCHANGED lives
BY DEF StoreTypeOK, Update, Life!Becomes, lives

LEMMA SetStateBecomes ==
  ASSUME StoreTypeOK, NEW k \in Hashes, NEW state, SetState(k, state)
  PROVE  IF Stored(k) THEN Life!Becomes(k, state) ELSE UNCHANGED lives
<1>1. [grabs[k] EXCEPT !.state = state].state = state
  BY DEF StoreTypeOK, Grab
<1>. QED
  BY <1>1, UpdateBecomes DEF SetState

LEMMA StillLives == ASSUME UNCHANGED grabs PROVE UNCHANGED lives
BY DEF lives

-------------------------------------------------------------------------------
\* A goroutine's grab, while it is stored, is in its hand.
LEMMA BusyInHand ==
  ASSUME ClaimInv, LifeInv, NEW w \in Workers, Busy(w)
  PROVE  /\ key[w] \in Hashes /\ key[w] \in inflight
         /\ Stored(key[w]) => Life!InHand(key[w])
<1>1. key[w] \in Hashes /\ key[w] \in inflight
  BY BusyKey DEF ClaimInv
<1>. QED
  BY <1>1 DEF LifeInv, Stored, Life!InHand

LEMMA FinishLives ==
  ASSUME ClaimInv, LifeInv, NEW w \in Workers, Busy(w), Finish(w), UNCHANGED <<lives, grabbed>>
  PROVE  LifeStep
<1>1. key[w] \in Hashes /\ key[w] \in inflight
  BY BusyInHand
<1>2. UNCHANGED lives /\ UNCHANGED grabbed /\ inflight' = inflight \ {key[w]}
  BY DEF Finish
<1>. QED
  BY <1>1, <1>2 DEF LifeStep, Life!Next, Life!Release, lives

LEMMA StoreTorrentLives ==
  ASSUME ClaimInv, LifeInv, NEW w \in Workers, StoreTorrent(w), UNCHANGED grabbed
  PROVE  LifeStep
<1> DEFINE k == key[w]
<1>1. Busy(w) /\ UNCHANGED inflight
  BY DEF StoreTorrent, Busy
<1>2. k \in Hashes /\ (Stored(k) => Life!InHand(k))
  BY <1>1, BusyInHand
<1>3. [grabs[k] EXCEPT !.rd = grab[w].rd, !.state = "downloading"].state = "downloading"
  BY <1>2 DEF ClaimInv, TypeOK, StoreTypeOK, Grab
<1>4. IF Stored(k) THEN Life!Becomes(k, "downloading") ELSE UNCHANGED lives
  BY <1>2, <1>3, UpdateBecomes DEF StoreTorrent, ClaimInv, TypeOK
<1>5. CASE Stored(k)
  BY <1>1, <1>2, <1>4, <1>5 DEF LifeStep, Life!Next, Life!Begin
<1>6. CASE ~Stored(k)
  BY <1>1, <1>4, <1>6 DEF LifeStep
<1>. QED
  BY <1>5, <1>6

LEMMA MarkReadyLives ==
  ASSUME ClaimInv, LifeInv, NEW w \in Workers, MarkReady(w), UNCHANGED grabbed
  PROVE  LifeStep
<1> DEFINE k == key[w]
<1>1. Busy(w) /\ Finish(w)
  BY DEF MarkReady, Busy
<1>2. k \in Hashes /\ (Stored(k) => Life!InHand(k))
  BY <1>1, BusyInHand
<1>3. IF Stored(k) THEN Life!Becomes(k, "ready") ELSE UNCHANGED lives
  BY <1>2, SetStateBecomes DEF MarkReady, ClaimInv, TypeOK
<1>4. CASE Stored(k)
  BY <1>1, <1>2, <1>3, <1>4 DEF LifeStep, Life!Next, Life!Deliver, Finish
<1>5. CASE ~Stored(k)
  BY <1>1, <1>3, <1>5, FinishLives
<1>. QED
  BY <1>4, <1>5

LEMMA MarkErrorLives ==
  ASSUME ClaimInv, LifeInv, NEW w \in Workers, MarkError(w), UNCHANGED grabbed
  PROVE  LifeStep
<1> DEFINE k == key[w]
<1>1. Busy(w) /\ (Finish(w) \/ UNCHANGED inflight)
  BY DEF MarkError, Busy
<1>2. k \in Hashes /\ (Stored(k) => Life!InHand(k))
  BY <1>1, BusyInHand
<1>3. IF Stored(k) THEN Life!Becomes(k, "error") ELSE UNCHANGED lives
  BY <1>2, SetStateBecomes DEF MarkError, ClaimInv, TypeOK
<1>4. CASE Stored(k)
  BY <1>1, <1>2, <1>3, <1>4 DEF LifeStep, Life!Next, Life!Fail, Finish
<1>5. CASE ~Stored(k) /\ Finish(w)
  BY <1>1, <1>3, <1>5, FinishLives
<1>6. CASE ~Stored(k) /\ UNCHANGED inflight
  BY <1>3, <1>6 DEF LifeStep
<1>. QED
  BY <1>1, <1>4, <1>5, <1>6

LEMMA ClearGrabLives ==
  ASSUME ClaimInv, LifeInv, NEW w \in Workers, ClearGrab(w), UNCHANGED grabbed
  PROVE  LifeStep
<1> DEFINE k == key[w]
<1>1. Busy(w) /\ Finish(w)
  BY DEF ClearGrab, Busy
<1>2. k \in Hashes /\ k \in inflight
  BY <1>1, BusyInHand
<1>3. Life!Becomes(k, "absent")
  BY <1>2, DeleteBecomes DEF ClearGrab, ClaimInv, TypeOK
<1>. QED
  BY <1>1, <1>2, <1>3 DEF LifeStep, Life!Next, Life!Release, Finish

LEMMA WorkerLives ==
  ASSUME ClaimInv, LifeInv, NEW w \in Workers, RunWorker(w)
  PROVE  LifeStep
<1>1. Step(w) /\ UNCHANGED grabbed
  BY DEF RunWorker, ShimIdle
<1>2. CASE UNCHANGED <<grabs, inflight>>
  BY <1>1, <1>2, StillLives DEF LifeStep
<1>3. CASE \/ LockRealHash(w) \/ ScanSiblings(w) \/ AddMagnet(w) \/ AddMagnetFails(w)
           \/ Refetch(w) \/ CallFails(w) \/ ChooseFiles(w) \/ MkdirAll(w) \/ NextFile(w)
           \/ Download(w) \/ StreamFails(w) \/ Rename(w) \/ Link(w)
  BY <1>2, <1>3 DEF LockRealHash, ScanSiblings, AddMagnet, AddMagnetFails, Refetch, CallFails,
     ChooseFiles, MkdirAll, NextFile, Download, StreamFails, Rename, Link
<1>4. CASE \/ GetGrab(w) \/ Probe(w) \/ SelectFiles(w) \/ PollSonarr(w)
           \/ RemoveAndBlocklist(w)
  <2>1. Busy(w) /\ UNCHANGED grabs /\ (Finish(w) \/ UNCHANGED inflight)
    BY <1>4 DEF GetGrab, Probe, SelectFiles, PollSonarr, RemoveAndBlocklist, Busy
  <2>. QED
    BY <1>1, <1>2, <2>1, StillLives, FinishLives
<1>5. CASE StoreTorrent(w) \/ MarkReady(w) \/ MarkError(w) \/ ClearGrab(w)
  BY <1>1, <1>5, StoreTorrentLives, MarkReadyLives, MarkErrorLives, ClearGrabLives
<1>. QED
  BY <1>1, <1>3, <1>4, <1>5 DEF Step

LEMMA TickLives ==
  ASSUME NEW k \in Hashes, RunTick(k)
  PROVE  LifeStep
<1>1. Life!Claim(k)
  BY DEF RunTick, Tick, Active, ShimIdle, Life!Claim
<1>. QED
  BY <1>1 DEF LifeStep, Life!Next

-------------------------------------------------------------------------------
LEMMA SearchLives ==
  ASSUME ClaimInv, NEW s \in Searchers, RunSearch(s)
  PROVE  LifeStep
<1>1. SearchStep(s) /\ UNCHANGED inflight
  BY DEF RunSearch, GrabberIdle
<1>2. CASE RegisterGet(s) \/ SearchDone(s)
  <2>1. UNCHANGED <<grabs, grabbed>>
    BY <1>2 DEF RegisterGet, SearchDone
  <2>. QED
    BY <1>1, <2>1, StillLives DEF LifeStep
<1>3. CASE RegisterPut(s)
  <2>1. search[s].pack \in Packs /\ search[s].season \in Seasons
    BY <1>3, ReleasesAssumption DEF RegisterPut, ClaimInv, SearchOK, Seasons, TypeOK, ShimTypeOK
  <2>2. Advertised(s) \in SynthHashes /\ Advertised(s) \in Hashes
    BY <2>1 DEF Advertised, SynthHashes, Hashes
  <2>3. Life!Becomes(Advertised(s), "registered")
    BY <1>3, <2>2, PutBecomes DEF RegisterPut, NewGrab, ClaimInv, TypeOK
  <2>. QED
    BY <1>1, <1>3, <2>2, <2>3 DEF RegisterPut, LifeStep, Life!Next, Life!Offer
<1>. QED
  BY <1>1, <1>2, <1>3 DEF SearchStep

LEMMA AddLives ==
  ASSUME NEW a \in Adders, NEW k \in Hashes, Add(a, k)
  PROVE  LifeStep
<1>1. Life!Ask(k)
  BY DEF Add, AddGet, GrabberIdle, Life!Ask
<1>. QED
  BY <1>1 DEF LifeStep, Life!Next

LEMMA AddWriteLives ==
  ASSUME ClaimInv, AskedInv, NEW a \in Adders, RunAdd(a)
  PROVE  LifeStep
<1> DEFINE k == add[a].key
<1>1. k \in Hashes /\ k \in grabbed /\ UNCHANGED <<inflight, grabbed>>
  BY DEF RunAdd, AddWrite, GrabberIdle, AskedInv, ClaimInv, TypeOK, ShimTypeOK
<1>2. CASE (SetState(k, "queued") /\ Stored(k)) \/ Put(k, NewGrab("queued", k, 0))
  <2>1. Life!Becomes(k, "queued")
    BY <1>1, <1>2, SetStateBecomes, PutBecomes DEF NewGrab, ClaimInv, TypeOK
  <2>. QED
    BY <1>1, <2>1 DEF LifeStep, Life!Next, Life!Queue
<1>3. CASE SetState(k, "queued") /\ ~Stored(k)
  <2>1. UNCHANGED lives
    BY <1>1, <1>3, SetStateBecomes DEF ClaimInv, TypeOK
  <2>. QED
    BY <1>1, <2>1 DEF LifeStep
<1>. QED
  BY <1>2, <1>3 DEF RunAdd, AddWrite

LEMMA DeleteLives ==
  ASSUME ClaimInv, AskedInv, NEW d \in Deleters, RunDelete(d)
  PROVE  LifeStep
<1>1. DeleteStep(d) /\ UNCHANGED inflight
  BY DEF RunDelete, GrabberIdle
<1>2. CASE DeleteGet(d) \/ DeleteTree(d) \/ DeleteCount(d) \/ DeleteCache(d)
  <2>1. UNCHANGED <<grabs, grabbed>>
    BY <1>2 DEF DeleteGet, DeleteTree, DeleteCount, DeleteCache
  <2>. QED
    BY <1>1, <2>1, StillLives DEF LifeStep
<1>3. CASE DeleteRecord(d)
  <2>1. del[d].key \in Hashes /\ del[d].key \in grabbed
    BY <1>3 DEF DeleteRecord, AskedInv, ClaimInv, TypeOK, ShimTypeOK
  <2>2. Life!Becomes(del[d].key, "absent")
    BY <1>3, <2>1, DeleteBecomes DEF DeleteRecord, ClaimInv, TypeOK
  <2>. QED
    BY <1>1, <1>3, <2>1, <2>2 DEF DeleteRecord, LifeStep, Life!Next, Life!Remove
<1>. QED
  BY <1>1, <1>2, <1>3 DEF DeleteStep

LEMMA RestartLives ==
  ASSUME Restart
  PROVE  LifeStep
<1>1. inflight' = {} /\ UNCHANGED <<lives, grabbed>>
  BY StillLives DEF Restart, GrabberRestart
<1>. QED
  BY <1>1 DEF LifeStep, Life!Next, Life!Die, lives

LEMMA NextLives ==
  ASSUME ClaimInv, LifeInv, AskedInv, [Next]_vars
  PROVE  LifeStep
<1>1. CASE \E k \in Hashes : RunTick(k)
  BY <1>1, TickLives
<1>2. CASE \E w \in Workers : RunWorker(w)
  BY <1>2, WorkerLives
<1>3. CASE \/ \E t \in TorrentIds : RunRealDebrid(t) \/ TorrentDies(t)
           \/ \E s \in Searchers, p \in Packs : Search(s, p)
           \/ \E d \in Deleters, k \in Hashes : DeleteGrab(d, k)
           \/ UNCHANGED vars
  <2>1. UNCHANGED <<grabs, inflight, grabbed>>
    BY <1>3 DEF RunRealDebrid, TorrentDies, RDStill, ShimIdle, Search, SearchStart, DeleteGrab,
       DeleteStart, GrabberIdle, vars
  <2>. QED
    BY <2>1, StillLives DEF LifeStep
<1>4. CASE \E s \in Searchers : RunSearch(s)
  BY <1>4, SearchLives
<1>5. CASE \E a \in Adders, k \in Hashes : Add(a, k)
  BY <1>5, AddLives
<1>6. CASE \E a \in Adders : RunAdd(a)
  BY <1>6, AddWriteLives
<1>7. CASE \E d \in Deleters : RunDelete(d)
  BY <1>7, DeleteLives
<1>8. CASE Crash \/ Panic
  BY <1>8, RestartLives DEF Crash, Panic
<1>. QED
  BY <1>1, <1>2, <1>3, <1>4, <1>5, <1>6, <1>7, <1>8 DEF Next

-------------------------------------------------------------------------------
\* GrabLife's own invariant, step by step.
LEMMA LifeKeeps ==
  ASSUME LifeInv, StoreTypeOK, StoreTypeOK', inflight \subseteq Hashes, LifeStep
  PROVE  LifeInv'
<1>1. ASSUME NEW k \in Hashes, NEW stage, Life!Becomes(k, stage)
      PROVE  \A j \in Hashes : grabs'[j].state = IF j = k THEN stage ELSE grabs[j].state
  BY <1>1 DEF Life!Becomes
<1>2. ASSUME UNCHANGED lives PROVE \A j \in Hashes : grabs'[j].state = grabs[j].state
  BY <1>2 DEF lives
<1>. USE DEF LifeInv
<1>3. ASSUME NEW k \in Hashes, Life!Offer(k) PROVE LifeInv'
  BY <1>1, <1>3 DEF Life!Offer
<1>4. ASSUME NEW k \in Hashes, Life!Ask(k) PROVE LifeInv'
  BY <1>2, <1>4 DEF Life!Ask, lives
<1>5. ASSUME NEW k \in Hashes, Life!Queue(k) PROVE LifeInv'
  BY <1>1, <1>5 DEF Life!Queue
<1>6. ASSUME NEW k \in Hashes, Life!Claim(k) PROVE LifeInv'
  BY <1>2, <1>6 DEF Life!Claim, lives
<1>7. ASSUME NEW k \in Hashes, Life!Begin(k) PROVE LifeInv'
  BY <1>1, <1>7 DEF Life!Begin, Life!InHand
<1>8. ASSUME NEW k \in Hashes, Life!Deliver(k) PROVE LifeInv'
  BY <1>1, <1>8 DEF Life!Deliver, Life!InHand
<1>9. ASSUME NEW k \in Hashes, Life!Fail(k) PROVE LifeInv'
  BY <1>1, <1>9 DEF Life!Fail, Life!InHand
<1>10. ASSUME NEW k \in Hashes, Life!Release(k) PROVE LifeInv'
  BY <1>1, <1>2, <1>10 DEF Life!Release, lives
<1>11. ASSUME NEW k \in Hashes, Life!Remove(k) PROVE LifeInv'
  BY <1>1, <1>11 DEF Life!Remove
<1>12. CASE Life!Die \/ UNCHANGED <<lives, inflight, grabbed>>
  BY <1>2, <1>12 DEF Life!Die, lives
<1>. QED
  BY <1>3, <1>4, <1>5, <1>6, <1>7, <1>8, <1>9, <1>10, <1>11, <1>12 DEF LifeStep, Life!Next

\* Sonarr forgets nothing it has asked for.
LEMMA AskedGrows == ASSUME LifeStep PROVE grabbed \subseteq grabbed'
BY DEF LifeStep, Life!Next, Life!Offer, Life!Ask, Life!Queue, Life!Claim, Life!Begin, Life!Deliver,
   Life!Fail, Life!Release, Life!Remove, Life!Die

-------------------------------------------------------------------------------
(***************************************************************************)
(* Requests and folders: each action that makes one, and those that leave  *)
(* them alone while grabbed only grows.                                    *)
(***************************************************************************)
LEMMA AskedFrame ==
  ASSUME AskedInv, grabbed \subseteq grabbed', UNCHANGED <<add, del>>,
         \A k \in Hashes : saved'[k].dir => saved[k].dir \/ k \in grabbed'
  PROVE  AskedInv'
BY DEF AskedInv

\* A goroutine makes the folder of its own grab only.
LEMMA WorkerFolders ==
  ASSUME ClaimInv, LifeInv, NEW w \in Workers, Step(w)
  PROVE  \A k \in Hashes : saved'[k].dir => saved[k].dir \/ k \in grabbed
<1>. USE DEF ClaimInv, TypeOK, StagingTypeOK
<1>1. CASE MkdirAll(w)
  <2>1. key[w] \in grabbed
    BY <1>1, BusyInHand DEF MkdirAll, Busy, LifeInv
  <2>. QED
    BY <1>1, <2>1 DEF MkdirAll, MakeDirs
<1>2. CASE Link(w)
  <2>1. UNCHANGED saved \/ LinkFile(key[w], grab[w].real, CurrentFile(w))
    BY <1>2 DEF Link
  <2>2. key[w] \in Hashes
    BY <1>2, BusyInHand DEF Link, Busy
  <2>. QED
    BY <2>1, <2>2 DEF LinkFile, Saved
<1>3. CASE UNCHANGED saved
  BY <1>3
<1>. QED
  BY <1>1, <1>2, <1>3 DEF Step, GetGrab, LockRealHash, ScanSiblings, AddMagnet, AddMagnetFails,
     StoreTorrent, Refetch, Probe, CallFails, ChooseFiles, SelectFiles, NextFile, Download,
     StreamFails, Rename, MarkReady, MarkError, PollSonarr, RemoveAndBlocklist, ClearGrab

LEMMA NextAsked ==
  ASSUME ClaimInv, LifeInv, AskedInv, [Next]_vars, LifeStep
  PROVE  AskedInv'
<1>. USE AskedGrows
<1>1. CASE UNCHANGED <<add, del, saved>>
  BY <1>1, AskedFrame
<1>2. CASE \E w \in Workers : RunWorker(w)
  BY <1>2, WorkerFolders, AskedFrame DEF RunWorker, ShimIdle
<1>3. CASE \E k \in Hashes : RunTick(k)
  BY <1>1, <1>3 DEF RunTick, Tick, ShimIdle
<1>4. CASE \/ \E t \in TorrentIds : RunRealDebrid(t) \/ TorrentDies(t)
           \/ \E s \in Searchers, p \in Packs : Search(s, p)
           \/ \E s \in Searchers : RunSearch(s)
           \/ UNCHANGED vars
  BY <1>1, <1>4 DEF RunRealDebrid, TorrentDies, RDStill, ShimIdle, Search, SearchStart, RunSearch,
     SearchStep, RegisterGet, RegisterPut, SearchDone, vars
<1>5. ASSUME NEW a \in Adders, NEW k \in Hashes, Add(a, k) PROVE AskedInv'
  BY <1>5 DEF Add, AddGet, AskedInv, ClaimInv, TypeOK, ShimTypeOK
<1>6. ASSUME NEW a \in Adders, RunAdd(a) PROVE AskedInv'
  BY <1>6 DEF RunAdd, AddWrite, NoAdd, AskedInv, ClaimInv, TypeOK, ShimTypeOK
<1>7. ASSUME NEW d \in Deleters, NEW k \in Hashes, DeleteGrab(d, k) PROVE AskedInv'
  BY <1>7 DEF DeleteGrab, DeleteStart, AskedInv, ClaimInv, TypeOK, ShimTypeOK
<1>8. ASSUME NEW d \in Deleters, RunDelete(d) PROVE AskedInv'
  <2>. USE DEF AskedInv, ClaimInv, TypeOK, ShimTypeOK, StagingTypeOK
  <2>1. CASE DeleteTree(d)
    BY <2>1 DEF DeleteTree, RemoveSaved, NoSaved
  <2>2. CASE DeleteRecord(d)
    BY <2>2 DEF DeleteRecord, NoDel
  <2>3. CASE DeleteGet(d) \/ DeleteCount(d) \/ DeleteCache(d)
    <3>1. /\ UNCHANGED <<add, saved, grabbed>>
          /\ \A e \in Deleters :
               del'[e].pc # "idle" => del[e].pc # "idle" /\ del'[e].key = del[e].key
      <4>1. CASE DeleteGet(d)
        BY <4>1 DEF DeleteGet
      <4>2. CASE DeleteCount(d)
        BY <4>2 DEF DeleteCount
      <4>3. CASE DeleteCache(d)
        BY <4>3 DEF DeleteCache
      <4>. QED
        BY <2>3, <4>1, <4>2, <4>3
    <3>. QED
      BY <3>1
  <2>. QED
    BY <1>8, <2>1, <2>2, <2>3 DEF RunDelete, DeleteStep
<1>9. CASE Crash \/ Panic
  BY <1>9 DEF Crash, Panic, Restart, ShimRestart, NoAdd, NoDel, AskedInv
<1>. QED
  BY <1>2, <1>3, <1>4, <1>5, <1>6, <1>7, <1>8, <1>9 DEF Next

-------------------------------------------------------------------------------
LEMMA InitLives == Init => Life!Init /\ LifeInv /\ AskedInv
BY DEF Init, StoreInit, Absent, StagingInit, NoSaved, GrabberInit, ShimInit, SonarrInit, NoAdd, NoDel,
   Life!Init, LifeInv, AskedInv

BridgeInv == ClaimInv /\ LifeInv /\ AskedInv

LEMMA NextBridge == BridgeInv /\ [Next]_vars => BridgeInv' /\ LifeStep
<1>. SUFFICES ASSUME BridgeInv, [Next]_vars PROVE BridgeInv' /\ LifeStep
  OBVIOUS
<1>. USE DEF BridgeInv
<1>1. ClaimInv' /\ LifeStep
  BY NextClaim, NextLives
<1>2. LifeInv'
  BY <1>1, LifeKeeps DEF ClaimInv, TypeOK, GrabberTypeOK
<1>. QED
  BY <1>1, <1>2, NextAsked

\* What GrabLife keeps, kept by the bridge in every reachable state.
THEOREM BridgeInvariant == Spec => []BridgeInv
<1>1. Init => BridgeInv
  BY InitClaim, InitLives DEF BridgeInv
<1>. QED
  BY <1>1, NextBridge, PTL DEF Spec

(***************************************************************************)
(* The bridge implements GrabLife: goroutines, locks, Real-Debrid, files,  *)
(* faults and process deaths add nothing to what a grab can go through.    *)
(***************************************************************************)
THEOREM BridgeImplementsLife == Spec => LivesAsPromised
<1>1. BridgeInv /\ [Next]_vars => [Life!Next]_<<[k \in Hashes |-> grabs[k].state], inflight, grabbed>>
  BY NextBridge DEF LifeStep, lives
<1>2. Init => Life!Init
  BY InitLives
<1>. QED
  BY <1>1, <1>2, BridgeInvariant, PTL DEF Spec, LivesAsPromised, Life!Spec

(***************************************************************************)
(* What a search registers is never worked on or staged unasked, for any   *)
(* number of searches, goroutines, deletes and restarts.                   *)
(***************************************************************************)
THEOREM NothingUnasked == Spec => []OnlyAskedFor
<1>1. BridgeInv => OnlyAskedFor
  BY BusyInHand DEF BridgeInv, LifeInv, AskedInv, OnlyAskedFor
<1>. QED
  BY <1>1, BridgeInvariant, PTL

(***************************************************************************)
(* No goroutine takes a ready grab out of Sonarr's hands: a step that      *)
(* changes one is an add, a search or a delete.                            *)
(***************************************************************************)
THEOREM ReadyStays == Spec => ReadyIsFinal
<1>1. ASSUME StoreTypeOK, LifeStep, NEW k \in Hashes, grabs[k].state = "ready"
      PROVE  grabs'[k].state \in {"ready", "queued", "registered", "absent"}
  <2>1. ASSUME NEW j \in Hashes, NEW stage, Life!Becomes(j, stage)
        PROVE  grabs'[k].state = IF k = j THEN stage ELSE "ready"
    BY <1>1, <2>1 DEF Life!Becomes
  <2>2. ASSUME UNCHANGED lives PROVE grabs'[k].state = "ready"
    BY <1>1, <2>2 DEF lives
  <2>. QED
    BY <1>1, <2>1, <2>2 DEF LifeStep, Life!Next, Life!Offer, Life!Ask, Life!Queue, Life!Claim,
       Life!Begin, Life!Deliver, Life!Fail, Life!Release, Life!Remove, Life!Die, Life!InHand, lives
<1>2. BridgeInv /\ [Next]_vars =>
        [\A k \in Hashes : grabs[k].state = "ready" =>
           grabs'[k].state \in {"ready", "queued", "registered", "absent"}]_vars
  BY <1>1, NextBridge DEF BridgeInv, ClaimInv, TypeOK
<1>. QED
  BY <1>2, BridgeInvariant, PTL DEF Spec, ReadyIsFinal
===============================================================================
