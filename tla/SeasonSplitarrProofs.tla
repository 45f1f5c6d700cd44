------------------------- MODULE SeasonSplitarrProofs -------------------------
(***************************************************************************)
(* Theorems about SeasonSplitarr, for every pack, season, file, number of  *)
(* goroutines and requests, and without the bounds TLC needs.              *)
(***************************************************************************)
EXTENDS SeasonSplitarr, TLAPS

-------------------------------------------------------------------------------
(***************************************************************************)
(* The hashes: a synthetic one is no torrent, and every hash belongs to    *)
(* one torrent, its own or its pack's.                                     *)
(***************************************************************************)
LEMMA SyntheticHash ==
  ASSUME NEW p \in Packs, NEW s \in Seasons
  PROVE  /\ SyntheticInfohash(p, s) \in Hashes
         /\ SyntheticInfohash(p, s) \notin Torrents
         /\ PackOf(SyntheticInfohash(p, s)) = p
BY ReleasesAssumption DEF SyntheticInfohash, SynthHashes, Hashes, PackOf

LEMMA PackIsTorrent ==
  ASSUME NEW k \in Hashes
  PROVE  /\ PackOf(k) \in Torrents
         /\ k \in Torrents => PackOf(k) = k
<1>1. CASE k \in Torrents
  BY <1>1, ReleasesAssumption DEF PackOf
<1>2. CASE k \in SynthHashes
  <2>1. PICK p \in Packs, s \in Seasons : k = SyntheticInfohash(p, s)
    BY <1>2 DEF SynthHashes
  <2>. QED
    BY <2>1, SyntheticHash, ReleasesAssumption
<1>. QED
  BY <1>1, <1>2 DEF Hashes

LEMMA AnythingIsHash == (CHOOSE h \in Hashes : TRUE) \in Hashes
<1>1. \E h : h \in Hashes
  BY ReleasesAssumption DEF Hashes
<1>. QED
  BY <1>1

LEMMA NoViewIsView == NoView \in View
BY AnythingIsHash DEF NoView, View

-------------------------------------------------------------------------------
(***************************************************************************)
(* Types of what the operations of the store, the staging tree and         *)
(* Real-Debrid write.                                                      *)
(***************************************************************************)
LEMMA AbsentIsGrab == ASSUME NEW k \in Hashes PROVE Absent(k) \in Grab
BY DEF Absent, Grab

LEMMA PutType ==
  ASSUME StoreTypeOK, NEW k \in Hashes, NEW g \in Grab, Put(k, g)
  PROVE  StoreTypeOK'
BY DEF StoreTypeOK, Put

LEMMA DeleteType ==
  ASSUME StoreTypeOK, NEW k \in Hashes, Delete(k)
  PROVE  StoreTypeOK'
BY AbsentIsGrab DEF StoreTypeOK, Delete

LEMMA UpdateType ==
  ASSUME StoreTypeOK, NEW k \in Hashes, NEW g \in Grab, Update(k, g)
  PROVE  StoreTypeOK'
BY DEF StoreTypeOK, Update

LEMMA SetStateType ==
  ASSUME StoreTypeOK, NEW k \in Hashes, NEW state \in GrabStates, SetState(k, state)
  PROVE  StoreTypeOK'
<1>1. [grabs[k] EXCEPT !.state = state] \in Grab
  BY DEF StoreTypeOK, Grab
<1>. QED
  BY <1>1, UpdateType DEF SetState

LEMMA MakeDirsType ==
  ASSUME StagingTypeOK, NEW k \in Hashes, NEW r \in Hashes, MakeDirs(k, r)
  PROVE  StagingTypeOK'
BY DEF StagingTypeOK, MakeDirs, Saved, Cache

LEMMA CacheWriteType ==
  ASSUME StagingTypeOK, NEW r \in Hashes, NEW f \in Files, UNCHANGED saved,
         CreatePart(r, f) \/ RemovePart(r, f) \/ RenamePart(r, f)
  PROVE  StagingTypeOK'
BY DEF StagingTypeOK, CreatePart, RemovePart, RenamePart, Cache

LEMMA LinkFileType ==
  ASSUME StagingTypeOK, NEW k \in Hashes, NEW r \in Hashes, NEW f \in Files,
         LinkFile(k, r, f), UNCHANGED cache
  PROVE  StagingTypeOK'
BY DEF StagingTypeOK, LinkFile, Saved

LEMMA RemoveSavedType ==
  ASSUME StagingTypeOK, NEW k \in Hashes, RemoveSaved(k), UNCHANGED cache
  PROVE  StagingTypeOK'
<1>1. NoSaved \in Saved
  BY DEF NoSaved, Saved
<1>. QED
  BY <1>1 DEF StagingTypeOK, RemoveSaved

LEMMA RemoveCacheType ==
  ASSUME StagingTypeOK, NEW r \in Hashes, RemoveCache(r), UNCHANGED saved
  PROVE  StagingTypeOK'
<1>1. NoCache \in Cache
  BY DEF NoCache, Cache
<1>. QED
  BY <1>1 DEF StagingTypeOK, RemoveCache

LEMMA RDAddMagnetType ==
  ASSUME RDTypeOK, NEW t \in TorrentIds, NEW h \in Hashes, RDAddMagnet(t, h)
  PROVE  RDTypeOK'
BY DEF RDTypeOK, RDAddMagnet, Torrent, Status

LEMMA RDSelectType ==
  ASSUME RDTypeOK, NEW t \in TorrentIds \union {NoTorrent}, NEW files \in SUBSET Files,
         RDSelect(t, files)
  PROVE  RDTypeOK'
BY DEF RDTypeOK, RDSelect, Torrent, Status

LEMMA RDOwnStepType ==
  ASSUME RDTypeOK, NEW t \in TorrentIds, RDProgress(t) \/ RDDie(t)
  PROVE  RDTypeOK'
BY DEF RDTypeOK, RDProgress, RDConvert, RDFinish, RDDie, Torrent, Status

-------------------------------------------------------------------------------
(***************************************************************************)
(* A goroutine's claim on its grab.                                        *)
(***************************************************************************)
LEMMA BusyKey ==
  ASSUME TypeOK, OneAdvancePerGrab, NEW w \in Workers, Busy(w)
  PROVE  key[w] \in Hashes /\ key[w] \in inflight
BY DEF TypeOK, GrabberTypeOK, OneAdvancePerGrab

\* A goroutine that goes on keeps its claim.
LEMMA GoOnClaims ==
  ASSUME TypeOK, OneAdvancePerGrab, NEW w \in Workers, Busy(w),
         NEW stage \in Stages \ {"idle"}, Goto(w, stage), UNCHANGED <<inflight, key>>
  PROVE  OneAdvancePerGrab' /\ pc' \in [Workers -> Stages]
<1>1. pc' = [pc EXCEPT ![w] = stage] /\ pc \in [Workers -> Stages]
  BY DEF Goto, TypeOK, GrabberTypeOK
<1>2. \A v \in Workers : Busy(v)' <=> Busy(v)
  BY <1>1 DEF Busy
<1>3. {key[v] : v \in {u \in Workers : Busy(u)}}' = {key[v] : v \in {u \in Workers : Busy(u)}}
  BY <1>2
<1>. QED
  BY <1>1, <1>2, <1>3 DEF OneAdvancePerGrab

LEMMA RaiseClaims ==
  ASSUME TypeOK, OneAdvancePerGrab, NEW w \in Workers, Busy(w),
         NEW permanent \in BOOLEAN, Raise(w, permanent), UNCHANGED <<inflight, key>>
  PROVE  /\ OneAdvancePerGrab'
         /\ pc' \in [Workers -> Stages]
         /\ todo' \in [Workers -> SUBSET Files]
         /\ retry' \in [Workers -> [permanent : BOOLEAN, tries : Nat]]
<1>1. Goto(w, "fail")
  BY DEF Raise, Goto
<1>2. OneAdvancePerGrab' /\ pc' \in [Workers -> Stages]
  BY <1>1, GoOnClaims DEF Stages
<1>. QED
  BY <1>2 DEF Raise, TypeOK, GrabberTypeOK

\* A goroutine that ends gives up its claim, and nobody else's.
LEMMA FinishClaims ==
  ASSUME TypeOK, OneAdvancePerGrab, NEW w \in Workers, Busy(w), Finish(w), UNCHANGED addLock
  PROVE  OneAdvancePerGrab' /\ GrabberTypeOK'
<1>1. \A v \in Workers : /\ Busy(v)' <=> Busy(v) /\ v # w
                         /\ v # w => key'[v] = key[v]
  BY DEF TypeOK, GrabberTypeOK, Finish, Busy
<1>2. inflight' = {key'[v] : v \in {u \in Workers : Busy(u)'}}
  <2>1. ASSUME NEW k \in inflight' PROVE \E v \in Workers : Busy(v)' /\ k = key'[v]
    BY <2>1, <1>1 DEF OneAdvancePerGrab, Finish
  <2>2. ASSUME NEW v \in Workers, Busy(v)' PROVE key'[v] \in inflight'
    BY <2>2, <1>1 DEF OneAdvancePerGrab, Finish
  <2>. QED
    BY <2>1, <2>2
<1>3. OneAdvancePerGrab'
  BY <1>1, <1>2 DEF OneAdvancePerGrab
<1>. QED
  BY <1>3, NoViewIsView DEF Finish, TypeOK, GrabberTypeOK, NoRetry, Stages

LEMMA ViewOfType ==
  ASSUME TypeOK, NEW k \in Hashes
  PROVE  ViewOf(k) \in View
BY DEF ViewOf, View, TypeOK, StoreTypeOK, Grab

LEMMA ObserveType ==
  ASSUME TypeOK, Observe
  PROVE  disturbed' \in SUBSET Hashes
BY DEF TypeOK, Observe, Disturb

\* What a step of a goroutine has to establish, the rest is ShimIdle's.
LEMMA WorkerStepType ==
  ASSUME TypeOK, ShimIdle, StoreTypeOK', StagingTypeOK', RDTypeOK', GrabberTypeOK'
  PROVE  TypeOK'
<1>1. ShimTypeOK'
  BY DEF TypeOK, ShimTypeOK, ShimIdle
<1>. QED
  BY <1>1, ObserveType DEF TypeOK, ShimIdle

\* Actions that leave the store, the staging tree and the torrents alone.
LEMMA LocalStepType ==
  ASSUME TypeOK, UNCHANGED <<grabs, torrents, saved, cache>>
  PROVE  StoreTypeOK' /\ StagingTypeOK' /\ RDTypeOK'
BY DEF TypeOK, StoreTypeOK, StagingTypeOK, RDTypeOK

-------------------------------------------------------------------------------
LEMMA GetGrabType ==
  ASSUME TypeOK, OneAdvancePerGrab, NEW w \in Workers, GetGrab(w)
  PROVE  GrabberTypeOK' /\ OneAdvancePerGrab'
<1>1. Busy(w) /\ key[w] \in Hashes
  BY BusyKey DEF GetGrab, Busy
<1>2. CASE Stored(key[w])
  <2>1. OneAdvancePerGrab' /\ pc' \in [Workers -> Stages]
    BY <1>1, <1>2, GoOnClaims DEF GetGrab, Stages
  <2>2. grab' \in [Workers -> View]
    BY <1>1, <1>2, ViewOfType DEF GetGrab, TypeOK, GrabberTypeOK
  <2>. QED
    BY <1>2, <2>1, <2>2 DEF TypeOK, GrabberTypeOK, GetGrab
<1>3. CASE ~Stored(key[w])
  BY <1>1, <1>3, FinishClaims DEF GetGrab
<1>. QED
  BY <1>2, <1>3

\* A step that only changes where the goroutine is.
LEMMA GotoType ==
  ASSUME TypeOK, OneAdvancePerGrab, NEW w \in Workers, Busy(w),
         NEW stage \in Stages \ {"idle"}, Goto(w, stage),
         UNCHANGED <<inflight, key, addLock, grab, retry>>,
         todo' \in [Workers -> SUBSET Files]
  PROVE  GrabberTypeOK' /\ OneAdvancePerGrab'
BY GoOnClaims DEF TypeOK, GrabberTypeOK

LEMMA RaiseType ==
  ASSUME TypeOK, OneAdvancePerGrab, NEW w \in Workers, Busy(w),
         NEW permanent \in BOOLEAN, Raise(w, permanent),
         UNCHANGED <<inflight, key, grab>>,
         addLock' \in [Hashes -> Workers \union {Free}]
  PROVE  GrabberTypeOK' /\ OneAdvancePerGrab'
BY RaiseClaims DEF TypeOK, GrabberTypeOK

\* A mutex is released; the types of what the goroutine remembers.
LEMMA UnlockType ==
  ASSUME TypeOK, NEW w \in Workers, Unlock(grab[w].real)
  PROVE  addLock' \in [Hashes -> Workers \union {Free}]
BY DEF Unlock, TypeOK, GrabberTypeOK

LEMMA GrabIsView ==
  ASSUME TypeOK, NEW w \in Workers
  PROVE  /\ grab[w] \in View
         /\ grab[w].real \in Hashes
         /\ grab[w].rd \in TorrentIds \union {NoTorrent}
         /\ todo[w] \in SUBSET Files
BY DEF TypeOK, GrabberTypeOK, View

LEMMA LockRealHashType ==
  ASSUME TypeOK, OneAdvancePerGrab, NEW w \in Workers, LockRealHash(w)
  PROVE  GrabberTypeOK' /\ OneAdvancePerGrab'
<1>1. Busy(w)
  BY DEF LockRealHash, Busy
<1>2. OneAdvancePerGrab' /\ pc' \in [Workers -> Stages]
  BY <1>1, GoOnClaims DEF LockRealHash, Stages
<1>3. addLock' \in [Hashes -> Workers \union {Free}]
  BY DEF LockRealHash, TypeOK, GrabberTypeOK
<1>. QED
  BY <1>2, <1>3 DEF LockRealHash, TypeOK, GrabberTypeOK

LEMMA ScanSiblingsType ==
  ASSUME TypeOK, OneAdvancePerGrab, NEW w \in Workers, ScanSiblings(w)
  PROVE  GrabberTypeOK' /\ OneAdvancePerGrab'
<1>1. Busy(w) /\ key[w] \in Hashes
  BY BusyKey DEF ScanSiblings, Busy
<1>2. CASE grabs[key[w]].rd # NoTorrent
  <2>1. OneAdvancePerGrab' /\ pc' \in [Workers -> Stages]
    BY <1>1, <1>2, GoOnClaims DEF ScanSiblings, Stages
  <2>2. addLock' \in [Hashes -> Workers \union {Free}]
    BY <1>2, UnlockType DEF ScanSiblings
  <2>3. grab' \in [Workers -> View]
    BY <1>1, <1>2, ViewOfType DEF ScanSiblings, TypeOK, GrabberTypeOK
  <2>. QED
    BY <2>1, <2>2, <2>3 DEF ScanSiblings, TypeOK, GrabberTypeOK
<1>3. CASE grabs[key[w]].rd = NoTorrent /\ Owners(grab[w].real) = {}
  BY <1>1, <1>3, GotoType DEF ScanSiblings, Stages, TypeOK, GrabberTypeOK
<1>4. CASE grabs[key[w]].rd = NoTorrent /\ Owners(grab[w].real) # {}
  <2>1. OneAdvancePerGrab' /\ pc' \in [Workers -> Stages]
    BY <1>1, <1>4, GoOnClaims DEF ScanSiblings, Stages
  <2>2. PICK k \in FirstOwners(grab[w].real) : grab' = [grab EXCEPT ![w].rd = grabs[k].rd]
    BY <1>4 DEF ScanSiblings
  <2>3. grabs[k].rd \in TorrentIds \union {NoTorrent}
    BY DEF FirstOwners, Owners, ByRealHash, TypeOK, StoreTypeOK, Grab
  <2>4. grab' \in [Workers -> View]
    BY <2>2, <2>3 DEF TypeOK, GrabberTypeOK, View
  <2>. QED
    BY <1>4, <2>1, <2>4 DEF ScanSiblings, TypeOK, GrabberTypeOK
<1>. QED
  BY <1>2, <1>3, <1>4

LEMMA AddMagnetType ==
  ASSUME TypeOK, OneAdvancePerGrab, NEW w \in Workers, AddMagnet(w)
  PROVE  RDTypeOK' /\ GrabberTypeOK' /\ OneAdvancePerGrab'
<1>1. Busy(w)
  BY DEF AddMagnet, Busy
<1>2. OneAdvancePerGrab' /\ pc' \in [Workers -> Stages]
  BY <1>1, GoOnClaims DEF AddMagnet, Stages
<1>3. PICK t \in TorrentIds : RDAddMagnet(t, grab[w].real) /\ grab' = [grab EXCEPT ![w].rd = t]
  BY DEF AddMagnet
<1>4. RDTypeOK'
  BY <1>3, GrabIsView, RDAddMagnetType DEF TypeOK
<1>5. grab' \in [Workers -> View]
  BY <1>3 DEF TypeOK, GrabberTypeOK, View
<1>. QED
  BY <1>2, <1>4, <1>5 DEF AddMagnet, TypeOK, GrabberTypeOK

LEMMA AddMagnetFailsType ==
  ASSUME TypeOK, OneAdvancePerGrab, NEW w \in Workers, AddMagnetFails(w)
  PROVE  RDTypeOK' /\ GrabberTypeOK' /\ OneAdvancePerGrab'
<1>1. Busy(w)
  BY DEF AddMagnetFails, Busy
<1>2. \E permanent \in BOOLEAN : Raise(w, permanent)
  BY DEF AddMagnetFails, RaiseFault
<1>3. GrabberTypeOK' /\ OneAdvancePerGrab'
  BY <1>1, <1>2, RaiseType, UnlockType DEF AddMagnetFails
<1>4. UNCHANGED torrents \/ \E t \in TorrentIds : RDAddMagnet(t, grab[w].real)
  BY DEF AddMagnetFails
<1>5. RDTypeOK'
  BY <1>4, GrabIsView, RDAddMagnetType DEF TypeOK, RDTypeOK
<1>. QED
  BY <1>3, <1>5

LEMMA StoreTorrentType ==
  ASSUME TypeOK, OneAdvancePerGrab, NEW w \in Workers, StoreTorrent(w)
  PROVE  StoreTypeOK' /\ GrabberTypeOK' /\ OneAdvancePerGrab'
<1>1. Busy(w) /\ key[w] \in Hashes
  BY BusyKey DEF StoreTorrent, Busy
<1>2. OneAdvancePerGrab' /\ pc' \in [Workers -> Stages]
  BY <1>1, GoOnClaims DEF StoreTorrent, Stages
<1>3. [grabs[key[w]] EXCEPT !.rd = grab[w].rd, !.state = "downloading"] \in Grab
  <2>1. grabs[key[w]] \in Grab
    BY <1>1 DEF TypeOK, StoreTypeOK
  <2>. QED
    BY <2>1, GrabIsView DEF Grab, GrabStates
<1>4. StoreTypeOK'
  BY <1>1, <1>3, UpdateType DEF StoreTorrent, TypeOK
<1>. QED
  BY <1>2, <1>4, UnlockType DEF StoreTorrent, TypeOK, GrabberTypeOK

LEMMA RefetchType ==
  ASSUME TypeOK, OneAdvancePerGrab, NEW w \in Workers, Refetch(w)
  PROVE  GrabberTypeOK' /\ OneAdvancePerGrab'
<1>1. Busy(w) /\ key[w] \in Hashes
  BY BusyKey DEF Refetch, Busy
<1>2. OneAdvancePerGrab' /\ pc' \in [Workers -> Stages]
  BY <1>1, GoOnClaims DEF Refetch, Stages
<1>3. grab' \in [Workers -> View]
  BY <1>1, ViewOfType DEF Refetch, TypeOK, GrabberTypeOK
<1>. QED
  BY <1>2, <1>3 DEF Refetch, TypeOK, GrabberTypeOK

-------------------------------------------------------------------------------
LEMMA ProbeType ==
  ASSUME TypeOK, OneAdvancePerGrab, NEW w \in Workers, Probe(w)
  PROVE  GrabberTypeOK' /\ OneAdvancePerGrab'
<1>1. Busy(w)
  BY DEF Probe, Busy
<1> DEFINE t == grab[w].rd
<1>2. CASE RDStatus(t) = "none"
  <2>1. \E permanent \in BOOLEAN : Raise(w, permanent)
    BY <1>2 DEF Probe
  <2>2. UNCHANGED <<inflight, key, grab, addLock>>
    BY <1>2 DEF Probe
  <2>. QED
    BY <1>1, <2>1, <2>2, RaiseType DEF TypeOK, GrabberTypeOK
<1>3. CASE RDStatus(t) = "waiting_files_selection"
  BY <1>1, <1>3, GotoType DEF Probe, Stages, TypeOK, GrabberTypeOK
<1>4. CASE RDStatus(t) = "downloaded"
  <2>1. t \in TorrentIds
    BY <1>4, GrabIsView DEF RDStatus
  <2>2. Wanted(w, t) \in SUBSET Files
    BY <2>1 DEF Wanted, TypeOK, RDTypeOK, Torrent
  <2>3. todo' \in [Workers -> SUBSET Files]
    BY <1>4, <2>2 DEF Probe, TypeOK, GrabberTypeOK
  <2>. QED
    BY <1>1, <1>4, <2>3, GotoType DEF Probe, Stages
<1>5. CASE RDStatus(t) \notin {"none", "waiting_files_selection", "downloaded"}
  BY <1>1, <1>5, FinishClaims DEF Probe
<1>. QED
  BY <1>2, <1>3, <1>4, <1>5

LEMMA CallFailsType ==
  ASSUME TypeOK, OneAdvancePerGrab, NEW w \in Workers, CallFails(w)
  PROVE  GrabberTypeOK' /\ OneAdvancePerGrab'
<1>1. Busy(w)
  BY DEF CallFails, Busy
<1>2. \E permanent \in BOOLEAN : Raise(w, permanent)
  BY DEF CallFails, RaiseFault
<1>. QED
  BY <1>1, <1>2, RaiseType DEF CallFails, TypeOK, GrabberTypeOK

LEMMA ChooseFilesType ==
  ASSUME TypeOK, OneAdvancePerGrab, NEW w \in Workers, ChooseFiles(w)
  PROVE  GrabberTypeOK' /\ OneAdvancePerGrab'
<1> DEFINE ids == FileIDsForGrabs(grab[w].real, grab[w].rd)
<1>1. Busy(w)
  BY DEF ChooseFiles, Busy
<1>2. CASE ids = {}
  <2>1. Raise(w, FALSE) /\ UNCHANGED <<inflight, key, grab, addLock>>
    BY <1>2 DEF ChooseFiles
  <2>. QED
    BY <1>1, <2>1, RaiseType DEF TypeOK, GrabberTypeOK
<1>3. CASE ids # {}
  <2>1. ids \in SUBSET Files
    BY DEF FileIDsForGrabs, FilesOf
  <2>2. todo' \in [Workers -> SUBSET Files]
    BY <1>3, <2>1 DEF ChooseFiles, TypeOK, GrabberTypeOK
  <2>. QED
    BY <1>1, <1>3, <2>2, GotoType DEF ChooseFiles, Stages
<1>. QED
  BY <1>2, <1>3

LEMMA SelectFilesType ==
  ASSUME TypeOK, OneAdvancePerGrab, NEW w \in Workers, SelectFiles(w)
  PROVE  RDTypeOK' /\ GrabberTypeOK' /\ OneAdvancePerGrab'
<1>1. Busy(w)
  BY DEF SelectFiles, Busy
<1>2. RDTypeOK'
  BY GrabIsView, RDSelectType DEF SelectFiles, TypeOK
<1>. QED
  BY <1>1, <1>2, FinishClaims DEF SelectFiles

LEMMA MkdirAllType ==
  ASSUME TypeOK, OneAdvancePerGrab, NEW w \in Workers, MkdirAll(w)
  PROVE  StagingTypeOK' /\ GrabberTypeOK' /\ OneAdvancePerGrab'
<1>1. Busy(w) /\ key[w] \in Hashes
  BY BusyKey DEF MkdirAll, Busy
<1>2. StagingTypeOK'
  BY <1>1, GrabIsView, MakeDirsType DEF MkdirAll, TypeOK
<1>. QED
  BY <1>1, <1>2, GotoType DEF MkdirAll, Stages, TypeOK, GrabberTypeOK

LEMMA NextFileType ==
  ASSUME TypeOK, OneAdvancePerGrab, NEW w \in Workers, NextFile(w)
  PROVE  GrabberTypeOK' /\ OneAdvancePerGrab'
<1>1. Busy(w)
  BY DEF NextFile, Busy
<1>2. PICK stage \in {"ready", "link", "download"} : Goto(w, stage)
  BY DEF NextFile
<1>. QED
  BY <1>1, <1>2, GotoType DEF NextFile, Stages, TypeOK, GrabberTypeOK

(***************************************************************************)
(* The steps that handle a file need one: what todo holds when the loop    *)
(* chose to download or link is still there when it does.                  *)
(***************************************************************************)
FileAtHand == \A w \in Workers : pc[w] \in {"download", "rename", "link"} => todo[w] # {}

LEMMA CurrentFileIsFile ==
  ASSUME TypeOK, NEW w \in Workers, todo[w] # {}
  PROVE  CurrentFile(w) \in Files
<1>1. CurrentFile(w) \in todo[w]
  BY DEF CurrentFile
<1>. QED
  BY <1>1, GrabIsView

LEMMA DownloadType ==
  ASSUME TypeOK, OneAdvancePerGrab, FileAtHand, NEW w \in Workers, Download(w)
  PROVE  StagingTypeOK' /\ GrabberTypeOK' /\ OneAdvancePerGrab'
<1>1. Busy(w)
  BY DEF Download, Busy
<1>2. CurrentFile(w) \in Files /\ grab[w].real \in Hashes
  BY CurrentFileIsFile, GrabIsView DEF Download, FileAtHand
<1>3. CASE cache[grab[w].real].dir
  <2>1. StagingTypeOK'
    BY <1>2, <1>3, CacheWriteType DEF Download, TypeOK
  <2>. QED
    BY <1>1, <1>3, <2>1, GotoType DEF Download, Stages, TypeOK, GrabberTypeOK
<1>4. CASE ~cache[grab[w].real].dir
  <2>1. Raise(w, FALSE) /\ UNCHANGED <<saved, cache, inflight, key, grab, addLock>>
    BY <1>4 DEF Download
  <2>2. StagingTypeOK'
    BY <2>1 DEF TypeOK, StagingTypeOK
  <2>. QED
    BY <1>1, <2>1, <2>2, RaiseType DEF TypeOK, GrabberTypeOK
<1>. QED
  BY <1>3, <1>4

LEMMA StreamFailsType ==
  ASSUME TypeOK, OneAdvancePerGrab, FileAtHand, NEW w \in Workers, StreamFails(w)
  PROVE  StagingTypeOK' /\ GrabberTypeOK' /\ OneAdvancePerGrab'
<1>1. Busy(w)
  BY DEF StreamFails, Busy
<1>2. CurrentFile(w) \in Files /\ grab[w].real \in Hashes
  BY CurrentFileIsFile, GrabIsView DEF StreamFails, FileAtHand
<1>3. StagingTypeOK'
  BY <1>2, CacheWriteType DEF StreamFails, TypeOK
<1>4. \E permanent \in BOOLEAN : Raise(w, permanent)
  BY DEF StreamFails, RaiseFault
<1>. QED
  BY <1>1, <1>3, <1>4, RaiseType DEF StreamFails, TypeOK, GrabberTypeOK

LEMMA RenameType ==
  ASSUME TypeOK, OneAdvancePerGrab, FileAtHand, NEW w \in Workers, Rename(w)
  PROVE  StagingTypeOK' /\ GrabberTypeOK' /\ OneAdvancePerGrab'
<1> DEFINE there == CurrentFile(w) \in cache[grab[w].real].part
<1>1. Busy(w)
  BY DEF Rename, Busy
<1>2. CurrentFile(w) \in Files /\ grab[w].real \in Hashes
  BY CurrentFileIsFile, GrabIsView DEF Rename, FileAtHand
<1>3. CASE there
  <2>1. StagingTypeOK'
    BY <1>2, <1>3, CacheWriteType DEF Rename, TypeOK
  <2>. QED
    BY <1>1, <1>3, <2>1, GotoType DEF Rename, Stages, TypeOK, GrabberTypeOK
<1>4. CASE ~there
  <2>1. Raise(w, FALSE) /\ UNCHANGED <<saved, cache, inflight, key, grab, addLock>>
    BY <1>4 DEF Rename
  <2>2. StagingTypeOK'
    BY <2>1 DEF TypeOK, StagingTypeOK
  <2>. QED
    BY <1>1, <2>1, <2>2, RaiseType DEF TypeOK, GrabberTypeOK
<1>. QED
  BY <1>3, <1>4

LEMMA LinkType ==
  ASSUME TypeOK, OneAdvancePerGrab, FileAtHand, NEW w \in Workers, Link(w)
  PROVE  StagingTypeOK' /\ GrabberTypeOK' /\ OneAdvancePerGrab'
<1>1. Busy(w) /\ key[w] \in Hashes
  BY BusyKey DEF Link, Busy
<1>2. CurrentFile(w) \in Files /\ grab[w].real \in Hashes
  BY CurrentFileIsFile, GrabIsView DEF Link, FileAtHand
<1>3. CASE saved[key[w]].dir
  <2>1. StagingTypeOK'
    BY <1>1, <1>2, <1>3, LinkFileType DEF Link, TypeOK
  <2>2. todo' \in [Workers -> SUBSET Files]
    BY <1>3 DEF Link, TypeOK, GrabberTypeOK
  <2>. QED
    BY <1>1, <1>3, <2>1, <2>2, GotoType DEF Link, Stages
<1>4. CASE ~saved[key[w]].dir
  <2>1. Raise(w, FALSE) /\ UNCHANGED <<saved, cache, inflight, key, grab, addLock>>
    BY <1>4 DEF Link
  <2>2. StagingTypeOK'
    BY <2>1 DEF TypeOK, StagingTypeOK
  <2>. QED
    BY <1>1, <2>1, <2>2, RaiseType DEF TypeOK, GrabberTypeOK
<1>. QED
  BY <1>3, <1>4

LEMMA MarkReadyType ==
  ASSUME TypeOK, OneAdvancePerGrab, NEW w \in Workers, MarkReady(w)
  PROVE  StoreTypeOK' /\ GrabberTypeOK' /\ OneAdvancePerGrab'
<1>1. Busy(w) /\ key[w] \in Hashes
  BY BusyKey DEF MarkReady, Busy
<1>2. StoreTypeOK'
  BY <1>1, SetStateType DEF MarkReady, GrabStates, TypeOK
<1>. QED
  BY <1>1, <1>2, FinishClaims DEF MarkReady

-------------------------------------------------------------------------------
LEMMA MarkErrorType ==
  ASSUME TypeOK, OneAdvancePerGrab, NEW w \in Workers, MarkError(w)
  PROVE  StoreTypeOK' /\ GrabberTypeOK' /\ OneAdvancePerGrab'
<1>1. Busy(w) /\ key[w] \in Hashes
  BY BusyKey DEF MarkError, Busy
<1>2. StoreTypeOK'
  BY <1>1, SetStateType DEF MarkError, GrabStates, TypeOK
<1>3. CASE retry[w].permanent /\ SonarrConfigured
  BY <1>1, <1>2, <1>3, GotoType DEF MarkError, Stages, TypeOK, GrabberTypeOK
<1>4. CASE ~(retry[w].permanent /\ SonarrConfigured)
  BY <1>1, <1>2, <1>4, FinishClaims DEF MarkError
<1>. QED
  BY <1>3, <1>4

LEMMA PollSonarrType ==
  ASSUME TypeOK, OneAdvancePerGrab, NEW w \in Workers, PollSonarr(w)
  PROVE  GrabberTypeOK' /\ OneAdvancePerGrab'
<1>1. Busy(w)
  BY DEF PollSonarr, Busy
<1>2. CASE Goto(w, "blocklist") /\ UNCHANGED <<inflight, key, grab, todo, retry>>
  BY <1>1, <1>2, GotoType DEF PollSonarr, Stages, TypeOK, GrabberTypeOK
<1>3. CASE /\ retry' = [retry EXCEPT ![w].tries = @ + 1]
           /\ UNCHANGED <<inflight, pc, key, grab, todo>>
  <2>1. OneAdvancePerGrab'
    BY <1>3 DEF OneAdvancePerGrab, Busy
  <2>. QED
    BY <1>3, <2>1 DEF PollSonarr, TypeOK, GrabberTypeOK
<1>4. CASE Finish(w)
  BY <1>1, <1>4, FinishClaims DEF PollSonarr
<1>. QED
  BY <1>2, <1>3, <1>4 DEF PollSonarr

LEMMA RemoveAndBlocklistType ==
  ASSUME TypeOK, OneAdvancePerGrab, NEW w \in Workers, RemoveAndBlocklist(w)
  PROVE  GrabberTypeOK' /\ OneAdvancePerGrab'
<1>1. Busy(w)
  BY DEF RemoveAndBlocklist, Busy
<1>2. CASE Goto(w, "clear") /\ UNCHANGED <<inflight, key, grab, todo, retry>>
  BY <1>1, <1>2, GotoType DEF RemoveAndBlocklist, Stages, TypeOK, GrabberTypeOK
<1>3. CASE Finish(w)
  BY <1>1, <1>3, FinishClaims DEF RemoveAndBlocklist
<1>. QED
  BY <1>2, <1>3 DEF RemoveAndBlocklist

LEMMA ClearGrabType ==
  ASSUME TypeOK, OneAdvancePerGrab, NEW w \in Workers, ClearGrab(w)
  PROVE  StoreTypeOK' /\ GrabberTypeOK' /\ OneAdvancePerGrab'
<1>1. Busy(w) /\ key[w] \in Hashes
  BY BusyKey DEF ClearGrab, Busy
<1>2. StoreTypeOK'
  BY <1>1, DeleteType DEF ClearGrab, TypeOK
<1>. QED
  BY <1>1, <1>2, FinishClaims DEF ClearGrab

LEMMA StepFileAtHand ==
  ASSUME TypeOK, FileAtHand, NEW w \in Workers, Step(w)
  PROVE  FileAtHand'
<1>1. \A v \in Workers \ {w} : pc'[v] = pc[v] /\ todo'[v] = todo[v]
  <2>. USE DEF TypeOK, GrabberTypeOK, Goto, Finish, Raise, RaiseFault
  <2>1. CASE GetGrab(w) \/ LockRealHash(w) \/ ScanSiblings(w) \/ AddMagnet(w)
    BY <2>1 DEF GetGrab, LockRealHash, ScanSiblings, AddMagnet
  <2>2. CASE AddMagnetFails(w) \/ StoreTorrent(w) \/ Refetch(w) \/ CallFails(w)
    BY <2>2 DEF AddMagnetFails, StoreTorrent, Refetch, CallFails
  <2>3. CASE Probe(w)
    BY <2>3 DEF Probe
  <2>4. CASE ChooseFiles(w) \/ SelectFiles(w) \/ MkdirAll(w) \/ NextFile(w)
    BY <2>4 DEF ChooseFiles, SelectFiles, MkdirAll, NextFile
  <2>5. CASE Download(w) \/ StreamFails(w) \/ Rename(w) \/ Link(w)
    BY <2>5 DEF Download, StreamFails, Rename, Link
  <2>6. CASE MarkReady(w) \/ MarkError(w) \/ PollSonarr(w) \/ RemoveAndBlocklist(w) \/ ClearGrab(w)
    BY <2>6 DEF MarkReady, MarkError, PollSonarr, RemoveAndBlocklist, ClearGrab
  <2>. QED
    BY <2>1, <2>2, <2>3, <2>4, <2>5, <2>6 DEF Step
<1>2. pc'[w] \in {"download", "rename", "link"} => todo'[w] # {}
  <2>. USE DEF TypeOK, GrabberTypeOK, Goto, Finish, Raise, RaiseFault
  <2>1. CASE GetGrab(w) \/ LockRealHash(w) \/ ScanSiblings(w) \/ AddMagnet(w)
    BY <2>1 DEF GetGrab, LockRealHash, ScanSiblings, AddMagnet
  <2>2. CASE AddMagnetFails(w) \/ StoreTorrent(w) \/ Refetch(w) \/ CallFails(w)
    BY <2>2 DEF AddMagnetFails, StoreTorrent, Refetch, CallFails
  <2>3. CASE Probe(w)
    BY <2>3 DEF Probe
  <2>4. CASE ChooseFiles(w) \/ SelectFiles(w) \/ MkdirAll(w)
    BY <2>4 DEF ChooseFiles, SelectFiles, MkdirAll
  <2>5. CASE NextFile(w)
    BY <2>5 DEF NextFile
  <2>6. CASE Download(w) \/ StreamFails(w) \/ Rename(w)
    BY <2>6 DEF Download, StreamFails, Rename, FileAtHand
  <2>7. CASE Link(w)
    BY <2>7 DEF Link
  <2>8. CASE MarkReady(w) \/ MarkError(w) \/ PollSonarr(w) \/ RemoveAndBlocklist(w) \/ ClearGrab(w)
    BY <2>8 DEF MarkReady, MarkError, PollSonarr, RemoveAndBlocklist, ClearGrab
  <2>. QED
    BY <2>1, <2>2, <2>3, <2>4, <2>5, <2>6, <2>7, <2>8 DEF Step
<1>. QED
  BY <1>1, <1>2 DEF FileAtHand

-------------------------------------------------------------------------------
(***************************************************************************)
(* A search is at one of its pack's seasons: what it registers and what it *)
(* advertises are hashes.                                                  *)
(***************************************************************************)
SearchOK ==
  \A s \in Searchers :
    /\ search[s].pc # "idle" => search[s].pack \in Packs /\ FirstSeason <= search[s].season
    /\ search[s].pc = "put" => search[s].season <= LastSeason

\* The inductive invariant behind TypeOK and OneAdvancePerGrab.
ClaimInv == TypeOK /\ OneAdvancePerGrab /\ FileAtHand /\ SearchOK

\* What a step of the grabber, or of Real-Debrid, has to establish.
LEMMA GrabberStep ==
  ASSUME ClaimInv, ShimIdle, StoreTypeOK', StagingTypeOK', RDTypeOK', GrabberTypeOK',
         OneAdvancePerGrab', FileAtHand'
  PROVE  ClaimInv'
BY WorkerStepType DEF ClaimInv, SearchOK, ShimIdle

LEMMA RunWorkerClaim ==
  ASSUME ClaimInv, NEW w \in Workers, RunWorker(w)
  PROVE  ClaimInv'
<1>. USE DEF ClaimInv
<1>1. FileAtHand' /\ ShimIdle /\ Step(w)
  BY StepFileAtHand DEF RunWorker
<1>2. SUFFICES StoreTypeOK' /\ StagingTypeOK' /\ RDTypeOK' /\ GrabberTypeOK' /\ OneAdvancePerGrab'
  BY <1>1, <1>2, GrabberStep
<1>3. CASE GetGrab(w)
  BY <1>3, GetGrabType, LocalStepType DEF GetGrab
<1>4. CASE LockRealHash(w)
  BY <1>4, LockRealHashType, LocalStepType DEF LockRealHash
<1>5. CASE ScanSiblings(w)
  BY <1>5, ScanSiblingsType, LocalStepType DEF ScanSiblings
<1>6. CASE AddMagnet(w)
  BY <1>6, AddMagnetType DEF AddMagnet, TypeOK, StoreTypeOK, StagingTypeOK
<1>7. CASE AddMagnetFails(w)
  BY <1>7, AddMagnetFailsType DEF AddMagnetFails, TypeOK, StoreTypeOK, StagingTypeOK
<1>8. CASE StoreTorrent(w)
  BY <1>8, StoreTorrentType DEF StoreTorrent, TypeOK, RDTypeOK, StagingTypeOK
<1>9. CASE Refetch(w)
  BY <1>9, RefetchType, LocalStepType DEF Refetch
<1>10. CASE Probe(w)
  BY <1>10, ProbeType, LocalStepType DEF Probe
<1>11. CASE CallFails(w)
  BY <1>11, CallFailsType, LocalStepType DEF CallFails
<1>12. CASE ChooseFiles(w)
  BY <1>12, ChooseFilesType, LocalStepType DEF ChooseFiles
<1>13. CASE SelectFiles(w)
  BY <1>13, SelectFilesType DEF SelectFiles, TypeOK, StoreTypeOK, StagingTypeOK
<1>14. CASE MkdirAll(w)
  BY <1>14, MkdirAllType DEF MkdirAll, TypeOK, StoreTypeOK, RDTypeOK
<1>15. CASE NextFile(w)
  BY <1>15, NextFileType, LocalStepType DEF NextFile
<1>16. CASE Download(w)
  BY <1>16, DownloadType DEF Download, TypeOK, StoreTypeOK, RDTypeOK
<1>17. CASE Rename(w)
  BY <1>17, RenameType DEF Rename, TypeOK, StoreTypeOK, RDTypeOK
<1>18. CASE Link(w)
  BY <1>18, LinkType DEF Link, TypeOK, StoreTypeOK, RDTypeOK
<1>19. CASE MarkReady(w)
  BY <1>19, MarkReadyType DEF MarkReady, TypeOK, RDTypeOK, StagingTypeOK
<1>20. CASE MarkError(w)
  BY <1>20, MarkErrorType DEF MarkError, TypeOK, RDTypeOK, StagingTypeOK
<1>21. CASE PollSonarr(w)
  BY <1>21, PollSonarrType, LocalStepType DEF PollSonarr
<1>22. CASE RemoveAndBlocklist(w)
  BY <1>22, RemoveAndBlocklistType, LocalStepType DEF RemoveAndBlocklist
<1>23. CASE ClearGrab(w)
  BY <1>23, ClearGrabType DEF ClearGrab, TypeOK, RDTypeOK, StagingTypeOK
<1>24. CASE StreamFails(w)
  BY <1>24, StreamFailsType DEF StreamFails, TypeOK, StoreTypeOK, RDTypeOK
<1>. QED
  BY <1>1, <1>3, <1>4, <1>5, <1>6, <1>7, <1>8, <1>9, <1>10, <1>11, <1>12, <1>13, <1>14,
     <1>15, <1>16, <1>17, <1>18, <1>19, <1>20, <1>21, <1>22, <1>23, <1>24 DEF Step

\* The claim is taken where it was seen free, and by an idle goroutine.
LEMMA RunTickClaim ==
  ASSUME ClaimInv, NEW k \in Hashes, RunTick(k)
  PROVE  ClaimInv'
<1>. USE DEF ClaimInv
<1>1. PICK w \in Workers : Tick(w, k)
  BY DEF RunTick
<1>2. \A v \in Workers : /\ Busy(v)' <=> (Busy(v) \/ v = w)
                         /\ key'[v] = IF v = w THEN k ELSE key[v]
  BY <1>1 DEF Tick, Goto, Busy, TypeOK, GrabberTypeOK
<1>3. ~Busy(w) /\ inflight' = inflight \union {k} /\ k \notin inflight
  BY <1>1 DEF Tick, Busy
<1>4. OneAdvancePerGrab'
  <2>1. \A v \in Workers : Busy(v) => key[v] \in inflight
    BY DEF OneAdvancePerGrab
  <2>2. \A u, v \in Workers : u # v /\ Busy(u)' /\ Busy(v)' => key'[u] # key'[v]
    BY <1>2, <1>3, <2>1 DEF OneAdvancePerGrab
  <2>3. ASSUME NEW h \in inflight' PROVE \E v \in Workers : Busy(v)' /\ h = key'[v]
    <3>1. CASE h = k
      BY <1>2, <3>1
    <3>2. CASE h \in inflight
      BY <1>2, <1>3, <3>2 DEF OneAdvancePerGrab
    <3>. QED
      BY <1>3, <2>3, <3>1, <3>2
  <2>4. ASSUME NEW v \in Workers, Busy(v)' PROVE key'[v] \in inflight'
    BY <1>2, <1>3, <2>1, <2>4
  <2>5. inflight' = {key'[v] : v \in {u \in Workers : Busy(u)'}}
    BY <2>3, <2>4
  <2>. QED
    BY <2>2, <2>5 DEF OneAdvancePerGrab
<1>5. GrabberTypeOK' /\ FileAtHand'
  BY <1>1 DEF Tick, Goto, TypeOK, GrabberTypeOK, Stages, FileAtHand
<1>6. StoreTypeOK' /\ StagingTypeOK' /\ RDTypeOK'
  BY <1>1, LocalStepType DEF Tick
<1>. QED
  BY <1>4, <1>5, <1>6, GrabberStep DEF RunTick

LEMMA RDClaim ==
  ASSUME ClaimInv, NEW t \in TorrentIds, RunRealDebrid(t) \/ TorrentDies(t)
  PROVE  ClaimInv'
<1>. USE DEF ClaimInv
<1>1. RDTypeOK' /\ RDStill /\ ShimIdle
  BY RDOwnStepType DEF RunRealDebrid, TorrentDies, TypeOK
<1>2. StoreTypeOK' /\ StagingTypeOK'
  BY <1>1 DEF RDStill, TypeOK, StoreTypeOK, StagingTypeOK
<1>3. GrabberTypeOK' /\ OneAdvancePerGrab' /\ FileAtHand'
  BY <1>1 DEF RDStill, TypeOK, GrabberTypeOK, OneAdvancePerGrab, Busy, FileAtHand
<1>. QED
  BY <1>1, <1>2, <1>3, GrabberStep

-------------------------------------------------------------------------------
\* What a step of a handler has to establish, the rest is GrabberIdle's.
LEMMA ShimStep ==
  ASSUME ClaimInv, GrabberIdle, StoreTypeOK', StagingTypeOK', ShimTypeOK', SearchOK',
         spent' \in [{"search", "add", "delete", "crash"} -> Nat]
  PROVE  ClaimInv'
<1>. USE DEF ClaimInv
<1>1. RDTypeOK' /\ GrabberTypeOK' /\ panicked' \in BOOLEAN
  BY DEF GrabberIdle, TypeOK, RDTypeOK, GrabberTypeOK
<1>2. disturbed' \in SUBSET Hashes
  BY ObserveType DEF GrabberIdle
<1>3. OneAdvancePerGrab' /\ FileAtHand'
  BY DEF GrabberIdle, OneAdvancePerGrab, Busy, FileAtHand
<1>. QED
  BY <1>1, <1>2, <1>3 DEF TypeOK

LEMMA SpendType ==
  ASSUME TypeOK, NEW what \in {"search", "add", "delete", "crash"}, NEW bound, Spend(what, bound)
  PROVE  spent' \in [{"search", "add", "delete", "crash"} -> Nat]
BY DEF TypeOK, Spend

LEMMA SearchClaim ==
  ASSUME ClaimInv, NEW s \in Searchers, NEW p \in Packs, Search(s, p)
  PROVE  ClaimInv'
<1>. USE DEF ClaimInv
<1>1. SearchStart(s, p) /\ GrabberIdle
  BY DEF Search
<1>2. p \in Hashes /\ FirstSeason \in Nat
  BY ReleasesAssumption DEF Hashes
<1>3. ShimTypeOK'
  BY <1>1, <1>2 DEF SearchStart, TypeOK, ShimTypeOK, SearchStages
<1>4. SearchOK'
  BY <1>1, <1>2 DEF SearchStart, SearchOK, TypeOK, ShimTypeOK
<1>5. StoreTypeOK' /\ StagingTypeOK'
  BY <1>1 DEF SearchStart, TypeOK, StoreTypeOK, StagingTypeOK
<1>6. spent' \in [{"search", "add", "delete", "crash"} -> Nat]
  BY SpendType DEF Search
<1>. QED
  BY <1>1, <1>3, <1>4, <1>5, <1>6, ShimStep

LEMMA RunSearchClaim ==
  ASSUME ClaimInv, NEW s \in Searchers, RunSearch(s)
  PROVE  ClaimInv'
<1>. USE DEF ClaimInv
<1>1. SearchStep(s) /\ GrabberIdle
  BY DEF RunSearch
<1>2. spent' \in [{"search", "add", "delete", "crash"} -> Nat]
  BY DEF RunSearch, TypeOK
<1>3. search[s].season \in Nat /\ search[s].pack \in Hashes
  BY DEF TypeOK, ShimTypeOK
<1>4. CASE RegisterGet(s)
  <2>1. ShimTypeOK'
    BY <1>3, <1>4 DEF RegisterGet, TypeOK, ShimTypeOK, SearchStages
  <2>2. SearchOK'
    BY <1>3, <1>4, ReleasesAssumption DEF RegisterGet, SearchOK, TypeOK, ShimTypeOK
  <2>3. StoreTypeOK' /\ StagingTypeOK'
    BY <1>4 DEF RegisterGet, TypeOK, StoreTypeOK, StagingTypeOK
  <2>. QED
    BY <1>1, <1>2, <2>1, <2>2, <2>3, ShimStep
<1>5. CASE RegisterPut(s)
  <2>1. search[s].pack \in Packs /\ search[s].season \in Seasons
    BY <1>3, <1>5, ReleasesAssumption DEF RegisterPut, SearchOK, Seasons
  <2>2. NewGrab("registered", search[s].pack, search[s].season) \in Grab
    BY <1>3 DEF NewGrab, Grab, GrabStates
  <2>3. StoreTypeOK'
    BY <1>5, <2>1, <2>2, SyntheticHash, PutType DEF RegisterPut, Advertised, TypeOK
  <2>4. ShimTypeOK' /\ StagingTypeOK'
    BY <1>3, <1>5 DEF RegisterPut, TypeOK, ShimTypeOK, SearchStages, StagingTypeOK
  <2>5. SearchOK'
    BY <1>3, <1>5, ReleasesAssumption DEF RegisterPut, SearchOK, TypeOK, ShimTypeOK
  <2>. QED
    BY <1>1, <1>2, <2>3, <2>4, <2>5, ShimStep
<1>6. CASE SearchDone(s)
  <2>1. search[s].pack \in Packs
    BY <1>6 DEF SearchDone, SearchOK
  <2>2. {SyntheticInfohash(search[s].pack, n) : n \in Seasons} \subseteq Hashes
    BY <2>1, SyntheticHash
  <2>3. NoSearch \in [pc : SearchStages, pack : Hashes, season : Nat]
    BY AnythingIsHash DEF NoSearch, SearchStages, Anything
  <2>4. ShimTypeOK'
    BY <1>6, <2>2, <2>3 DEF SearchDone, TypeOK, ShimTypeOK
  <2>5. SearchOK'
    BY <1>6 DEF SearchDone, SearchOK, TypeOK, ShimTypeOK, NoSearch
  <2>6. StoreTypeOK' /\ StagingTypeOK'
    BY <1>6 DEF SearchDone, TypeOK, StoreTypeOK, StagingTypeOK
  <2>. QED
    BY <1>1, <1>2, <2>4, <2>5, <2>6, ShimStep
<1>. QED
  BY <1>1, <1>4, <1>5, <1>6 DEF SearchStep

LEMMA AddClaim ==
  ASSUME ClaimInv, NEW a \in Adders, NEW k \in Hashes, Add(a, k)
  PROVE  ClaimInv'
<1>. USE DEF ClaimInv
<1>1. AddGet(a, k) /\ GrabberIdle
  BY DEF Add
<1>2. spent' \in [{"search", "add", "delete", "crash"} -> Nat]
  BY SpendType DEF Add
<1>3. ShimTypeOK' /\ SearchOK'
  BY <1>1 DEF AddGet, TypeOK, ShimTypeOK, AddStages, SearchOK
<1>4. StoreTypeOK' /\ StagingTypeOK'
  BY <1>1 DEF AddGet, TypeOK, StoreTypeOK, StagingTypeOK
<1>. QED
  BY <1>1, <1>2, <1>3, <1>4, ShimStep

LEMMA RunAddClaim ==
  ASSUME ClaimInv, NEW a \in Adders, RunAdd(a)
  PROVE  ClaimInv'
<1>. USE DEF ClaimInv
<1> DEFINE k == add[a].key
<1>1. AddWrite(a) /\ GrabberIdle
  BY DEF RunAdd
<1>2. spent' \in [{"search", "add", "delete", "crash"} -> Nat]
  BY DEF RunAdd, TypeOK
<1>3. k \in Hashes
  BY DEF TypeOK, ShimTypeOK
<1>4. StoreTypeOK'
  <2>1. CASE SetState(k, "queued")
    BY <1>3, <2>1, SetStateType DEF TypeOK, GrabStates
  <2>2. CASE Put(k, NewGrab("queued", k, 0))
    <3>1. NewGrab("queued", k, 0) \in Grab
      BY <1>3 DEF NewGrab, Grab, GrabStates
    <3>. QED
      BY <1>3, <2>2, <3>1, PutType DEF TypeOK
  <2>. QED
    BY <1>1, <2>1, <2>2 DEF AddWrite
<1>5. NoAdd \in [pc : AddStages, key : Hashes]
  BY AnythingIsHash DEF NoAdd, AddStages, Anything
<1>6. ShimTypeOK' /\ SearchOK' /\ StagingTypeOK'
  BY <1>1, <1>5 DEF AddWrite, TypeOK, ShimTypeOK, SearchOK, StagingTypeOK
<1>. QED
  BY <1>1, <1>2, <1>4, <1>6, ShimStep

LEMMA DeleteGrabClaim ==
  ASSUME ClaimInv, NEW d \in Deleters, NEW k \in Hashes, DeleteGrab(d, k)
  PROVE  ClaimInv'
<1>. USE DEF ClaimInv
<1>1. GrabberIdle /\ \E deleteFiles \in BOOLEAN : DeleteStart(d, k, deleteFiles)
  BY DEF DeleteGrab
<1>2. spent' \in [{"search", "add", "delete", "crash"} -> Nat]
  BY SpendType DEF DeleteGrab
<1>3. ShimTypeOK' /\ SearchOK'
  BY <1>1, AnythingIsHash DEF DeleteStart, TypeOK, ShimTypeOK, DelStages, SearchOK, Anything
<1>4. StoreTypeOK' /\ StagingTypeOK'
  BY <1>1 DEF DeleteStart, TypeOK, StoreTypeOK, StagingTypeOK
<1>. QED
  BY <1>1, <1>2, <1>3, <1>4, ShimStep

LEMMA RunDeleteClaim ==
  ASSUME ClaimInv, NEW d \in Deleters, RunDelete(d)
  PROVE  ClaimInv'
<1>. USE DEF ClaimInv
<1>1. DeleteStep(d) /\ GrabberIdle
  BY DEF RunDelete
<1>2. spent' \in [{"search", "add", "delete", "crash"} -> Nat]
  BY DEF RunDelete, TypeOK
<1>3. del[d].key \in Hashes /\ del[d].real \in Hashes
  BY DEF TypeOK, ShimTypeOK
<1>4. SearchOK'
  BY <1>1 DEF DeleteStep, DeleteGet, DeleteTree, DeleteCount, DeleteCache, DeleteRecord, SearchOK
<1>5. ShimTypeOK'
  <2>1. grabs[del[d].key].real \in Hashes
    BY <1>3 DEF TypeOK, StoreTypeOK, Grab
  <2>2. NoDel \in [pc : DelStages, key : Hashes, real : Hashes]
    BY AnythingIsHash DEF NoDel, DelStages, Anything
  <2>3. CASE DeleteGet(d)
    BY <2>1, <2>3 DEF DeleteGet, TypeOK, ShimTypeOK, DelStages
  <2>4. CASE DeleteTree(d) \/ DeleteCount(d) \/ DeleteCache(d)
    BY <2>4 DEF DeleteTree, DeleteCount, DeleteCache, TypeOK, ShimTypeOK, DelStages
  <2>5. CASE DeleteRecord(d)
    BY <2>2, <2>5 DEF DeleteRecord, TypeOK, ShimTypeOK
  <2>. QED
    BY <1>1, <2>3, <2>4, <2>5 DEF DeleteStep
<1>6. StoreTypeOK'
  BY <1>1, <1>3, DeleteType DEF DeleteStep, DeleteGet, DeleteTree, DeleteCount, DeleteCache,
     DeleteRecord, TypeOK, StoreTypeOK
<1>7. StagingTypeOK'
  <2>1. CASE DeleteTree(d)
    <3>1. RemoveSaved(del[d].key) /\ UNCHANGED cache
      BY <2>1 DEF DeleteTree
    <3>. QED
      BY <1>3, <3>1, RemoveSavedType DEF TypeOK
  <2>2. CASE DeleteCache(d)
    <3>1. RemoveCache(del[d].real) /\ UNCHANGED saved
      BY <2>2 DEF DeleteCache
    <3>. QED
      BY <1>3, <3>1, RemoveCacheType DEF TypeOK
  <2>3. CASE DeleteGet(d) \/ DeleteCount(d) \/ DeleteRecord(d)
    BY <2>3 DEF DeleteGet, DeleteCount, DeleteRecord, TypeOK, StagingTypeOK
  <2>. QED
    BY <1>1, <2>1, <2>2, <2>3 DEF DeleteStep
<1>. QED
  BY <1>1, <1>2, <1>4, <1>5, <1>6, <1>7, ShimStep

-------------------------------------------------------------------------------
\* A restart leaves no goroutine, no claim, no lock and no request.
LEMMA RestartClaim ==
  ASSUME ClaimInv, Restart, panicked' \in BOOLEAN,
         spent' \in [{"search", "add", "delete", "crash"} -> Nat]
  PROVE  ClaimInv'
<1>. USE DEF ClaimInv
<1>1. StoreTypeOK' /\ StagingTypeOK' /\ RDTypeOK'
  BY DEF Restart, TypeOK, StoreTypeOK, StagingTypeOK, RDTypeOK
<1>2. GrabberTypeOK'
  BY NoViewIsView DEF Restart, GrabberRestart, GrabberTypeOK, Stages, NoRetry
<1>3. ShimTypeOK'
  BY AnythingIsHash DEF Restart, ShimRestart, TypeOK, ShimTypeOK, NoSearch, NoAdd, NoDel,
     SearchStages, AddStages, DelStages, Anything
<1>4. OneAdvancePerGrab' /\ FileAtHand'
  BY DEF Restart, GrabberRestart, OneAdvancePerGrab, Busy, FileAtHand
<1>5. SearchOK'
  BY DEF Restart, ShimRestart, SearchOK, NoSearch
<1>6. disturbed' \in SUBSET Hashes
  BY ObserveType DEF Restart
<1>. QED
  BY <1>1, <1>2, <1>3, <1>4, <1>5, <1>6 DEF TypeOK

LEMMA InitClaim == Init => ClaimInv
<1>. SUFFICES ASSUME Init PROVE ClaimInv
  OBVIOUS
<1>1. StoreTypeOK
  BY AbsentIsGrab DEF Init, StoreInit, StoreTypeOK
<1>2. StagingTypeOK
  BY DEF Init, StagingInit, StagingTypeOK, NoSaved, NoCache, Saved, Cache
<1>3. RDTypeOK
  BY DEF Init, RDInit, RDTypeOK, Unused, Torrent, Status
<1>4. GrabberTypeOK
  BY NoViewIsView DEF Init, GrabberInit, GrabberTypeOK, Stages, NoRetry
<1>5. ShimTypeOK
  BY AnythingIsHash, ReleasesAssumption DEF Init, ShimInit, SonarrInit, ShimTypeOK, NoSearch,
     NoAdd, NoDel, SearchStages, AddStages, DelStages, Anything, Hashes
<1>6. TypeOK
  <2>1. spent \in [{"search", "add", "delete", "crash"} -> Nat]
    BY DEF Init
  <2>2. panicked \in BOOLEAN /\ disturbed \in SUBSET Hashes
    BY DEF Init
  <2>. QED
    BY <1>1, <1>2, <1>3, <1>4, <1>5, <2>1, <2>2 DEF TypeOK
<1>7. OneAdvancePerGrab /\ FileAtHand /\ SearchOK
  BY DEF Init, GrabberInit, ShimInit, OneAdvancePerGrab, Busy, FileAtHand, SearchOK, NoSearch
<1>. QED
  BY <1>6, <1>7 DEF ClaimInv

LEMMA NextClaim == ClaimInv /\ [Next]_vars => ClaimInv'
<1>. SUFFICES ASSUME ClaimInv, [Next]_vars PROVE ClaimInv'
  OBVIOUS
<1>1. CASE \E k \in Hashes : RunTick(k)
  BY <1>1, RunTickClaim
<1>2. CASE \E w \in Workers : RunWorker(w)
  BY <1>2, RunWorkerClaim
<1>3. CASE \E t \in TorrentIds : RunRealDebrid(t) \/ TorrentDies(t)
  BY <1>3, RDClaim
<1>4. CASE \E s \in Searchers, p \in Packs : Search(s, p)
  BY <1>4, SearchClaim
<1>5. CASE \E s \in Searchers : RunSearch(s)
  BY <1>5, RunSearchClaim
<1>6. CASE \E a \in Adders, k \in Hashes : Add(a, k)
  BY <1>6, AddClaim
<1>7. CASE \E a \in Adders : RunAdd(a)
  BY <1>7, RunAddClaim
<1>8. CASE \E d \in Deleters, k \in Hashes : DeleteGrab(d, k)
  BY <1>8, DeleteGrabClaim
<1>9. CASE \E d \in Deleters : RunDelete(d)
  BY <1>9, RunDeleteClaim
<1>10. CASE Crash
  BY <1>10, RestartClaim, SpendType DEF Crash, ClaimInv, TypeOK
<1>11. CASE Panic
  BY <1>11, RestartClaim DEF Panic, ClaimInv, TypeOK
<1>12. CASE UNCHANGED vars
  BY <1>12 DEF vars, ClaimInv, TypeOK, StoreTypeOK, StagingTypeOK, RDTypeOK, GrabberTypeOK,
     ShimTypeOK, OneAdvancePerGrab, Busy, FileAtHand, SearchOK
<1>. QED
  BY <1>1, <1>2, <1>3, <1>4, <1>5, <1>6, <1>7, <1>8, <1>9, <1>10, <1>11, <1>12 DEF Next

\* The claim invariant holds in every reachable state.
THEOREM ClaimInvariant == Spec => []ClaimInv
BY InitClaim, NextClaim, PTL DEF Spec

\* Whatever is stored, claimed, locked, staged or asked for has its type.
THEOREM TypeCorrect == Spec => []TypeOK
<1>1. ClaimInv => TypeOK
  BY DEF ClaimInv
<1>. QED
  BY <1>1, ClaimInvariant, PTL

(***************************************************************************)
(* No two goroutines advance one grab, and every claim has its goroutine,  *)
(* for any number of grabs, goroutines, faults, crashes and requests.      *)
(***************************************************************************)
THEOREM ClaimsHold == Spec => []OneAdvancePerGrab
<1>1. ClaimInv => OneAdvancePerGrab
  BY DEF ClaimInv
<1>. QED
  BY <1>1, ClaimInvariant, PTL
===============================================================================
