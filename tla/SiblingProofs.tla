----------------------------- MODULE SiblingProofs -----------------------------
(***************************************************************************)
(* Why the siblings of a pack share one Real-Debrid torrent                *)
(* (AddMagnetGuarded, SiblingsShareTorrent), for every value of the        *)
(* constants.                                                              *)
(*                                                                         *)
(* Between the scan for a torrent and the update that stores its id, a     *)
(* goroutine holds the mutex of the real hash it read at the beginning.    *)
(* The record it updates may meanwhile be another one under the same key,  *)
(* with another real hash.  That does no harm because a record's real hash *)
(* is its key or its key's pack, so that two real torrents never meet      *)
(* under one key, and because a goroutine carries a torrent of the real    *)
(* hash it locked, or of a hash that no torrent has.                       *)
(***************************************************************************)
EXTENDS SeasonSplitarrProofs

\* The stages inside the mutex, and the one in front of it.
Locked == {"scan", "adding", "store"}
Registering == {"lock"} \union Locked

-------------------------------------------------------------------------------
\* A record is about its key, or about its key's pack.
RealOK == \A k \in Hashes : grabs[k].real \in {k, PackOf(k)}

\* An id in the store is one Real-Debrid has handed out.
RDOK ==
  \A k \in Hashes : grabs[k].rd # NoTorrent =>
    grabs[k].rd \in TorrentIds /\ torrents[grabs[k].rd].status # "none"

\* A record about a real torrent has no other real torrent's id.
HashOK ==
  \A k \in Hashes :
    grabs[k].rd # NoTorrent /\ {grabs[k].real, torrents[grabs[k].rd].hash} \subseteq Torrents
      => torrents[grabs[k].rd].hash = grabs[k].real

\* The torrent goroutine w is about to store, and who has one of the same hash.
CarriesOK(w) ==
  LET t == grab[w].rd
  IN /\ t \in TorrentIds
     /\ torrents[t].status # "none"
     /\ torrents[t].hash \in Torrents =>
          /\ torrents[t].hash = grab[w].real
          /\ \A k \in Hashes : HasTorrentOf(k, grab[w].real) => grabs[k].rd = t

WorkerOK(w) ==
  /\ pc[w] \in Registering => grab[w].real \in {key[w], PackOf(key[w])}
  /\ pc[w] \in Locked => addLock[grab[w].real] = w
  /\ pc[w] = "adding" /\ grab[w].real \in Torrents =>
       \A k \in Hashes : ~HasTorrentOf(k, grab[w].real)
  /\ pc[w] = "store" => CarriesOK(w)

SharedOK == RealOK /\ RDOK /\ HashOK /\ SiblingsShareTorrent

\* The inductive invariant, on top of ClaimInv.
TorrentInv == SharedOK /\ \A w \in Workers : WorkerOK(w)

-------------------------------------------------------------------------------
(***************************************************************************)
(* What most steps do: records only lose ids, Real-Debrid's torrents keep  *)
(* their hash once they exist, and a goroutine other than the one that     *)
(* steps keeps what it reads, its mutex included.                          *)
(***************************************************************************)
GrabsFade ==
  \A k \in Hashes :
    /\ grabs'[k].real \in {k, PackOf(k)}
    /\ grabs'[k].rd # NoTorrent =>
         grabs'[k].rd = grabs[k].rd /\ grabs'[k].real = grabs[k].real /\ (Stored(k)' => Stored(k))

TorrentsGrow ==
  \A t \in TorrentIds : torrents[t].status # "none" =>
    torrents'[t].status # "none" /\ torrents'[t].hash = torrents[t].hash

Keeps(w) ==
  pc'[w] \in Registering =>
    /\ pc'[w] = pc[w] /\ grab'[w] = grab[w] /\ key'[w] = key[w]
    /\ pc[w] \in Locked => addLock'[grab[w].real] = addLock[grab[w].real]

\* Nobody comes to have a torrent, and who has one keeps it.
LEMMA FewerHaveTorrents ==
  ASSUME RDOK, GrabsFade, TorrentsGrow, NEW k \in Hashes, NEW r, HasTorrentOf(k, r)'
  PROVE  HasTorrentOf(k, r) /\ grabs'[k].rd = grabs[k].rd
BY DEF HasTorrentOf, RDOK, GrabsFade, TorrentsGrow

LEMMA SharedFrame ==
  ASSUME SharedOK, GrabsFade, TorrentsGrow
  PROVE  SharedOK'
<1>1. RealOK'
  BY DEF RealOK, GrabsFade
<1>2. RDOK'
  BY DEF SharedOK, RDOK, GrabsFade, TorrentsGrow
<1>3. HashOK'
  BY DEF SharedOK, RDOK, HashOK, GrabsFade, TorrentsGrow
<1>4. SiblingsShareTorrent'
  <2>1. SUFFICES ASSUME NEW r \in Torrents, NEW j \in Hashes, NEW k \in Hashes,
                        HasTorrentOf(j, r)', HasTorrentOf(k, r)'
                 PROVE  grabs'[j].rd = grabs'[k].rd
    BY DEF SiblingsShareTorrent
  <2>. QED
    BY <2>1, FewerHaveTorrents DEF SharedOK, SiblingsShareTorrent
<1>. QED
  BY <1>1, <1>2, <1>3, <1>4 DEF SharedOK

LEMMA WorkerFrame ==
  ASSUME SharedOK, GrabsFade, TorrentsGrow, NEW w \in Workers, WorkerOK(w), Keeps(w)
  PROVE  WorkerOK(w)'
<1>1. pc'[w] \in Registering => grab'[w].real \in {key'[w], PackOf(key'[w])}
  BY DEF WorkerOK, Keeps
<1>2. pc'[w] \in Locked => addLock'[grab'[w].real] = w
  BY DEF WorkerOK, Keeps, Registering
<1>3. ASSUME pc'[w] = "adding", grab'[w].real \in Torrents, NEW k \in Hashes
      PROVE  ~HasTorrentOf(k, grab[w].real)'
  <2>1. pc[w] = "adding" /\ grab[w].real \in Torrents
    BY <1>3 DEF Keeps, Registering, Locked
  <2>2. ~HasTorrentOf(k, grab[w].real)
    BY <2>1 DEF WorkerOK
  <2>3. grab'[w].real = grab[w].real
    BY <1>3 DEF Keeps, Registering, Locked
  <2>4. HasTorrentOf(k, grab[w].real)' => HasTorrentOf(k, grab[w].real)
    BY <2>3 DEF HasTorrentOf, SharedOK, RDOK, GrabsFade, TorrentsGrow
  <2>. QED
    BY <2>2, <2>4
<1>4. ASSUME pc'[w] = "store" PROVE CarriesOK(w)'
  <2>1. pc[w] = "store" /\ grab'[w] = grab[w] /\ CarriesOK(w)
    BY <1>4 DEF Keeps, Registering, Locked, WorkerOK
  <2>2. /\ grab[w].rd \in TorrentIds
        /\ torrents'[grab[w].rd].status # "none"
        /\ torrents'[grab[w].rd].hash = torrents[grab[w].rd].hash
    BY <2>1 DEF CarriesOK, TorrentsGrow
  <2>3. ASSUME torrents[grab[w].rd].hash \in Torrents, NEW k \in Hashes,
               HasTorrentOf(k, grab[w].real)'
        PROVE  grabs'[k].rd = grab[w].rd
    <3>1. HasTorrentOf(k, grab[w].real) /\ grabs'[k].rd = grabs[k].rd
      BY <2>1, <2>3 DEF HasTorrentOf, SharedOK, RDOK, GrabsFade, TorrentsGrow
    <3>. QED
      BY <2>1, <2>3, <3>1 DEF CarriesOK
  <2>. QED
    BY <2>1, <2>2, <2>3 DEF CarriesOK
<1>. QED
  BY <1>1, <1>2, <1>3, <1>4 DEF WorkerOK

\* A step all of whose effects are of that kind.
LEMMA Frame ==
  ASSUME TorrentInv, GrabsFade, TorrentsGrow, \A w \in Workers : Keeps(w)
  PROVE  TorrentInv'
BY SharedFrame, WorkerFrame DEF TorrentInv

\* A step of goroutine w, which accounts for itself.
LEMMA FrameBut ==
  ASSUME TorrentInv, GrabsFade, TorrentsGrow,
         NEW w \in Workers, WorkerOK(w)', \A v \in Workers \ {w} : Keeps(v)
  PROVE  TorrentInv'
BY SharedFrame, WorkerFrame DEF TorrentInv

LEMMA StillGrabs ==
  ASSUME TorrentInv, UNCHANGED grabs
  PROVE  GrabsFade
BY DEF TorrentInv, SharedOK, RealOK, GrabsFade, Stored

LEMMA StillTorrents ==
  ASSUME UNCHANGED torrents
  PROVE  TorrentsGrow
BY DEF TorrentsGrow

\* The store's operations, but for an update that sets an id.
LEMMA SetStateFades ==
  ASSUME TypeOK, TorrentInv, NEW k \in Hashes, NEW state, SetState(k, state)
  PROVE  GrabsFade
BY DEF TypeOK, StoreTypeOK, Grab, TorrentInv, SharedOK, RealOK, GrabsFade, SetState, Update, Stored

LEMMA DeleteFades ==
  ASSUME TypeOK, TorrentInv, NEW k \in Hashes, Delete(k)
  PROVE  GrabsFade
BY DEF TypeOK, StoreTypeOK, TorrentInv, SharedOK, RealOK, GrabsFade, Delete, Absent, Stored

LEMMA PutNewFades ==
  ASSUME TypeOK, TorrentInv, NEW k \in Hashes, NEW state, NEW r \in {k, PackOf(k)}, NEW season,
         Put(k, NewGrab(state, r, season))
  PROVE  GrabsFade
BY DEF TypeOK, StoreTypeOK, TorrentInv, SharedOK, RealOK, GrabsFade, Put, NewGrab, Stored

\* Real-Debrid: a new torrent takes an unused id, and the rest keeps hashes.
LEMMA AddMagnetGrows ==
  ASSUME TypeOK, NEW t \in TorrentIds, NEW h, RDAddMagnet(t, h)
  PROVE  TorrentsGrow
BY DEF TypeOK, RDTypeOK, TorrentsGrow, RDAddMagnet, FreeIds

LEMMA RDStepGrows ==
  ASSUME TypeOK, NEW t \in TorrentIds, RDProgress(t) \/ RDDie(t)
  PROVE  TorrentsGrow
BY DEF TypeOK, RDTypeOK, Torrent, TorrentsGrow, RDProgress, RDConvert, RDFinish, RDDie

LEMMA SelectGrows ==
  ASSUME TypeOK, NEW t \in TorrentIds \union {NoTorrent}, NEW files, RDSelect(t, files)
  PROVE  TorrentsGrow
BY DEF TypeOK, RDTypeOK, Torrent, TorrentsGrow, RDSelect

\* Two goroutines inside the mutex of one real hash are one goroutine.
LEMMA OneHolder ==
  ASSUME TorrentInv, NEW w \in Workers, NEW v \in Workers,
         pc[w] \in Locked, pc[v] \in Locked, grab[w].real = grab[v].real
  PROVE  w = v
BY DEF TorrentInv, WorkerOK

\* A goroutine inside its mutex that releases it leaves the others theirs.
LEMMA UnlockKeeps ==
  ASSUME TypeOK, TorrentInv, NEW w \in Workers, pc[w] \in Locked, Unlock(grab[w].real),
         NEW v \in Workers \ {w}, pc'[v] = pc[v], grab'[v] = grab[v], key'[v] = key[v]
  PROVE  Keeps(v)
<1>1. pc[v] \in Locked => grab[v].real # grab[w].real
  BY OneHolder
<1>2. grab[v].real \in Hashes /\ addLock \in [Hashes -> Workers \union {Free}]
  BY GrabIsView DEF TypeOK, GrabberTypeOK
<1>. QED
  BY <1>1, <1>2 DEF Keeps, Unlock

-------------------------------------------------------------------------------
\* The steps inside the mutex.
LEMMA GetGrabShares ==
  ASSUME ClaimInv, TorrentInv, NEW w \in Workers, GetGrab(w)
  PROVE  TorrentInv'
<1>. USE DEF ClaimInv
<1>1. Busy(w) /\ key[w] \in Hashes
  BY BusyKey DEF GetGrab, Busy
<1>2. \A v \in Workers \ {w} : Keeps(v)
  BY DEF GetGrab, Goto, Finish, TypeOK, GrabberTypeOK, Keeps
<1>3. WorkerOK(w)'
  <2>1. CASE Stored(key[w])
    <3>1. pc'[w] \in {"lock", "probe"} /\ key'[w] = key[w] /\ grab'[w].real = grabs[key[w]].real
      BY <2>1 DEF GetGrab, Goto, ViewOf, TypeOK, GrabberTypeOK
    <3>2. grabs[key[w]].real \in {key[w], PackOf(key[w])}
      BY <1>1 DEF TorrentInv, SharedOK, RealOK
    <3>. QED
      BY <3>1, <3>2 DEF WorkerOK, Locked
  <2>2. CASE ~Stored(key[w])
    <3>1. pc'[w] = "idle"
      BY <2>2 DEF GetGrab, Finish, TypeOK, GrabberTypeOK
    <3>. QED
      BY <3>1 DEF WorkerOK, Registering, Locked
  <2>. QED
    BY <2>1, <2>2
<1>. QED
  BY <1>2, <1>3, FrameBut, StillGrabs, StillTorrents DEF GetGrab

LEMMA LockRealHashShares ==
  ASSUME ClaimInv, TorrentInv, NEW w \in Workers, LockRealHash(w)
  PROVE  TorrentInv'
<1>. USE DEF ClaimInv
<1>1. grab[w].real \in Hashes /\ addLock \in [Hashes -> Workers \union {Free}]
  BY GrabIsView DEF TypeOK, GrabberTypeOK
<1>2. ASSUME NEW v \in Workers \ {w} PROVE Keeps(v)
  <2>1. pc[v] \in Locked => addLock[grab[v].real] = v /\ v # Free
    BY GrabberAssumption DEF TorrentInv, WorkerOK, Free
  <2>2. pc[v] \in Locked => grab[v].real # grab[w].real
    BY <2>1 DEF LockRealHash
  <2>3. pc[v] \in Locked => addLock'[grab[v].real] = addLock[grab[v].real]
    BY <1>1, <2>2, GrabIsView DEF LockRealHash
  <2>. QED
    BY <2>3 DEF LockRealHash, Goto, TypeOK, GrabberTypeOK, Keeps
<1>3. WorkerOK(w)'
  <2>1. pc[w] = "lock" /\ pc'[w] = "scan" /\ grab' = grab /\ key' = key /\ addLock'[grab[w].real] = w
    BY <1>1 DEF LockRealHash, Goto, TypeOK, GrabberTypeOK
  <2>2. grab[w].real \in {key[w], PackOf(key[w])}
    BY <2>1 DEF TorrentInv, WorkerOK, Registering
  <2>. QED
    BY <2>1, <2>2 DEF WorkerOK
<1>. QED
  BY <1>2, <1>3, FrameBut, StillGrabs, StillTorrents DEF LockRealHash

\* A sibling of the same real hash either lives under another key of one
\* pack, or is the record itself; so what it has is what this grab may carry.
LEMMA OwnersShare ==
  ASSUME ClaimInv, TorrentInv, NEW w \in Workers, pc[w] = "scan", key[w] \in Hashes,
         grabs[key[w]].rd = NoTorrent, NEW k \in Owners(grab[w].real)
  PROVE  LET t == grabs[k].rd
         IN /\ t \in TorrentIds
            /\ torrents[t].status # "none"
            /\ torrents[t].hash \in Torrents =>
                 /\ torrents[t].hash = grab[w].real
                 /\ \A j \in Hashes : HasTorrentOf(j, grab[w].real) => grabs[j].rd = t
<1> DEFINE t == grabs[k].rd
           r == grab[w].real
<1>1. k \in Hashes /\ Stored(k) /\ grabs[k].real = r /\ t # NoTorrent
  BY DEF Owners, ByRealHash
<1>2. t \in TorrentIds /\ torrents[t].status # "none"
  BY <1>1 DEF TorrentInv, SharedOK, RDOK
<1>3. r \in {key[w], PackOf(key[w])} /\ r \in {k, PackOf(k)}
  BY <1>1 DEF TorrentInv, WorkerOK, Registering, Locked, SharedOK, RealOK
<1>4. r \in Torrents
  <2>1. k # key[w]
    BY <1>1
  <2>. QED
    BY <1>1, <1>3, <2>1, PackIsTorrent
<1>5. ASSUME torrents[t].hash \in Torrents
      PROVE  /\ torrents[t].hash = r
             /\ \A j \in Hashes : HasTorrentOf(j, r) => grabs[j].rd = t
  <2>1. torrents[t].hash = r
    BY <1>1, <1>4, <1>5 DEF TorrentInv, SharedOK, HashOK
  <2>2. HasTorrentOf(k, r)
    BY <1>1, <2>1 DEF HasTorrentOf
  <2>. QED
    BY <1>1, <1>4, <2>1, <2>2 DEF TorrentInv, SharedOK, SiblingsShareTorrent
<1>. QED
  BY <1>2, <1>5

LEMMA ScanSiblingsShares ==
  ASSUME ClaimInv, TorrentInv, NEW w \in Workers, ScanSiblings(w)
  PROVE  TorrentInv'
<1>. USE DEF ClaimInv
<1>1. pc[w] = "scan" /\ key[w] \in Hashes /\ UNCHANGED <<grabs, torrents, key>>
  BY BusyKey DEF ScanSiblings, Busy
<1>2. /\ grab[w].real \in {key[w], PackOf(key[w])}
      /\ addLock[grab[w].real] = w
  BY <1>1 DEF TorrentInv, WorkerOK, Registering, Locked
<1>3. \A v \in Workers \ {w} : pc'[v] = pc[v] /\ grab'[v] = grab[v] /\ key'[v] = key[v]
  BY DEF ScanSiblings, Goto, TypeOK, GrabberTypeOK
<1>4. \A v \in Workers \ {w} : Keeps(v)
  <2>1. CASE UNCHANGED addLock
    BY <1>3, <2>1 DEF Keeps
  <2>2. CASE Unlock(grab[w].real)
    BY <1>1, <1>3, <2>2, UnlockKeeps DEF Locked
  <2>. QED
    BY <2>1, <2>2 DEF ScanSiblings
<1>5. WorkerOK(w)'
  <2>1. CASE grabs[key[w]].rd # NoTorrent
    <3>1. pc'[w] = "probe"
      BY <2>1 DEF ScanSiblings, Goto, TypeOK, GrabberTypeOK
    <3>. QED
      BY <3>1 DEF WorkerOK, Registering, Locked
  <2>2. CASE grabs[key[w]].rd = NoTorrent /\ Owners(grab[w].real) = {}
    <3>1. pc'[w] = "adding" /\ grab' = grab /\ addLock' = addLock
      BY <2>2 DEF ScanSiblings, Goto, TypeOK, GrabberTypeOK
    <3>2. \A k \in Hashes : ~HasTorrentOf(k, grab[w].real)
      BY <2>2 DEF Owners, ByRealHash, HasTorrentOf
    <3>3. \A k \in Hashes : ~HasTorrentOf(k, grab[w].real)'
      BY <1>1, <3>1, <3>2 DEF HasTorrentOf, Stored
    <3>. QED
      BY <1>1, <1>2, <3>1, <3>3 DEF WorkerOK
  <2>3. CASE grabs[key[w]].rd = NoTorrent /\ Owners(grab[w].real) # {}
    <3>1. PICK k \in Owners(grab[w].real) : grab' = [grab EXCEPT ![w].rd = grabs[k].rd]
      BY <2>3 DEF ScanSiblings, FirstOwners
    <3>2. pc'[w] = "store" /\ addLock' = addLock
      BY <2>3 DEF ScanSiblings, Goto, TypeOK, GrabberTypeOK
    <3>3. grab'[w].real = grab[w].real /\ grab'[w].rd = grabs[k].rd
      BY <3>1, GrabIsView DEF TypeOK, GrabberTypeOK, View
    <3>4. CarriesOK(w)'
      BY <1>1, <2>3, <3>3, OwnersShare DEF CarriesOK, HasTorrentOf, Stored
    <3>. QED
      BY <1>1, <1>2, <3>2, <3>3, <3>4 DEF WorkerOK
  <2>. QED
    BY <2>1, <2>2, <2>3
<1>. QED
  BY <1>1, <1>4, <1>5, FrameBut, StillGrabs, StillTorrents

LEMMA AddMagnetShares ==
  ASSUME ClaimInv, TorrentInv, NEW w \in Workers, AddMagnet(w)
  PROVE  TorrentInv'
<1>. USE DEF ClaimInv
<1>1. pc[w] = "adding" /\ UNCHANGED <<grabs, key, addLock>>
  BY DEF AddMagnet
<1>2. PICK t \in TorrentIds : RDAddMagnet(t, grab[w].real) /\ grab' = [grab EXCEPT ![w].rd = t]
  BY DEF AddMagnet
<1>3. GrabsFade /\ TorrentsGrow
  BY <1>1, <1>2, AddMagnetGrows, StillGrabs
<1>4. \A v \in Workers \ {w} : Keeps(v)
  BY <1>2 DEF AddMagnet, Goto, TypeOK, GrabberTypeOK, Keeps
<1>5. /\ grab[w].real \in {key[w], PackOf(key[w])}
      /\ addLock[grab[w].real] = w
      /\ grab[w].real \in Torrents => \A k \in Hashes : ~HasTorrentOf(k, grab[w].real)
  BY <1>1 DEF TorrentInv, WorkerOK, Registering, Locked
<1>6. pc'[w] = "store" /\ grab'[w].real = grab[w].real /\ grab'[w].rd = t
  BY <1>2, GrabIsView DEF AddMagnet, Goto, TypeOK, GrabberTypeOK, View
<1>7. torrents'[t].status = "magnet_conversion" /\ torrents'[t].hash = grab[w].real
  BY <1>2 DEF RDAddMagnet, TypeOK, RDTypeOK
<1>8. ASSUME grab[w].real \in Torrents, NEW k \in Hashes
      PROVE  ~(HasTorrentOf(k, grab[w].real)')
  <2>1. ~HasTorrentOf(k, grab[w].real)
    BY <1>5, <1>8
  <2>2. HasTorrentOf(k, grab[w].real)' => HasTorrentOf(k, grab[w].real)
    BY <1>3, <1>6 DEF HasTorrentOf, TorrentInv, SharedOK, RDOK, GrabsFade, TorrentsGrow
  <2>. QED
    BY <2>1, <2>2
<1>9. CarriesOK(w)'
  BY <1>6, <1>7, <1>8 DEF CarriesOK
<1>10. WorkerOK(w)'
  BY <1>1, <1>5, <1>6, <1>9 DEF WorkerOK
<1>. QED
  BY <1>3, <1>4, <1>10, FrameBut

\* A goroutine that ends up outside of these stages accounts for itself.
LEMMA Outside ==
  ASSUME NEW w \in Workers, pc'[w] \notin Registering
  PROVE  Keeps(w) /\ WorkerOK(w)'
BY DEF Keeps, WorkerOK, Registering, Locked

LEMMA AddMagnetFailsShares ==
  ASSUME ClaimInv, TorrentInv, NEW w \in Workers, AddMagnetFails(w)
  PROVE  TorrentInv'
<1>. USE DEF ClaimInv
<1>1. pc[w] = "adding" /\ UNCHANGED <<grabs, key, grab>> /\ Unlock(grab[w].real)
  BY DEF AddMagnetFails
<1>2. pc' = [pc EXCEPT ![w] = "fail"]
  BY DEF AddMagnetFails, RaiseFault, Raise
<1>3. UNCHANGED torrents \/ \E t \in TorrentIds : RDAddMagnet(t, grab[w].real)
  BY DEF AddMagnetFails
<1>4. TorrentsGrow
  BY <1>3, AddMagnetGrows, StillTorrents
<1>5. ASSUME NEW v \in Workers \ {w} PROVE Keeps(v)
  <2>1. pc'[v] = pc[v]
    BY <1>2 DEF TypeOK, GrabberTypeOK
  <2>. QED
    BY <1>1, <2>1, UnlockKeeps DEF Locked
<1>6. pc'[w] = "fail"
  BY <1>2 DEF TypeOK, GrabberTypeOK
<1>7. WorkerOK(w)'
  BY <1>6, Outside DEF Registering, Locked
<1>. QED
  BY <1>1, <1>4, <1>5, <1>7, FrameBut, StillGrabs

\* Two real torrents do not meet under one key.
LEMMA OneTorrentPerKey ==
  ASSUME NEW k \in Hashes, NEW r \in {k, PackOf(k)} \intersect Torrents,
         NEW q \in {k, PackOf(k)} \intersect Torrents
  PROVE  r = q
BY PackIsTorrent

(***************************************************************************)
(* The id is stored.  The record may have become another one since the     *)
(* goroutine fetched it; the id is then of the torrent the new one is      *)
(* about, or of none.                                                      *)
(***************************************************************************)
LEMMA StoreTorrentShares ==
  ASSUME ClaimInv, TorrentInv, NEW w \in Workers, StoreTorrent(w)
  PROVE  TorrentInv'
<1>. USE DEF ClaimInv
<1> DEFINE K == key[w]
           t == grab[w].rd
           r == grab[w].real
<1>1. /\ pc[w] = "store" /\ K \in Hashes
      /\ UNCHANGED <<torrents, key, grab>> /\ Unlock(r)
  BY BusyKey DEF StoreTorrent, Busy
<1>2. pc' = [pc EXCEPT ![w] = "refetch"]
  BY DEF StoreTorrent, Goto
<1>3. /\ r \in {K, PackOf(K)}
      /\ t \in TorrentIds /\ torrents[t].status # "none"
      /\ torrents[t].hash \in Torrents =>
           torrents[t].hash = r /\ \A k \in Hashes : HasTorrentOf(k, r) => grabs[k].rd = t
  BY <1>1 DEF TorrentInv, WorkerOK, CarriesOK, Registering, Locked
<1>4. WorkerOK(w)'
  <2>1. pc'[w] = "refetch"
    BY <1>2 DEF TypeOK, GrabberTypeOK
  <2>. QED
    BY <2>1, Outside DEF Registering, Locked
<1>5. ASSUME NEW v \in Workers \ {w} PROVE Keeps(v) /\ pc'[v] = pc[v]
  <2>1. pc'[v] = pc[v]
    BY <1>2 DEF TypeOK, GrabberTypeOK
  <2>. QED
    BY <1>1, <2>1, UnlockKeeps DEF Locked
<1>6. CASE ~Stored(K)
  <2>1. UNCHANGED grabs
    BY <1>6 DEF StoreTorrent, Update
  <2>. QED
    BY <1>1, <1>4, <1>5, <2>1, FrameBut, StillGrabs, StillTorrents
<1>7. CASE Stored(K)
  <2>1. /\ \A k \in Hashes \ {K} : grabs'[k] = grabs[k]
        /\ grabs'[K].real = grabs[K].real /\ grabs'[K].rd = t /\ grabs'[K].state = "downloading"
    <3>1. grabs' = [grabs EXCEPT ![K] = [grabs[K] EXCEPT !.rd = t, !.state = "downloading"]]
      BY <1>7 DEF StoreTorrent, Update
    <3>2. grabs \in [Hashes -> Grab] /\ grabs[K] \in Grab
      BY <1>1 DEF TypeOK, StoreTypeOK
    <3>. QED
      BY <1>1, <3>1, <3>2 DEF Grab
  <2>2. RealOK'
    BY <2>1 DEF TorrentInv, SharedOK, RealOK
  <2>3. RDOK'
    BY <1>1, <1>3, <2>1 DEF TorrentInv, SharedOK, RDOK
  <2>4. HashOK'
    <3>1. SUFFICES ASSUME NEW k \in Hashes, grabs'[k].rd # NoTorrent, grabs'[k].real \in Torrents,
                          torrents[grabs'[k].rd].hash \in Torrents
                   PROVE  torrents[grabs'[k].rd].hash = grabs'[k].real
      BY <1>1 DEF HashOK
    <3>2. CASE k # K
      BY <2>1, <3>1, <3>2 DEF TorrentInv, SharedOK, HashOK
    <3>3. CASE k = K
      <4>1. torrents[t].hash = r /\ r \in Torrents
        BY <1>3, <2>1, <3>1, <3>3
      <4>2. grabs[K].real \in {K, PackOf(K)} /\ grabs[K].real \in Torrents
        BY <1>1, <2>1, <3>1, <3>3 DEF TorrentInv, SharedOK, RealOK
      <4>3. grabs[K].real = r
        BY <1>1, <1>3, <4>1, <4>2, OneTorrentPerKey
      <4>. QED
        BY <2>1, <3>3, <4>1, <4>3
    <3>. QED
      BY <3>2, <3>3
  <2>5. ASSUME NEW q \in Torrents, NEW k \in Hashes, HasTorrentOf(k, q)'
        PROVE  \/ k # K /\ HasTorrentOf(k, q) /\ grabs'[k].rd = grabs[k].rd
               \/ k = K /\ q = r /\ torrents[t].hash = r /\ grabs'[k].rd = t
    <3>1. CASE k # K
      BY <1>1, <2>1, <2>5, <3>1 DEF HasTorrentOf, Stored
    <3>2. CASE k = K
      BY <1>1, <1>3, <2>1, <2>5, <3>2 DEF HasTorrentOf
    <3>. QED
      BY <3>1, <3>2
  <2>6. SiblingsShareTorrent'
    <3>1. SUFFICES ASSUME NEW q \in Torrents, NEW j \in Hashes, NEW k \in Hashes,
                          HasTorrentOf(j, q)', HasTorrentOf(k, q)'
                   PROVE  grabs'[j].rd = grabs'[k].rd
      BY DEF SiblingsShareTorrent
    <3>2. \/ j # K /\ HasTorrentOf(j, q) /\ grabs'[j].rd = grabs[j].rd
          \/ j = K /\ q = r /\ torrents[t].hash = r /\ grabs'[j].rd = t
      BY <2>5, <3>1
    <3>3. \/ k # K /\ HasTorrentOf(k, q) /\ grabs'[k].rd = grabs[k].rd
          \/ k = K /\ q = r /\ torrents[t].hash = r /\ grabs'[k].rd = t
      BY <2>5, <3>1
    <3>4. q = r /\ torrents[t].hash = r => \A h \in Hashes : HasTorrentOf(h, q) => grabs[h].rd = t
      BY <1>3
    <3>. QED
      BY <3>2, <3>3, <3>4 DEF TorrentInv, SharedOK, SiblingsShareTorrent
  <2>7. ASSUME NEW v \in Workers \ {w} PROVE WorkerOK(v)'
    <3>1. /\ WorkerOK(v) /\ pc'[v] = pc[v] /\ Keeps(v)
          /\ grab'[v] = grab[v] /\ key'[v] = key[v]
      BY <1>1, <1>5 DEF TorrentInv
    <3>2. pc[v] \in Locked => grab[v].real # r
      BY <1>1, OneHolder DEF Locked
    <3>3. pc'[v] \in Registering => grab'[v].real \in {key'[v], PackOf(key'[v])}
      BY <3>1 DEF WorkerOK
    <3>4. pc'[v] \in Locked => addLock'[grab'[v].real] = v
      BY <3>1 DEF WorkerOK, Keeps, Registering
    <3>5. ASSUME pc'[v] = "adding", grab'[v].real \in Torrents, NEW k \in Hashes
          PROVE  ~(HasTorrentOf(k, grab[v].real)')
      BY <2>5, <3>1, <3>2, <3>5 DEF WorkerOK, Locked
    <3>6. ASSUME pc'[v] = "store" PROVE CarriesOK(v)'
      <4>1. pc[v] = "store" /\ CarriesOK(v) /\ grab[v].real # r
        BY <3>1, <3>2, <3>6 DEF WorkerOK, Locked
      <4>2. ASSUME torrents[grab[v].rd].hash \in Torrents, NEW k \in Hashes,
                   HasTorrentOf(k, grab[v].real)'
            PROVE  grabs'[k].rd = grab[v].rd
        <5>1. grab[v].real \in Torrents
          BY <4>1, <4>2 DEF CarriesOK
        <5>2. HasTorrentOf(k, grab[v].real) /\ grabs'[k].rd = grabs[k].rd
          BY <2>5, <3>1, <4>1, <4>2, <5>1
        <5>. QED
          BY <4>1, <4>2, <5>2 DEF CarriesOK
      <4>. QED
        BY <1>1, <3>1, <4>1, <4>2 DEF CarriesOK
    <3>7. pc'[v] = "adding" /\ grab'[v].real \in Torrents =>
            \A k \in Hashes : ~(HasTorrentOf(k, grab[v].real)')
      BY <3>5
    <3>. QED
      BY <3>1, <3>3, <3>4, <3>6, <3>7 DEF WorkerOK, HasTorrentOf
  <2>. QED
    BY <1>4, <2>2, <2>3, <2>4, <2>6, <2>7 DEF TorrentInv, SharedOK
<1>. QED
  BY <1>6, <1>7

-------------------------------------------------------------------------------
(***************************************************************************)
(* The steps outside the mutex: the goroutine goes on to another stage     *)
(* outside of it, or ends.                                                 *)
(***************************************************************************)
MovesOn(w) ==
  /\ UNCHANGED addLock
  /\ \E stage \in Stages \ Registering : pc' = [pc EXCEPT ![w] = stage]
  /\ \A v \in Workers \ {w} : grab'[v] = grab[v] /\ key'[v] = key[v]

LEMMA MovesOnShares ==
  ASSUME ClaimInv, TorrentInv, NEW w \in Workers, MovesOn(w), GrabsFade, TorrentsGrow
  PROVE  TorrentInv'
<1>1. PICK stage \in Stages \ Registering : pc' = [pc EXCEPT ![w] = stage]
  BY DEF MovesOn
<1>2. pc'[w] \notin Registering /\ \A v \in Workers \ {w} : pc'[v] = pc[v]
  BY <1>1 DEF ClaimInv, TypeOK, GrabberTypeOK
<1>3. \A v \in Workers \ {w} : Keeps(v)
  BY <1>2 DEF MovesOn, Keeps
<1>4. WorkerOK(w)'
  BY <1>2, Outside
<1>. QED
  BY <1>3, <1>4, FrameBut

\* A goroutine that goes on with what it has, one that fails, one that ends.
LEMMA GotoMoves ==
  ASSUME NEW w \in Workers, NEW stage \in Stages \ Registering, Goto(w, stage),
         UNCHANGED <<addLock, grab, key>>
  PROVE  MovesOn(w)
BY DEF Goto, MovesOn

LEMMA RaiseMoves ==
  ASSUME NEW w \in Workers, NEW permanent, Raise(w, permanent), UNCHANGED <<addLock, grab, key>>
  PROVE  MovesOn(w)
BY DEF Raise, MovesOn, Stages, Registering, Locked

LEMMA FinishMoves ==
  ASSUME TypeOK, NEW w \in Workers, Finish(w), UNCHANGED addLock
  PROVE  MovesOn(w)
BY DEF Finish, MovesOn, Stages, Registering, Locked, TypeOK, GrabberTypeOK

LEMMA RefetchMoves ==
  ASSUME TypeOK, NEW w \in Workers, Refetch(w)
  PROVE  MovesOn(w)
BY DEF Refetch, Goto, MovesOn, Stages, Registering, Locked, TypeOK, GrabberTypeOK

LEMMA ProbeMoves ==
  ASSUME TypeOK, NEW w \in Workers, Probe(w)
  PROVE  MovesOn(w)
<1>1. \/ \E permanent \in BOOLEAN : Raise(w, permanent) /\ UNCHANGED <<grab, key>>
      \/ Goto(w, "select") /\ UNCHANGED <<grab, key>>
      \/ Goto(w, "mkdir") /\ UNCHANGED <<grab, key>>
      \/ Finish(w)
  BY DEF Probe
<1>2. UNCHANGED addLock
  BY DEF Probe
<1>3. {"select", "mkdir"} \subseteq Stages \ Registering
  BY DEF Stages, Registering, Locked
<1>. QED
  BY <1>1, <1>2, <1>3, GotoMoves, RaiseMoves, FinishMoves

LEMMA ChooseFilesMoves ==
  ASSUME NEW w \in Workers, ChooseFiles(w)
  PROVE  MovesOn(w)
<1>1. Raise(w, FALSE) \/ Goto(w, "selecting")
  BY DEF ChooseFiles
<1>2. UNCHANGED <<addLock, grab, key>> /\ "selecting" \in Stages \ Registering
  BY DEF ChooseFiles, Stages, Registering, Locked
<1>. QED
  BY <1>1, <1>2, GotoMoves, RaiseMoves

LEMMA NextFileMoves ==
  ASSUME NEW w \in Workers, NextFile(w)
  PROVE  MovesOn(w)
<1>1. UNCHANGED <<addLock, grab, key>> /\ {"ready", "link", "download"} \subseteq Stages \ Registering
  BY DEF NextFile, Stages, Registering, Locked
<1>2. \E stage \in {"ready", "link", "download"} : Goto(w, stage)
  BY DEF NextFile
<1>. QED
  BY <1>1, <1>2, GotoMoves

LEMMA FileStepMoves ==
  ASSUME NEW w \in Workers, Download(w) \/ Rename(w) \/ Link(w) \/ MkdirAll(w)
  PROVE  MovesOn(w)
<1>1. Raise(w, FALSE) \/ \E stage \in {"rename", "link", "file"} : Goto(w, stage)
  BY DEF Download, Rename, Link, MkdirAll
<1>2. {"rename", "link", "file"} \subseteq Stages \ Registering
  BY DEF Stages, Registering, Locked
<1>3. UNCHANGED <<addLock, grab, key>>
  BY DEF Download, Rename, Link, MkdirAll
<1>. QED
  BY <1>1, <1>2, <1>3, GotoMoves, RaiseMoves

LEMMA FailureStepMoves ==
  ASSUME TypeOK, NEW w \in Workers, MarkError(w) \/ PollSonarr(w) \/ RemoveAndBlocklist(w)
  PROVE  MovesOn(w)
<1>1. \/ Finish(w)
      \/ UNCHANGED <<pc, grab, key>> /\ pc[w] = "poll"
      \/ \E stage \in {"poll", "blocklist", "clear"} : Goto(w, stage) /\ UNCHANGED <<grab, key>>
  BY DEF MarkError, PollSonarr, RemoveAndBlocklist
<1>2. {"poll", "blocklist", "clear"} \subseteq Stages \ Registering
  BY DEF Stages, Registering, Locked
<1>3. UNCHANGED addLock
  BY DEF MarkError, PollSonarr, RemoveAndBlocklist
<1>4. ASSUME UNCHANGED <<pc, grab, key>>, pc[w] = "poll" PROVE MovesOn(w)
  <2>1. pc' = [pc EXCEPT ![w] = "poll"]
    BY <1>4 DEF TypeOK, GrabberTypeOK
  <2>. QED
    BY <1>2, <1>3, <1>4, <2>1 DEF MovesOn
<1>. QED
  BY <1>1, <1>2, <1>3, <1>4, GotoMoves, FinishMoves

LEMMA WorkerShares ==
  ASSUME ClaimInv, TorrentInv, NEW w \in Workers, Step(w)
  PROVE  TorrentInv'
<1>. USE DEF ClaimInv
<1>1. CASE \/ GetGrab(w) \/ LockRealHash(w) \/ ScanSiblings(w) \/ AddMagnet(w)
           \/ AddMagnetFails(w) \/ StoreTorrent(w)
  BY <1>1, GetGrabShares, LockRealHashShares, ScanSiblingsShares, AddMagnetShares,
     AddMagnetFailsShares, StoreTorrentShares
<1>2. CASE Refetch(w)
  BY <1>2, RefetchMoves, MovesOnShares, StillGrabs, StillTorrents DEF Refetch
<1>3. CASE Probe(w)
  BY <1>3, ProbeMoves, MovesOnShares, StillGrabs, StillTorrents DEF Probe
<1>4. CASE CallFails(w) \/ StreamFails(w)
  <2>1. MovesOn(w)
    BY <1>4, RaiseMoves DEF CallFails, StreamFails, RaiseFault
  <2>. QED
    BY <1>4, <2>1, MovesOnShares, StillGrabs, StillTorrents DEF CallFails, StreamFails
<1>5. CASE ChooseFiles(w)
  BY <1>5, ChooseFilesMoves, MovesOnShares, StillGrabs, StillTorrents DEF ChooseFiles
<1>6. CASE SelectFiles(w)
  <2>1. MovesOn(w) /\ RDSelect(grab[w].rd, todo[w])
    BY <1>6, FinishMoves DEF SelectFiles
  <2>2. grab[w].rd \in TorrentIds \union {NoTorrent}
    BY GrabIsView
  <2>3. TorrentsGrow
    BY <2>1, <2>2, SelectGrows
  <2>. QED
    BY <1>6, <2>1, <2>3, MovesOnShares, StillGrabs DEF SelectFiles
<1>7. CASE MkdirAll(w) \/ Download(w) \/ Rename(w) \/ Link(w)
  <2>1. MovesOn(w)
    BY <1>7, FileStepMoves
  <2>2. UNCHANGED <<grabs, torrents>>
    BY <1>7 DEF MkdirAll, Download, Rename, Link
  <2>. QED
    BY <2>1, <2>2, MovesOnShares, StillGrabs, StillTorrents
<1>8. CASE NextFile(w)
  BY <1>8, NextFileMoves, MovesOnShares, StillGrabs, StillTorrents DEF NextFile
<1>9. CASE MarkReady(w)
  <2>1. MovesOn(w) /\ GrabsFade
    BY <1>9, FinishMoves, SetStateFades, BusyKey DEF MarkReady, Busy
  <2>. QED
    BY <1>9, <2>1, MovesOnShares, StillTorrents DEF MarkReady
<1>10. CASE MarkError(w)
  <2>1. MovesOn(w) /\ GrabsFade
    BY <1>10, FailureStepMoves, SetStateFades, BusyKey DEF MarkError, Busy
  <2>. QED
    BY <1>10, <2>1, MovesOnShares, StillTorrents DEF MarkError
<1>11. CASE PollSonarr(w) \/ RemoveAndBlocklist(w)
  <2>1. MovesOn(w) /\ UNCHANGED <<grabs, torrents>>
    BY <1>11, FailureStepMoves DEF PollSonarr, RemoveAndBlocklist
  <2>. QED
    BY <2>1, MovesOnShares, StillGrabs, StillTorrents
<1>12. CASE ClearGrab(w)
  <2>1. MovesOn(w) /\ GrabsFade
    BY <1>12, FinishMoves, DeleteFades, BusyKey DEF ClearGrab, Busy
  <2>. QED
    BY <1>12, <2>1, MovesOnShares, StillTorrents DEF ClearGrab
<1>. QED
  BY <1>1, <1>2, <1>3, <1>4, <1>5, <1>6, <1>7, <1>8, <1>9, <1>10, <1>11, <1>12 DEF Step

LEMMA TickShares ==
  ASSUME ClaimInv, TorrentInv, NEW k \in Hashes, RunTick(k)
  PROVE  TorrentInv'
<1>. USE DEF ClaimInv
<1>1. PICK w \in Workers : Tick(w, k)
  BY DEF RunTick
<1>2. MovesOn(w)
  BY <1>1 DEF Tick, Goto, MovesOn, Stages, Registering, Locked, TypeOK, GrabberTypeOK
<1>. QED
  BY <1>1, <1>2, MovesOnShares, StillGrabs, StillTorrents DEF Tick

\* A step in which no goroutine takes part.
LEMMA NoWorker ==
  ASSUME TorrentInv, GrabsFade, TorrentsGrow, UNCHANGED <<addLock, pc, key, grab>>
  PROVE  TorrentInv'
<1>1. \A w \in Workers : Keeps(w)
  BY DEF Keeps
<1>. QED
  BY <1>1, Frame

LEMMA RDShares ==
  ASSUME ClaimInv, TorrentInv, NEW t \in TorrentIds, RunRealDebrid(t) \/ TorrentDies(t)
  PROVE  TorrentInv'
<1>1. TorrentsGrow
  BY RDStepGrows DEF ClaimInv, RunRealDebrid, TorrentDies
<1>2. RDStill
  BY DEF RunRealDebrid, TorrentDies
<1>. QED
  BY <1>1, <1>2, NoWorker, StillGrabs DEF RDStill

-------------------------------------------------------------------------------
\* The handlers: what they put is about its key or its key's pack.
LEMMA SearchShares ==
  ASSUME ClaimInv, TorrentInv, NEW s \in Searchers, RunSearch(s)
  PROVE  TorrentInv'
<1>. USE DEF ClaimInv
<1>1. SearchStep(s) /\ UNCHANGED <<torrents, addLock, pc, key, grab>>
  BY DEF RunSearch, GrabberIdle
<1>2. CASE RegisterPut(s)
  <2>1. search[s].pack \in Packs /\ search[s].season \in Seasons
    BY <1>2, ReleasesAssumption DEF RegisterPut, SearchOK, Seasons, TypeOK, ShimTypeOK
  <2>2. Advertised(s) \in Hashes /\ search[s].pack = PackOf(Advertised(s))
    BY <2>1, SyntheticHash DEF Advertised
  <2>3. GrabsFade
    BY <1>2, <2>2, PutNewFades DEF RegisterPut
  <2>. QED
    BY <1>1, <2>3, NoWorker, StillTorrents
<1>3. CASE RegisterGet(s) \/ SearchDone(s)
  <2>1. UNCHANGED grabs
    BY <1>3 DEF RegisterGet, SearchDone
  <2>. QED
    BY <1>1, <2>1, NoWorker, StillGrabs, StillTorrents
<1>. QED
  BY <1>1, <1>2, <1>3 DEF SearchStep

LEMMA AddShares ==
  ASSUME ClaimInv, TorrentInv, NEW a \in Adders, RunAdd(a)
  PROVE  TorrentInv'
<1>. USE DEF ClaimInv
<1>1. AddWrite(a) /\ UNCHANGED <<torrents, addLock, pc, key, grab>>
  BY DEF RunAdd, GrabberIdle
<1>2. add[a].key \in Hashes
  BY DEF TypeOK, ShimTypeOK
<1>3. GrabsFade
  BY <1>1, <1>2, SetStateFades, PutNewFades DEF AddWrite
<1>. QED
  BY <1>1, <1>3, NoWorker, StillTorrents

LEMMA DeleteShares ==
  ASSUME ClaimInv, TorrentInv, NEW d \in Deleters, RunDelete(d)
  PROVE  TorrentInv'
<1>. USE DEF ClaimInv
<1>1. DeleteStep(d) /\ UNCHANGED <<torrents, addLock, pc, key, grab>>
  BY DEF RunDelete, GrabberIdle
<1>2. del[d].key \in Hashes
  BY DEF TypeOK, ShimTypeOK
<1>3. DeleteRecord(d) \/ UNCHANGED grabs
  BY <1>1 DEF DeleteStep, DeleteGet, DeleteTree, DeleteCount, DeleteCache
<1>4. GrabsFade
  BY <1>2, <1>3, DeleteFades, StillGrabs DEF DeleteRecord
<1>. QED
  BY <1>1, <1>4, NoWorker, StillTorrents

\* A request that comes in writes nothing yet.
LEMMA RequestShares ==
  ASSUME TorrentInv,
         \/ \E s \in Searchers, p \in Packs : Search(s, p)
         \/ \E a \in Adders, k \in Hashes : Add(a, k)
         \/ \E d \in Deleters, k \in Hashes : DeleteGrab(d, k)
  PROVE  TorrentInv'
<1>1. UNCHANGED <<grabs, torrents, addLock, pc, key, grab>>
  BY DEF Search, SearchStart, Add, AddGet, DeleteGrab, DeleteStart, GrabberIdle
<1>. QED
  BY <1>1, NoWorker, StillGrabs, StillTorrents

\* After a restart nobody is in a mutex; the store is what it was.
LEMMA RestartShares ==
  ASSUME TorrentInv, Restart
  PROVE  TorrentInv'
<1>1. \A w \in Workers : Keeps(w)
  BY DEF Restart, GrabberRestart, Keeps, Registering, Locked
<1>. QED
  BY <1>1, Frame, StillGrabs, StillTorrents DEF Restart

LEMMA InitTorrents == Init => TorrentInv
<1>. SUFFICES ASSUME Init PROVE TorrentInv
  OBVIOUS
<1>1. \A k \in Hashes : grabs[k].rd = NoTorrent /\ grabs[k].real = k
  BY DEF Init, StoreInit, Absent
<1>2. SharedOK
  BY <1>1 DEF SharedOK, RealOK, RDOK, HashOK, SiblingsShareTorrent, HasTorrentOf
<1>3. \A w \in Workers : WorkerOK(w)
  BY DEF Init, GrabberInit, WorkerOK, Registering, Locked
<1>. QED
  BY <1>2, <1>3 DEF TorrentInv

LEMMA NextTorrents == ClaimInv /\ TorrentInv /\ [Next]_vars => TorrentInv'
<1>. SUFFICES ASSUME ClaimInv, TorrentInv, [Next]_vars PROVE TorrentInv'
  OBVIOUS
<1>1. CASE \E k \in Hashes : RunTick(k)
  BY <1>1, TickShares
<1>2. CASE \E w \in Workers : RunWorker(w)
  BY <1>2, WorkerShares DEF RunWorker
<1>3. CASE \E t \in TorrentIds : RunRealDebrid(t) \/ TorrentDies(t)
  BY <1>3, RDShares
<1>4. CASE \/ \E s \in Searchers, p \in Packs : Search(s, p)
           \/ \E a \in Adders, k \in Hashes : Add(a, k)
           \/ \E d \in Deleters, k \in Hashes : DeleteGrab(d, k)
  BY <1>4, RequestShares
<1>5. CASE \E s \in Searchers : RunSearch(s)
  BY <1>5, SearchShares
<1>6. CASE \E a \in Adders : RunAdd(a)
  BY <1>6, AddShares
<1>7. CASE \E d \in Deleters : RunDelete(d)
  BY <1>7, DeleteShares
<1>8. CASE Crash \/ Panic
  BY <1>8, RestartShares DEF Crash, Panic
<1>9. CASE UNCHANGED vars
  BY <1>9, NoWorker, StillGrabs, StillTorrents DEF vars
<1>. QED
  BY <1>1, <1>2, <1>3, <1>4, <1>5, <1>6, <1>7, <1>8, <1>9 DEF Next

\* Both invariants hold in every reachable state.
THEOREM TorrentInvariant == Spec => [](ClaimInv /\ TorrentInv)
<1>1. Init => ClaimInv /\ TorrentInv
  BY InitClaim, InitTorrents
<1>2. (ClaimInv /\ TorrentInv) /\ [Next]_vars => (ClaimInv /\ TorrentInv)'
  BY NextClaim, NextTorrents
<1>. QED
  BY <1>1, <1>2, PTL DEF Spec

(***************************************************************************)
(* Siblings of one pack share one Real-Debrid torrent (addMagnet's sibling *)
(* scan under rdAddLocks), through deletes, new adds, faults and crashes.  *)
(***************************************************************************)
THEOREM OneTorrentPerPack == Spec => []SiblingsShareTorrent
<1>1. TorrentInv => SiblingsShareTorrent
  BY DEF TorrentInv, SharedOK
<1>. QED
  BY <1>1, TorrentInvariant, PTL

(***************************************************************************)
(* No goroutine is in addMagnet for a torrent whose id a grab has already  *)
(* (grabber.go, the scan and the call inside rdAddLocks' mutex).           *)
(***************************************************************************)
THEOREM AddMagnetIsGuarded == Spec => []AddMagnetGuarded
<1>1. TorrentInv => AddMagnetGuarded
  BY DEF TorrentInv, WorkerOK, AddMagnetGuarded
<1>. QED
  BY <1>1, TorrentInvariant, PTL
===============================================================================
