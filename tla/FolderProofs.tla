----------------------------- MODULE FolderProofs -----------------------------
(***************************************************************************)
(* Why a season's folder holds that season's files only (SeasonIsolation)  *)
(* and why a ready grab keeps what was fetched for it (ReadyHasSelected),  *)
(* for every value of the constants.                                       *)
(*                                                                         *)
(* A goroutine works with what it read of its grab long ago, from a cache  *)
(* it shares with the siblings of the grab, while searches, adds and       *)
(* deletes rewrite the store.  For a grab that is not disturbed, what the  *)
(* goroutine has read stays true of the record, the torrent it probed is   *)
(* the record's, and each file it is done with is in the folder and stays  *)
(* there: a delete that would take it has counted this grab among those    *)
(* that share the cache, or has disturbed it.                              *)
(***************************************************************************)
EXTENDS SiblingProofs

\* From the probe to the end of materialise, and all that rests on a view.
Materialising == {"mkdir", "file", "download", "rename", "link", "ready"}
Probing == {"probe"} \union Materialising
Handling == Registering \union Probing \union {"select", "selecting"}

-------------------------------------------------------------------------------
\* A record is a passthrough grab's or a season's of a pack, and names its
\* key either way.
KindOK(k) ==
  /\ ~Stored(k) => grabs[k] = Absent(k)
  /\ \/ grabs[k].real = k /\ grabs[k].season = 0
     \/ /\ grabs[k].real \in Packs /\ grabs[k].season \in Seasons
        /\ k = SyntheticInfohash(grabs[k].real, grabs[k].season)

\* Its id is of a torrent it is about, or of one that never resolves.
IdOK(k) ==
  k \notin disturbed /\ grabs[k].rd # NoTorrent /\ torrents[grabs[k].rd].hash \in Torrents =>
    torrents[grabs[k].rd].hash = grabs[k].real

\* A torrent that has got past its magnet is a real one.
TorrentOK(t) ==
  /\ torrents[t].status \in {"waiting_files_selection", "downloading", "downloaded"} =>
       torrents[t].hash \in Torrents
  /\ torrents[t].selected \subseteq FilesOf(torrents[t].hash)

\* The grab's folder has f, through the cache of the grab's own torrent.
Has(k, f) ==
  \/ f \in saved[k].hard
  \/ <<grabs[k].real, f>> \in saved[k].soft /\ f \in cache[grabs[k].real].files

\* f belongs under key k: the season of a synthetic key decides.
Own(k, f) ==
  \A p \in Packs, s \in Seasons \ {0} :
    k = SyntheticInfohash(p, s) => SeasonOf[f] = s /\ TorrentOf[f] = p

FolderOK(k) ==
  /\ ~saved[k].dir => saved[k] = NoSaved
  /\ k \notin disturbed =>
       /\ \A f \in saved[k].hard : Own(k, f)
       /\ \A x \in saved[k].soft : Own(k, x[2])

ReadyOK(k) ==
  k \notin disturbed /\ grabs[k].state = "ready" /\ grabs[k].rd # NoTorrent =>
    /\ torrents[grabs[k].rd].status = "downloaded"
    /\ \A f \in torrents[grabs[k].rd].selected :
         grabs[k].season \in {0, SeasonOf[f]} => Has(k, f)

\* A delete past its folder's removal, and one about to remove a cache.
DeleteOK(d) ==
  /\ del[d].pc = "count" =>
       \A k \in Hashes :
         k = del[d].key /\ Stored(k) /\ grabs[k].real = del[d].real => k \in disturbed
  /\ del[d].pc = "cache" =>
       \A k \in Hashes : Stored(k) /\ grabs[k].real = del[d].real => k \in disturbed

\* What a goroutine has read is still so.
ViewOK(w) ==
  pc[w] \in Registering \union Probing /\ key[w] \notin disturbed =>
    /\ Stored(key[w])
    /\ grab[w].real = grabs[key[w]].real
    /\ grab[w].season = grabs[key[w]].season

ProbeOK(w) ==
  LET t == grab[w].rd
  IN /\ pc[w] \in Probing \union {"select", "selecting"} /\ t # NoTorrent =>
          torrents[t].status # "none"
     /\ pc[w] \in {"select", "selecting"} => t # NoTorrent
     /\ pc[w] = "selecting" => todo[w] \subseteq FilesOf(torrents[t].hash)
     /\ pc[w] \in Probing /\ key[w] \notin disturbed =>
          /\ grabs[key[w]].rd \in {NoTorrent, t}
          /\ t # NoTorrent /\ torrents[t].hash \in Torrents => torrents[t].hash = grab[w].real

\* materialise: what is not left to do is done.
FilesOK(w) ==
  LET t == grab[w].rd
  IN /\ pc[w] \in Materialising => t # NoTorrent /\ torrents[t].status = "downloaded"
     /\ pc[w] \in Materialising /\ key[w] \notin disturbed =>
          /\ todo[w] \subseteq Wanted(w, t)
          /\ \A f \in Wanted(w, t) \ todo[w] : Has(key[w], f)
     /\ pc[w] = "link" /\ key[w] \notin disturbed => CurrentFile(w) \in cache[grab[w].real].files
     /\ pc[w] = "ready" => todo[w] = {}

HandOK(w) == ViewOK(w) /\ ProbeOK(w) /\ FilesOK(w)

\* The inductive invariant, on top of ClaimInv and TorrentInv.
FolderInv ==
  /\ \A k \in Hashes : KindOK(k) /\ IdOK(k) /\ FolderOK(k) /\ ReadyOK(k)
  /\ \A t \in TorrentIds : TorrentOK(t)
  /\ \A w \in Workers : HandOK(w)
  /\ \A d \in Deleters : DeleteOK(d)

-------------------------------------------------------------------------------
(***************************************************************************)
(* What most steps do to a record, to a torrent, to the files of a grab    *)
(* and to what a goroutine or a delete holds.                              *)
(***************************************************************************)
RecordKept(k) ==
  /\ KindOK(k)'
  /\ grabs'[k].rd # NoTorrent => grabs'[k].rd = grabs[k].rd /\ grabs'[k].real = grabs[k].real
  /\ grabs'[k].state = "ready" => grabs[k].state = "ready"

TorrentKept(t) ==
  /\ TorrentOK(t)'
  /\ torrents[t].status # "none" =>
       torrents'[t].status # "none" /\ torrents'[t].hash = torrents[t].hash
  /\ torrents[t].status = "downloaded" => torrents'[t] = torrents[t]

FilesKept(k) ==
  /\ FolderOK(k)'
  /\ k \notin disturbed' /\ SameTorrent(k) =>
       /\ cache[grabs[k].real].files \subseteq cache'[grabs[k].real].files
       /\ \A f \in Files : Has(k, f) => Has(k, f)'

HandKept(w) ==
  /\ pc'[w] = pc[w] /\ key'[w] = key[w] /\ grab'[w] = grab[w] /\ todo'[w] = todo[w]
  /\ \A k \in Hashes : k = key[w] => RecordKept(k)

DelKept(d) == del'[d] = del[d]

\* Where every step starts from.
Stepping == ClaimInv /\ ClaimInv' /\ TorrentInv /\ FolderInv /\ Observe

-------------------------------------------------------------------------------
\* A grab that is still around is not disturbed only if nothing disturbed it.
LEMMA Undisturbed ==
  ASSUME Observe, NEW k \in Hashes, k \notin disturbed',
         Stored(k)' \/ k \in inflight' \/ saved'[k].dir
  PROVE  k \notin disturbed /\ k \notin Disturb
BY DEF Observe

LEMMA StaysDisturbed ==
  ASSUME Observe, NEW k \in Hashes, k \in disturbed \/ k \in Disturb, Stored(k)'
  PROVE  k \in disturbed'
BY DEF Observe

\* A grab in flight keeps its record, or is disturbed.
LEMMA InFlightSame ==
  ASSUME Observe, NEW k \in Hashes, Stored(k), k \in inflight', k \notin disturbed'
  PROVE  SameTorrent(k)
<1>1. k \notin Disturb
  BY Undisturbed
<1>. QED
  BY <1>1 DEF Disturb

\* One key has one season for each torrent it can be about.
LEMMA SameSeason ==
  ASSUME NEW k \in Hashes, KindOK(k), KindOK(k)', grabs'[k].real = grabs[k].real
  PROVE  grabs'[k].season = grabs[k].season
<1>1. ASSUME NEW p \in Packs, NEW s \in Seasons, k = SyntheticInfohash(p, s) PROVE k # p
  BY <1>1, SyntheticHash, ReleasesAssumption
<1>2. ASSUME NEW p \in Packs, NEW s \in Seasons, NEW n \in Seasons,
             SyntheticInfohash(p, s) = SyntheticInfohash(p, n)
      PROVE  s = n
  BY <1>2 DEF SyntheticInfohash
<1>. QED
  BY <1>1, <1>2 DEF KindOK

LEMMA BusyStays ==
  ASSUME ClaimInv', NEW w \in Workers, pc'[w] # "idle"
  PROVE  key'[w] \in Hashes /\ key'[w] \in inflight'
<1>1. inflight' = {key'[v] : v \in {u \in Workers : pc'[u] # "idle"}} /\ inflight' \subseteq Hashes
  BY DEF ClaimInv, OneAdvancePerGrab, Busy, TypeOK, GrabberTypeOK
<1>. QED
  BY <1>1

LEMMA SameCurrentFile ==
  ASSUME NEW w \in Workers, todo'[w] = todo[w]
  PROVE  CurrentFile(w)' = CurrentFile(w)
BY DEF CurrentFile

LEMMA SelectedAreFiles ==
  ASSUME TypeOK, NEW t \in TorrentIds
  PROVE  torrents[t].selected \subseteq Files
BY DEF TypeOK, RDTypeOK, Torrent

-------------------------------------------------------------------------------
\* A record that is kept keeps what is said of it.
LEMMA RecordFrame ==
  ASSUME Stepping, NEW k \in Hashes, RecordKept(k), FilesKept(k),
         \A t \in TorrentIds : TorrentKept(t)
  PROVE  IdOK(k)' /\ ReadyOK(k)'
<1>1. CASE grabs'[k].rd = NoTorrent \/ k \in disturbed'
  BY <1>1 DEF IdOK, ReadyOK
<1>2. CASE grabs'[k].rd # NoTorrent /\ k \notin disturbed'
  <2> DEFINE t == grabs[k].rd
  <2>1. t = grabs'[k].rd /\ grabs'[k].real = grabs[k].real
    BY <1>2 DEF RecordKept
  <2>2. Stored(k)' /\ Stored(k)
    BY <1>2, <2>1 DEF RecordKept, Stepping, FolderInv, KindOK, Absent
  <2>3. k \notin disturbed
    BY <1>2, <2>2, Undisturbed DEF Stepping
  <2>4. t \in TorrentIds /\ torrents[t].status # "none"
    BY <1>2, <2>1 DEF Stepping, TorrentInv, SharedOK, RDOK
  <2>5. torrents'[t].hash = torrents[t].hash
    BY <2>4 DEF TorrentKept
  <2>6. IdOK(k)'
    BY <1>2, <2>1, <2>3, <2>5 DEF Stepping, FolderInv, IdOK
  <2>7. ASSUME grabs'[k].state = "ready"
        PROVE  /\ torrents'[t].status = "downloaded"
               /\ \A f \in torrents'[t].selected : grabs'[k].season \in {0, SeasonOf[f]} => Has(k, f)'
    <3>1. /\ torrents[t].status = "downloaded"
          /\ \A f \in torrents[t].selected : grabs[k].season \in {0, SeasonOf[f]} => Has(k, f)
      BY <1>2, <2>1, <2>3, <2>7 DEF RecordKept, Stepping, FolderInv, ReadyOK
    <3>2. torrents'[t] = torrents[t]
      BY <2>4, <3>1 DEF TorrentKept
    <3>3. grabs'[k].season = grabs[k].season
      BY <2>1, SameSeason DEF RecordKept, Stepping, FolderInv
    <3>4. \A f \in Files : Has(k, f) => Has(k, f)'
      BY <1>2, <2>1, <2>2 DEF FilesKept, SameTorrent
    <3>5. torrents[t].selected \subseteq Files
      BY <2>4, SelectedAreFiles DEF Stepping, ClaimInv
    <3>. QED
      BY <3>1, <3>2, <3>3, <3>4, <3>5
  <2>8. ReadyOK(k)'
    BY <2>1, <2>7 DEF ReadyOK
  <2>. QED
    BY <2>6, <2>8
<1>. QED
  BY <1>1, <1>2

\* A goroutine that holds nothing of its grab.
LEMMA EmptyHanded ==
  ASSUME NEW w \in Workers, pc'[w] \notin Handling
  PROVE  HandOK(w)'
BY DEF HandOK, ViewOK, ProbeOK, FilesOK, Handling, Probing, Materialising

\* What a goroutine has read of its grab goes on to be so.
LEMMA ViewFrame ==
  ASSUME Stepping, NEW w \in Workers, pc[w] \in Registering \union Probing, pc'[w] # "idle",
         key'[w] = key[w], grab'[w].real = grab[w].real, grab'[w].season = grab[w].season,
         \A k \in Hashes : k = key[w] => KindOK(k)'
  PROVE  /\ ViewOK(w)'
         /\ key[w] \in Hashes
         /\ key[w] \notin disturbed' =>
              key[w] \notin disturbed /\ \A k \in Hashes : k = key[w] => SameTorrent(k)
<1>1. key[w] \in Hashes /\ key[w] \in inflight'
  BY BusyStays DEF Stepping
<1>2. ASSUME key[w] \notin disturbed'
      PROVE  /\ key[w] \notin disturbed
             /\ Stored(key[w]) /\ grabs'[key[w]].state # "absent"
             /\ grabs'[key[w]].real = grabs[key[w]].real
             /\ grabs'[key[w]].season = grabs[key[w]].season
             /\ grab[w].real = grabs[key[w]].real
             /\ grab[w].season = grabs[key[w]].season
             /\ \A k \in Hashes : k = key[w] => SameTorrent(k)
  <2>1. key[w] \notin disturbed
    BY <1>1, <1>2, Undisturbed DEF Stepping
  <2>2. /\ Stored(key[w])
        /\ grab[w].real = grabs[key[w]].real
        /\ grab[w].season = grabs[key[w]].season
    BY <2>1 DEF Stepping, FolderInv, HandOK, ViewOK
  <2>3. ASSUME NEW k \in Hashes, k = key[w]
        PROVE  SameTorrent(k) /\ grabs'[k].season = grabs[k].season
    <3>1. SameTorrent(k)
      BY <1>1, <1>2, <2>2, <2>3, InFlightSame DEF Stepping
    <3>2. KindOK(k) /\ KindOK(k)'
      BY <2>3 DEF Stepping, FolderInv
    <3>. QED
      BY <3>1, <3>2, SameSeason DEF SameTorrent
  <2>. QED
    BY <1>1, <2>1, <2>2, <2>3 DEF SameTorrent, Stored
<1>. QED
  BY <1>1, <1>2 DEF ViewOK, Stored

LEMMA HandFrame ==
  ASSUME Stepping, NEW w \in Workers, HandKept(w),
         \A t \in TorrentIds : TorrentKept(t), \A k \in Hashes : FilesKept(k)
  PROVE  HandOK(w)'
<1> DEFINE t == grab[w].rd
<1>1. CASE pc[w] \notin Handling
  BY <1>1, EmptyHanded DEF HandKept
<1>2. CASE pc[w] \in Handling
  <2>. USE DEF Stepping
  <2>1. /\ pc'[w] # "idle" /\ pc'[w] = pc[w] /\ key'[w] = key[w]
        /\ grab'[w] = grab[w] /\ todo'[w] = todo[w]
    BY <1>2 DEF HandKept, Handling, Registering, Locked, Probing, Materialising
  <2>2. key[w] \in Hashes /\ key[w] \in inflight'
    BY <2>1, BusyStays
  <2>3. t \in TorrentIds \union {NoTorrent}
    BY GrabIsView DEF ClaimInv
  <2>4. HandOK(w)
    BY DEF FolderInv
  <2>5. \A k \in Hashes : k = key[w] => RecordKept(k)
    BY DEF HandKept
  <2>6. ASSUME pc[w] \in Registering \union Probing
        PROVE  /\ ViewOK(w)'
               /\ key[w] \notin disturbed' =>
                    key[w] \notin disturbed /\ \A k \in Hashes : k = key[w] => SameTorrent(k)
    BY <2>1, <2>5, <2>6, ViewFrame DEF RecordKept
  <2>7. ViewOK(w)'
    BY <2>1, <2>6 DEF ViewOK
  <2>8. ASSUME t # NoTorrent, torrents[t].status # "none"
        PROVE  torrents'[t].status # "none" /\ torrents'[t].hash = torrents[t].hash
    BY <2>3, <2>8 DEF TorrentKept
  <2>9. ProbeOK(w)'
    <3>1. ASSUME pc[w] \in Probing, key[w] \notin disturbed'
          PROVE  grabs'[key[w]].rd \in {NoTorrent, t}
      BY <2>2, <2>4, <2>5, <2>6, <3>1 DEF RecordKept, HandOK, ProbeOK
    <3>. QED
      BY <2>1, <2>4, <2>6, <2>8, <3>1 DEF HandOK, ProbeOK
  <2>10. FilesOK(w)'
    <3>1. CASE pc[w] \notin Materialising
      BY <2>1, <3>1 DEF FilesOK, Materialising
    <3>2. CASE pc[w] \in Materialising
      <4>1. t \in TorrentIds /\ torrents[t].status = "downloaded"
        BY <2>3, <2>4, <3>2 DEF HandOK, FilesOK
      <4>2. torrents'[t] = torrents[t]
        BY <4>1 DEF TorrentKept
      <4>3. Wanted(w, t)' = Wanted(w, t) /\ Wanted(w, t) \subseteq Files
        BY <2>1, <4>1, <4>2, SelectedAreFiles DEF Wanted, ClaimInv
      <4>4. ASSUME key[w] \notin disturbed', NEW f \in Wanted(w, t) \ todo[w]
            PROVE  Has(key[w], f)'
        <5>1. \A k \in Hashes : k = key[w] => SameTorrent(k) /\ Has(k, f)
          BY <2>4, <2>6, <3>2, <4>4 DEF HandOK, FilesOK, Probing
        <5>2. \A k \in Hashes : k = key[w] => Has(k, f)'
          BY <4>3, <4>4, <5>1 DEF FilesKept
        <5>. QED
          BY <2>1, <2>2, <5>2
      <4>5. ASSUME key[w] \notin disturbed', pc[w] = "link"
            PROVE  CurrentFile(w)' \in cache'[grab[w].real].files
        <5>1. CurrentFile(w)' = CurrentFile(w)
          BY <2>1, SameCurrentFile
        <5>2. /\ key[w] \notin disturbed
              /\ CurrentFile(w) \in cache[grab[w].real].files
              /\ grab[w].real = grabs[key[w]].real
          BY <2>4, <2>6, <3>2, <4>5 DEF HandOK, FilesOK, ViewOK, Probing
        <5>3. \A k \in Hashes : k = key[w] => cache[grabs[k].real].files \subseteq cache'[grabs[k].real].files
          BY <2>6, <3>2, <4>5 DEF FilesKept, Probing
        <5>. QED
          BY <2>2, <5>1, <5>2, <5>3
      <4>6. key[w] \notin disturbed' => key[w] \notin disturbed
        BY <2>6, <3>2 DEF Probing
      <4>. QED
        BY <2>1, <2>4, <4>1, <4>2, <4>3, <4>4, <4>5, <4>6 DEF HandOK, FilesOK
    <3>. QED
      BY <3>1, <3>2
  <2>. QED
    BY <2>7, <2>9, <2>10 DEF HandOK
<1>. QED
  BY <1>1, <1>2

LEMMA DelFrame ==
  ASSUME Stepping, NEW d \in Deleters, DelKept(d)
  PROVE  DeleteOK(d)'
<1>1. ASSUME NEW k \in Hashes, Stored(k)', grabs'[k].real = del[d].real,
             \/ del[d].pc = "count" /\ del[d].key = k
             \/ del[d].pc = "cache"
      PROVE  k \in disturbed'
  <2>1. CASE SameTorrent(k)
    <3>1. k \in disturbed
      BY <1>1, <2>1 DEF SameTorrent, Stepping, FolderInv, DeleteOK
    <3>. QED
      BY <1>1, <3>1, StaysDisturbed DEF Stepping
  <2>2. CASE ~SameTorrent(k)
    <3>1. k \in Disturb
      BY <1>1, <2>2 DEF Disturb, Uncounted
    <3>. QED
      BY <1>1, <3>1, StaysDisturbed DEF Stepping
  <2>. QED
    BY <2>1, <2>2
<1>. QED
  BY <1>1 DEF DelKept, DeleteOK

\* The whole invariant, for a step that says of each part either that it is
\* kept or that what it becomes is all right.
LEMMA FolderFrame ==
  ASSUME Stepping,
         \A t \in TorrentIds : TorrentKept(t),
         \A k \in Hashes : FilesKept(k),
         \A k \in Hashes : RecordKept(k) \/ (KindOK(k)' /\ IdOK(k)' /\ ReadyOK(k)'),
         \A w \in Workers : HandKept(w) \/ HandOK(w)',
         \A d \in Deleters : DelKept(d) \/ DeleteOK(d)'
  PROVE  FolderInv'
<1>1. ASSUME NEW k \in Hashes PROVE KindOK(k)' /\ IdOK(k)' /\ FolderOK(k)' /\ ReadyOK(k)'
  BY RecordFrame DEF RecordKept, FilesKept
<1>2. \A t \in TorrentIds : TorrentOK(t)'
  BY DEF TorrentKept
<1>3. \A w \in Workers : HandOK(w)'
  BY HandFrame
<1>4. \A d \in Deleters : DeleteOK(d)'
  BY DelFrame
<1>. QED
  BY <1>1, <1>2, <1>3, <1>4 DEF FolderInv

-------------------------------------------------------------------------------
\* What is not touched is kept.
LEMMA UntouchedRecord ==
  ASSUME FolderInv, NEW k \in Hashes, grabs'[k] = grabs[k]
  PROVE  RecordKept(k)
BY DEF FolderInv, RecordKept, KindOK, Stored, Absent

LEMMA UntouchedTorrent ==
  ASSUME FolderInv, NEW t \in TorrentIds, torrents'[t] = torrents[t]
  PROVE  TorrentKept(t)
BY DEF FolderInv, TorrentKept, TorrentOK

\* A folder that is left alone, with a cache that loses nothing.
LEMMA UntouchedFolder ==
  ASSUME Stepping, NEW k \in Hashes, saved'[k] = saved[k],
         k \notin disturbed' /\ SameTorrent(k) =>
           cache[grabs[k].real].files \subseteq cache'[grabs[k].real].files
  PROVE  FilesKept(k)
<1>1. ~saved'[k].dir => saved'[k] = NoSaved
  BY DEF Stepping, FolderInv, FolderOK
<1>2. ASSUME k \notin disturbed'
      PROVE  /\ \A f \in saved'[k].hard : Own(k, f)
             /\ \A x \in saved'[k].soft : Own(k, x[2])
  <2>1. CASE ~saved'[k].dir
    BY <1>1, <2>1 DEF NoSaved
  <2>2. CASE saved'[k].dir
    <3>1. k \notin disturbed
      BY <1>2, <2>2, Undisturbed DEF Stepping
    <3>. QED
      BY <3>1 DEF Stepping, FolderInv, FolderOK
  <2>. QED
    BY <2>1, <2>2
<1>3. FolderOK(k)'
  BY <1>1, <1>2 DEF FolderOK, Own
<1>4. k \notin disturbed' /\ SameTorrent(k) => \A f \in Files : Has(k, f) => Has(k, f)'
  BY DEF Has, SameTorrent
<1>. QED
  BY <1>3, <1>4 DEF FilesKept

LEMMA UntouchedFiles ==
  ASSUME Stepping, UNCHANGED <<saved, cache>>
  PROVE  \A k \in Hashes : FilesKept(k)
BY UntouchedFolder

-------------------------------------------------------------------------------
(***************************************************************************)
(* The store's operations, but for those that give a record an id or make  *)
(* it ready.                                                               *)
(***************************************************************************)
LEMMA SetStateKeeps ==
  ASSUME TypeOK, FolderInv, NEW k \in Hashes, NEW state \in GrabStates \ {"ready"}, SetState(k, state)
  PROVE  \A j \in Hashes : RecordKept(j)
<1>1. ASSUME NEW j \in Hashes, j # k \/ ~Stored(k) PROVE grabs'[j] = grabs[j]
  BY <1>1 DEF SetState, Update, TypeOK, StoreTypeOK
<1>2. ASSUME Stored(k)
      PROVE  /\ grabs'[k].real = grabs[k].real /\ grabs'[k].season = grabs[k].season
             /\ grabs'[k].rd = grabs[k].rd /\ grabs'[k].state = state
  BY <1>2 DEF SetState, Update, TypeOK, StoreTypeOK, Grab
<1>3. ASSUME Stored(k) PROVE RecordKept(k)
  BY <1>2, <1>3 DEF FolderInv, RecordKept, KindOK, Stored, GrabStates
<1>. QED
  BY <1>1, <1>3, UntouchedRecord

LEMMA DeleteKeeps ==
  ASSUME TypeOK, FolderInv, NEW k \in Hashes, Delete(k)
  PROVE  \A j \in Hashes : RecordKept(j)
<1>1. ASSUME NEW j \in Hashes, j # k PROVE grabs'[j] = grabs[j]
  BY <1>1 DEF Delete, TypeOK, StoreTypeOK
<1>2. grabs'[k] = Absent(k)
  BY DEF Delete, TypeOK, StoreTypeOK
<1>3. RecordKept(k)
  BY <1>2 DEF RecordKept, KindOK, Stored, Absent
<1>. QED
  BY <1>1, <1>3, UntouchedRecord

LEMMA PutNewKeeps ==
  ASSUME TypeOK, FolderInv, NEW k \in Hashes, NEW state \in {"registered", "queued"}, NEW r, NEW season,
         \/ r = k /\ season = 0
         \/ r \in Packs /\ season \in Seasons /\ k = SyntheticInfohash(r, season),
         Put(k, NewGrab(state, r, season))
  PROVE  \A j \in Hashes : RecordKept(j)
<1>1. ASSUME NEW j \in Hashes, j # k PROVE grabs'[j] = grabs[j]
  BY <1>1 DEF Put, TypeOK, StoreTypeOK
<1>2. /\ grabs'[k].real = r /\ grabs'[k].season = season
      /\ grabs'[k].rd = NoTorrent /\ grabs'[k].state = state
  BY DEF Put, NewGrab, TypeOK, StoreTypeOK
<1>3. RecordKept(k)
  BY <1>2 DEF RecordKept, KindOK, Stored
<1>. QED
  BY <1>1, <1>3, UntouchedRecord

\* Real-Debrid.
LEMMA RDAddKeeps ==
  ASSUME TypeOK, FolderInv, NEW t \in TorrentIds, NEW h, RDAddMagnet(t, h)
  PROVE  \A u \in TorrentIds : TorrentKept(u)
<1>1. ASSUME NEW u \in TorrentIds \ {t} PROVE torrents'[u] = torrents[u]
  BY DEF RDAddMagnet, TypeOK, RDTypeOK
<1>2. TorrentKept(t)
  BY DEF RDAddMagnet, FreeIds, TypeOK, RDTypeOK, TorrentKept, TorrentOK
<1>. QED
  BY <1>1, <1>2, UntouchedTorrent

LEMMA RDStepKeeps ==
  ASSUME TypeOK, FolderInv, NEW t \in TorrentIds, RDProgress(t) \/ RDDie(t)
  PROVE  \A u \in TorrentIds : TorrentKept(u)
<1>1. ASSUME NEW u \in TorrentIds \ {t} PROVE torrents'[u] = torrents[u]
  BY DEF RDProgress, RDConvert, RDFinish, RDDie, TypeOK, RDTypeOK
<1>2. /\ torrents'[t].hash = torrents[t].hash /\ torrents'[t].selected = torrents[t].selected
      /\ torrents'[t].status # "none" /\ torrents[t].status # "downloaded"
      /\ \/ torrents[t].hash \in Torrents
         \/ torrents'[t].status = "error"
         \/ torrents[t].status = "downloading"
  BY DEF RDProgress, RDConvert, RDFinish, RDDie, TypeOK, RDTypeOK, Torrent
<1>3. TorrentKept(t)
  BY <1>2 DEF FolderInv, TorrentKept, TorrentOK
<1>. QED
  BY <1>1, <1>3, UntouchedTorrent

LEMMA RDSelectKeeps ==
  ASSUME TypeOK, FolderInv, NEW t \in TorrentIds, NEW files,
         files \subseteq FilesOf(torrents[t].hash), RDSelect(t, files)
  PROVE  \A u \in TorrentIds : TorrentKept(u)
<1>1. ASSUME NEW u \in TorrentIds \ {t} PROVE torrents'[u] = torrents[u]
  BY DEF RDSelect, TypeOK, RDTypeOK
<1>2. CASE RDStatus(t) # "waiting_files_selection"
  BY <1>2, UntouchedTorrent DEF RDSelect
<1>3. CASE RDStatus(t) = "waiting_files_selection"
  <2>1. torrents[t].status = "waiting_files_selection"
    BY <1>3, StoreAssumption DEF RDStatus
  <2>2. /\ torrents'[t].hash = torrents[t].hash /\ torrents'[t].selected = files
        /\ torrents'[t].status = "downloading"
    BY <1>3 DEF RDSelect, TypeOK, RDTypeOK, Torrent
  <2>3. TorrentKept(t)
    BY <2>1, <2>2 DEF FolderInv, TorrentKept, TorrentOK
  <2>. QED
    BY <1>1, <2>3, UntouchedTorrent
<1>. QED
  BY <1>2, <1>3

\* The cache grows with downloads, whatever happens to their parts.
LEMMA CacheWriteKeeps ==
  ASSUME Stepping, NEW r \in Hashes, NEW f, UNCHANGED saved,
         CreatePart(r, f) \/ RemovePart(r, f) \/ RenamePart(r, f)
  PROVE  \A k \in Hashes : FilesKept(k)
<1>1. ASSUME NEW q \in Hashes PROVE cache[q].files \subseteq cache'[q].files
  BY DEF CreatePart, RemovePart, RenamePart, Stepping, ClaimInv, TypeOK, StagingTypeOK, Cache
<1>2. \A k \in Hashes : grabs[k].real \in Hashes
  BY DEF Stepping, ClaimInv, TypeOK, StoreTypeOK, Grab
<1>. QED
  BY <1>1, <1>2, UntouchedFolder

-------------------------------------------------------------------------------
(***************************************************************************)
(* A goroutine's step leaves the others what they hold, and their grabs    *)
(* are other grabs.                                                        *)
(***************************************************************************)
OthersStill(w) ==
  /\ UNCHANGED del
  /\ \A v \in Workers \ {w} :
       pc'[v] = pc[v] /\ key'[v] = key[v] /\ grab'[v] = grab[v] /\ todo'[v] = todo[v]

LEMMA StepLeavesOthers ==
  ASSUME TypeOK, NEW w \in Workers, RunWorker(w)
  PROVE  OthersStill(w)
<1>. USE DEF TypeOK, GrabberTypeOK
<1>1. Step(w) /\ UNCHANGED del
  BY DEF RunWorker, ShimIdle
<1>2. ASSUME NEW v \in Workers \ {w}, Finish(w)
      PROVE  pc'[v] = pc[v] /\ key'[v] = key[v] /\ grab'[v] = grab[v] /\ todo'[v] = todo[v]
  BY <1>2 DEF Finish
<1>3. ASSUME NEW v \in Workers \ {w}, NEW permanent, Raise(w, permanent)
      PROVE  pc'[v] = pc[v] /\ todo'[v] = todo[v]
  BY <1>3 DEF Raise
<1>4. ASSUME NEW v \in Workers \ {w}, NEW stage, Goto(w, stage)
      PROVE  pc'[v] = pc[v]
  BY <1>4 DEF Goto
<1>5. CASE \/ GetGrab(w) \/ Probe(w) \/ SelectFiles(w) \/ MarkReady(w) \/ MarkError(w)
           \/ PollSonarr(w) \/ RemoveAndBlocklist(w) \/ ClearGrab(w) \/ Refetch(w)
  BY <1>1, <1>2, <1>3, <1>4, <1>5 DEF OthersStill, GetGrab, Probe, SelectFiles, MarkReady, MarkError,
     PollSonarr, RemoveAndBlocklist, ClearGrab, Refetch
<1>6. CASE \/ LockRealHash(w) \/ ScanSiblings(w) \/ AddMagnet(w) \/ AddMagnetFails(w)
           \/ StoreTorrent(w) \/ CallFails(w) \/ ChooseFiles(w)
  BY <1>1, <1>3, <1>4, <1>6 DEF OthersStill, LockRealHash, ScanSiblings, AddMagnet, AddMagnetFails,
     StoreTorrent, CallFails, ChooseFiles, RaiseFault
<1>7. CASE \/ MkdirAll(w) \/ NextFile(w) \/ Download(w) \/ StreamFails(w) \/ Rename(w) \/ Link(w)
  BY <1>1, <1>3, <1>4, <1>7 DEF OthersStill, MkdirAll, NextFile, Download, StreamFails, Rename, Link,
     RaiseFault
<1>. QED
  BY <1>1, <1>5, <1>6, <1>7 DEF Step

\* The frame of a goroutine's step: it accounts for itself and its grab.
LEMMA StepFrame ==
  ASSUME Stepping, NEW w \in Workers, Busy(w), OthersStill(w), HandOK(w)',
         \A t \in TorrentIds : TorrentKept(t),
         \A k \in Hashes : FilesKept(k),
         \A k \in Hashes : RecordKept(k) \/ (k = key[w] /\ KindOK(k)' /\ IdOK(k)' /\ ReadyOK(k)')
  PROVE  FolderInv'
<1>1. ASSUME NEW v \in Workers PROVE HandKept(v) \/ HandOK(v)'
  <2>1. CASE v = w
    BY <2>1
  <2>2. CASE v # w /\ pc[v] = "idle"
    BY <2>2, EmptyHanded DEF OthersStill, Handling, Registering, Locked, Probing, Materialising
  <2>3. CASE v # w /\ pc[v] # "idle"
    <3>1. key[v] # key[w]
      BY <2>3 DEF Stepping, ClaimInv, OneAdvancePerGrab, Busy
    <3>. QED
      BY <2>3, <3>1 DEF OthersStill, HandKept
  <2>. QED
    BY <2>1, <2>2, <2>3
<1>2. \A d \in Deleters : DelKept(d)
  BY DEF OthersStill, DelKept
<1>. QED
  BY <1>1, <1>2, FolderFrame

\* A goroutine that lets go of its grab.
LEMMA DropFrame ==
  ASSUME Stepping, NEW w \in Workers, Busy(w), OthersStill(w), pc'[w] \notin Handling,
         \A t \in TorrentIds : TorrentKept(t),
         \A k \in Hashes : FilesKept(k),
         \A k \in Hashes : RecordKept(k)
  PROVE  FolderInv'
BY EmptyHanded, StepFrame

\* A goroutine that has just read its record.
LEMMA FreshView ==
  ASSUME Stepping, NEW w \in Workers, UNCHANGED <<grabs, torrents>>,
         key'[w] = key[w], Stored(key[w]), pc'[w] \in {"lock", "probe"}, grab'[w] = ViewOf(key[w])
  PROVE  HandOK(w)'
<1> DEFINE k == key[w]
           t == grabs[k].rd
<1>1. k \in Hashes /\ k \in inflight'
  BY BusyStays DEF Stepping
<1>2. grab'[w].real = grabs[k].real /\ grab'[w].season = grabs[k].season /\ grab'[w].rd = t
  BY DEF ViewOf
<1>3. ViewOK(w)'
  BY <1>2 DEF ViewOK, Stored
<1>4. t # NoTorrent => torrents[t].status # "none"
  BY <1>1 DEF Stepping, TorrentInv, SharedOK, RDOK
<1>5. k \notin disturbed' => k \notin disturbed
  BY <1>1, Undisturbed DEF Stepping
<1>6. ProbeOK(w)'
  BY <1>1, <1>2, <1>4, <1>5 DEF ProbeOK, Stepping, FolderInv, IdOK, Probing, Materialising
<1>7. FilesOK(w)'
  BY DEF FilesOK, Materialising
<1>. QED
  BY <1>3, <1>6, <1>7 DEF HandOK

\* A goroutine that goes on inside the mutex.
LEMMA OnInMutex ==
  ASSUME Stepping, NEW w \in Workers, pc[w] \in Registering, pc'[w] \in Registering,
         UNCHANGED <<grabs, key>>, grab'[w].real = grab[w].real, grab'[w].season = grab[w].season
  PROVE  HandOK(w)'
<1>1. \A k \in Hashes : KindOK(k)'
  BY UntouchedRecord DEF Stepping, RecordKept
<1>2. ViewOK(w)'
  BY <1>1, ViewFrame DEF Registering, Locked
<1>3. ProbeOK(w)' /\ FilesOK(w)'
  BY DEF ProbeOK, FilesOK, Registering, Locked, Probing, Materialising
<1>. QED
  BY <1>2, <1>3 DEF HandOK

\* A goroutine that goes on with the torrent it has probed.
LEMMA OnProbing ==
  ASSUME Stepping, NEW w \in Workers, pc[w] \in Probing, pc'[w] \in Probing,
         UNCHANGED <<grabs, key, grab>>, \A t \in TorrentIds : TorrentKept(t)
  PROVE  ViewOK(w)' /\ ProbeOK(w)'
<1>1. \A k \in Hashes : KindOK(k)'
  BY UntouchedRecord DEF Stepping, RecordKept
<1>2. /\ ViewOK(w)'
      /\ key[w] \notin disturbed' => key[w] \notin disturbed
  BY <1>1, ViewFrame DEF Probing, Materialising
<1>3. grab[w].rd \in TorrentIds \union {NoTorrent}
  BY GrabIsView DEF Stepping, ClaimInv
<1>4. ASSUME grab[w].rd # NoTorrent
      PROVE  /\ torrents[grab[w].rd].status # "none"
             /\ torrents'[grab[w].rd].status # "none"
             /\ torrents'[grab[w].rd].hash = torrents[grab[w].rd].hash
  BY <1>3, <1>4 DEF Stepping, FolderInv, HandOK, ProbeOK, TorrentKept
<1>5. ProbeOK(w)'
  BY <1>2, <1>4 DEF Stepping, FolderInv, HandOK, ProbeOK, Probing, Materialising
<1>. QED
  BY <1>2, <1>5

\* A goroutine that goes on with its files: what leaves todo is in place.
LEMMA OnMaterialising ==
  ASSUME Stepping, NEW w \in Workers, pc[w] \in Materialising, pc'[w] \in Materialising,
         UNCHANGED <<grabs, key, grab, torrents>>, \A k \in Hashes : FilesKept(k),
         todo'[w] \subseteq todo[w],
         key[w] \notin disturbed' =>
           /\ \A f \in todo[w] \ todo'[w] : Has(key[w], f)'
           /\ pc'[w] = "link" => CurrentFile(w)' \in cache'[grab[w].real].files,
         pc'[w] = "ready" => todo'[w] = {}
  PROVE  HandOK(w)'
<1> DEFINE t == grab[w].rd
<1>1. \A k \in Hashes : KindOK(k)'
  BY UntouchedRecord DEF Stepping, RecordKept
<1>2. \A u \in TorrentIds : TorrentKept(u)
  BY UntouchedTorrent DEF Stepping
<1>3. ViewOK(w)' /\ ProbeOK(w)'
  BY <1>2, OnProbing DEF Probing
<1>4. /\ key[w] \in Hashes
      /\ key[w] \notin disturbed' =>
           key[w] \notin disturbed /\ \A k \in Hashes : k = key[w] => SameTorrent(k)
  BY <1>1, ViewFrame DEF Probing, Materialising
<1>5. FilesOK(w)
  BY DEF Stepping, FolderInv, HandOK
<1>6. t \in TorrentIds /\ torrents[t].status = "downloaded"
  BY <1>5, GrabIsView DEF FilesOK, Stepping, ClaimInv
<1>7. Wanted(w, t)' = Wanted(w, t) /\ Wanted(w, t) \subseteq Files
  BY <1>6, SelectedAreFiles DEF Wanted, Stepping, ClaimInv
<1>8. ASSUME key[w] \notin disturbed', NEW f \in Wanted(w, t) \ todo'[w]
      PROVE  Has(key[w], f)'
  <2>1. CASE f \in todo[w]
    BY <1>8, <2>1
  <2>2. CASE f \notin todo[w]
    <3>1. Has(key[w], f)
      BY <1>4, <1>5, <1>8, <2>2 DEF FilesOK
    <3>2. \A k \in Hashes : k = key[w] => Has(k, f)'
      BY <1>4, <1>7, <1>8, <3>1 DEF FilesKept
    <3>. QED
      BY <1>4, <3>2
  <2>. QED
    BY <2>1, <2>2
<1>9. FilesOK(w)'
  BY <1>4, <1>5, <1>6, <1>7, <1>8 DEF FilesOK
<1>. QED
  BY <1>3, <1>9 DEF HandOK

-------------------------------------------------------------------------------
\* A step that writes neither the store nor a file nor to Real-Debrid.
LEMMA LocalStep ==
  ASSUME Stepping, NEW w \in Workers, Busy(w), OthersStill(w), HandOK(w)',
         UNCHANGED <<grabs, torrents, saved, cache>>
  PROVE  FolderInv'
<1>1. /\ \A t \in TorrentIds : TorrentKept(t)
      /\ \A k \in Hashes : RecordKept(k)
  BY UntouchedTorrent, UntouchedRecord DEF Stepping
<1>. QED
  BY <1>1, UntouchedFiles, StepFrame

\* Where a goroutine ends up.
LEMMA GotoStage ==
  ASSUME TypeOK, NEW w \in Workers, NEW stage, Goto(w, stage)
  PROVE  pc'[w] = stage
BY DEF Goto, TypeOK, GrabberTypeOK

LEMMA LetGo ==
  ASSUME TypeOK, NEW w \in Workers, Finish(w) \/ (\E permanent \in BOOLEAN : Raise(w, permanent))
  PROVE  pc'[w] \notin Handling
BY DEF Finish, Raise, TypeOK, GrabberTypeOK, Handling, Registering, Locked, Probing, Materialising

LEMMA IdIsStored ==
  ASSUME FolderInv, NEW k \in Hashes, grabs[k].rd # NoTorrent
  PROVE  Stored(k)
<1>1. ~Stored(k) => grabs[k] = Absent(k)
  BY DEF FolderInv, KindOK
<1>2. Absent(k).rd = NoTorrent
  BY DEF Absent
<1>. QED
  BY <1>1, <1>2

LEMMA GetGrabFolders ==
  ASSUME Stepping, NEW w \in Workers, GetGrab(w), OthersStill(w)
  PROVE  FolderInv'
<1>. USE DEF Stepping, ClaimInv
<1>1. Busy(w) /\ UNCHANGED <<grabs, torrents, saved, cache>>
  BY DEF GetGrab, Busy
<1>2. CASE Stored(key[w])
  <2>1. pc'[w] \in {"lock", "probe"} /\ key' = key
    BY <1>2, GotoStage DEF GetGrab
  <2>2. grab'[w] = ViewOf(key[w])
    BY <1>2 DEF GetGrab, TypeOK, GrabberTypeOK
  <2>. QED
    BY <1>1, <1>2, <2>1, <2>2, FreshView, LocalStep
<1>3. CASE ~Stored(key[w])
  BY <1>1, <1>3, LetGo, EmptyHanded, LocalStep DEF GetGrab
<1>. QED
  BY <1>2, <1>3

LEMMA MutexFolders ==
  ASSUME Stepping, NEW w \in Workers, LockRealHash(w) \/ ScanSiblings(w), OthersStill(w)
  PROVE  FolderInv'
<1>. USE DEF Stepping, ClaimInv
<1>1. /\ Busy(w) /\ pc[w] \in Registering
      /\ UNCHANGED <<grabs, torrents, saved, cache, key>>
  BY DEF LockRealHash, ScanSiblings, Busy, Registering, Locked
<1>2. CASE LockRealHash(w)
  <2>1. pc'[w] \in Registering /\ grab' = grab
    BY <1>2, GotoStage DEF LockRealHash, Registering, Locked
  <2>. QED
    BY <1>1, <2>1, OnInMutex, LocalStep
<1>3. CASE ScanSiblings(w) /\ grabs[key[w]].rd # NoTorrent
  <2>1. pc'[w] = "probe"
    BY <1>3, GotoStage DEF ScanSiblings
  <2>2. grab'[w] = ViewOf(key[w])
    BY <1>3 DEF ScanSiblings, TypeOK, GrabberTypeOK
  <2>3. key[w] \in Hashes
    BY <1>1, BusyKey
  <2>4. Stored(key[w])
    BY <1>3, <2>3, IdIsStored
  <2>. QED
    BY <1>1, <2>1, <2>2, <2>4, FreshView, LocalStep
<1>4. CASE ScanSiblings(w) /\ grabs[key[w]].rd = NoTorrent
  <2>1. pc'[w] \in {"adding", "store"}
    BY <1>4, GotoStage DEF ScanSiblings
  <2>2. grab' = grab \/ \E t : grab' = [grab EXCEPT ![w].rd = t]
    BY <1>4 DEF ScanSiblings
  <2>3. grab'[w].real = grab[w].real /\ grab'[w].season = grab[w].season
    BY <2>2, GrabIsView DEF TypeOK, GrabberTypeOK, View
  <2>. QED
    BY <1>1, <2>1, <2>3, OnInMutex, LocalStep DEF Registering, Locked
<1>. QED
  BY <1>2, <1>3, <1>4

LEMMA AddMagnetFolders ==
  ASSUME Stepping, NEW w \in Workers, AddMagnet(w) \/ AddMagnetFails(w), OthersStill(w)
  PROVE  FolderInv'
<1>. USE DEF Stepping, ClaimInv
<1>1. Busy(w) /\ pc[w] = "adding" /\ UNCHANGED <<grabs, saved, cache, key>>
  BY DEF AddMagnet, AddMagnetFails, Busy
<1>2. \A t \in TorrentIds : TorrentKept(t)
  BY RDAddKeeps, UntouchedTorrent DEF AddMagnet, AddMagnetFails
<1>3. HandOK(w)'
  <2>1. CASE AddMagnet(w)
    <3>1. pc'[w] = "store"
      BY <2>1, GotoStage DEF AddMagnet
    <3>2. \E t : grab' = [grab EXCEPT ![w].rd = t]
      BY <2>1 DEF AddMagnet
    <3>3. grab'[w].real = grab[w].real /\ grab'[w].season = grab[w].season
      BY <3>2, GrabIsView DEF TypeOK, GrabberTypeOK, View
    <3>. QED
      BY <1>1, <3>1, <3>3, OnInMutex DEF Registering, Locked
  <2>2. CASE AddMagnetFails(w)
    BY <2>2, LetGo, EmptyHanded DEF AddMagnetFails, RaiseFault
  <2>. QED
    BY <2>1, <2>2
<1>. QED
  BY <1>1, <1>2, <1>3, UntouchedFiles, UntouchedRecord, StepFrame

\* The id that is stored is of a torrent the record is about.
LEMMA StoreTorrentFolders ==
  ASSUME Stepping, NEW w \in Workers, StoreTorrent(w), OthersStill(w)
  PROVE  FolderInv'
<1>. USE DEF Stepping, ClaimInv
<1> DEFINE K == key[w]
<1>1. /\ Busy(w) /\ pc[w] = "store" /\ pc'[w] = "refetch" /\ K \in Hashes /\ key'[w] = K
      /\ UNCHANGED <<torrents, saved, cache, grab>>
  BY BusyKey, GotoStage DEF StoreTorrent, Busy
<1>2. ASSUME NEW k \in Hashes, k # K \/ ~Stored(K) PROVE RecordKept(k)
  <2>1. grabs'[k] = grabs[k]
    BY <1>1, <1>2 DEF StoreTorrent, Update, TypeOK, StoreTypeOK
  <2>. QED
    BY <2>1, UntouchedRecord
<1>3. ASSUME Stored(K) PROVE KindOK(K)' /\ IdOK(K)' /\ ReadyOK(K)'
  <2>1. /\ grabs'[K].real = grabs[K].real /\ grabs'[K].season = grabs[K].season
        /\ grabs'[K].rd = grab[w].rd /\ grabs'[K].state = "downloading"
    <3>1. grabs' = [grabs EXCEPT ![K] = [grabs[K] EXCEPT !.rd = grab[w].rd, !.state = "downloading"]]
      BY <1>3 DEF StoreTorrent, Update
    <3>2. grabs \in [Hashes -> Grab] /\ grabs[K] \in Grab
      BY <1>1 DEF TypeOK, StoreTypeOK
    <3>. QED
      BY <1>1, <3>1, <3>2 DEF Grab
  <2>2. KindOK(K)'
    BY <1>1, <2>1 DEF FolderInv, KindOK, Stored
  <2>3. ASSUME K \notin disturbed', torrents[grab[w].rd].hash \in Torrents
        PROVE  torrents[grab[w].rd].hash = grabs[K].real
    <3>1. K \in inflight'
      BY <1>1, BusyStays
    <3>2. K \notin disturbed
      BY <1>1, <2>3, <3>1, Undisturbed
    <3>3. grab[w].real = grabs[K].real
      BY <1>1, <3>2 DEF FolderInv, HandOK, ViewOK, Registering, Locked
    <3>. QED
      BY <1>1, <2>3, <3>3 DEF TorrentInv, WorkerOK, CarriesOK
  <2>4. IdOK(K)'
    BY <1>1, <2>1, <2>3 DEF IdOK
  <2>5. ReadyOK(K)'
    BY <1>1, <2>1 DEF ReadyOK
  <2>. QED
    BY <1>1, <2>2, <2>4, <2>5
<1>4. HandOK(w)'
  BY <1>1, EmptyHanded DEF Handling, Registering, Locked, Probing, Materialising
<1>5. ASSUME NEW k \in Hashes
      PROVE  RecordKept(k) \/ (k = K /\ KindOK(k)' /\ IdOK(k)' /\ ReadyOK(k)')
  BY <1>1, <1>2, <1>3
<1>. QED
  BY <1>1, <1>4, <1>5, UntouchedTorrent, UntouchedFiles, StepFrame

LEMMA RefetchFolders ==
  ASSUME Stepping, NEW w \in Workers, Refetch(w), OthersStill(w)
  PROVE  FolderInv'
<1>. USE DEF Stepping, ClaimInv
<1>1. /\ Busy(w) /\ Stored(key[w]) /\ pc'[w] = "probe"
      /\ UNCHANGED <<grabs, torrents, saved, cache, key>>
  BY GotoStage DEF Refetch, Busy
<1>2. grab'[w] = ViewOf(key[w])
  BY DEF Refetch, TypeOK, GrabberTypeOK
<1>. QED
  BY <1>1, <1>2, FreshView, LocalStep

LEMMA ProbeFolders ==
  ASSUME Stepping, NEW w \in Workers, Probe(w), OthersStill(w)
  PROVE  FolderInv'
<1>. USE DEF Stepping, ClaimInv
<1> DEFINE t == grab[w].rd
<1>1. Busy(w) /\ pc[w] = "probe" /\ UNCHANGED <<grabs, torrents, saved, cache>>
  BY DEF Probe, Busy
<1>2. CASE Finish(w) \/ \E permanent \in BOOLEAN : Raise(w, permanent)
  BY <1>1, <1>2, LetGo, EmptyHanded, LocalStep
<1>3. CASE Goto(w, "select") /\ RDStatus(t) = "waiting_files_selection" /\ UNCHANGED grab
  <2>1. pc'[w] = "select"
    BY <1>3, GotoStage
  <2>2. t # NoTorrent /\ torrents[t].status # "none"
    BY <1>3 DEF RDStatus
  <2>3. HandOK(w)'
    BY <1>1, <1>3, <2>1, <2>2 DEF HandOK, ViewOK, ProbeOK, FilesOK, Registering, Locked, Probing,
       Materialising
  <2>. QED
    BY <1>1, <2>3, LocalStep
<1>4. CASE /\ Goto(w, "mkdir") /\ RDStatus(t) = "downloaded" /\ UNCHANGED <<key, grab>>
           /\ todo' = [todo EXCEPT ![w] = Wanted(w, t)]
  <2>1. pc'[w] = "mkdir" /\ todo'[w] = Wanted(w, t)
    BY <1>4, GotoStage DEF TypeOK, GrabberTypeOK
  <2>2. t # NoTorrent /\ torrents[t].status = "downloaded"
    BY <1>4 DEF RDStatus
  <2>3. ViewOK(w)' /\ ProbeOK(w)'
    BY <1>1, <1>4, <2>1, UntouchedTorrent, OnProbing DEF Probing, Materialising
  <2>4. Wanted(w, t)' = Wanted(w, t)
    BY <1>1, <1>4 DEF Wanted
  <2>5. FilesOK(w)'
    BY <1>1, <1>4, <2>1, <2>2, <2>4 DEF FilesOK
  <2>. QED
    BY <1>1, <2>3, <2>5, LocalStep DEF HandOK
<1>. QED
  BY <1>2, <1>3, <1>4 DEF Probe

\* A call that fails, or the choice of the files.
LEMMA ChooseFilesFolders ==
  ASSUME Stepping, NEW w \in Workers, ChooseFiles(w), OthersStill(w)
  PROVE  FolderInv'
<1>. USE DEF Stepping, ClaimInv
<1> DEFINE t == grab[w].rd
           ids == FileIDsForGrabs(grab[w].real, t)
<1>1. Busy(w) /\ pc[w] = "select" /\ UNCHANGED <<grabs, torrents, saved, cache, grab>>
  BY DEF ChooseFiles, Busy
<1>2. CASE Raise(w, FALSE)
  BY <1>1, <1>2, LetGo, EmptyHanded, LocalStep
<1>3. CASE Goto(w, "selecting") /\ todo' = [todo EXCEPT ![w] = ids]
  <2>1. pc'[w] = "selecting" /\ todo'[w] = ids
    BY <1>3, GotoStage DEF TypeOK, GrabberTypeOK
  <2>2. ids \subseteq FilesOf(torrents[t].hash)
    BY DEF FileIDsForGrabs
  <2>3. t # NoTorrent /\ torrents[t].status # "none"
    BY <1>1 DEF FolderInv, HandOK, ProbeOK
  <2>4. HandOK(w)'
    BY <1>1, <2>1, <2>2, <2>3 DEF HandOK, ViewOK, ProbeOK, FilesOK, Registering, Locked, Probing,
       Materialising
  <2>. QED
    BY <1>1, <2>4, LocalStep
<1>. QED
  BY <1>2, <1>3 DEF ChooseFiles

LEMMA SelectFilesFolders ==
  ASSUME Stepping, NEW w \in Workers, SelectFiles(w), OthersStill(w)
  PROVE  FolderInv'
<1>. USE DEF Stepping, ClaimInv
<1>1. Busy(w) /\ pc[w] = "selecting" /\ Finish(w) /\ UNCHANGED <<grabs, saved, cache>>
  BY DEF SelectFiles, Busy
<1>2. grab[w].rd \in TorrentIds /\ todo[w] \subseteq FilesOf(torrents[grab[w].rd].hash)
  BY <1>1, GrabIsView DEF FolderInv, HandOK, ProbeOK
<1>3. \A t \in TorrentIds : TorrentKept(t)
  BY <1>2, RDSelectKeeps DEF SelectFiles
<1>. QED
  BY <1>1, <1>3, LetGo, UntouchedFiles, UntouchedRecord, DropFrame

-------------------------------------------------------------------------------
(***************************************************************************)
(* materialise's steps.                                                    *)
(***************************************************************************)
\* A goroutine's step that writes files only.
LEMMA FileStep ==
  ASSUME Stepping, NEW w \in Workers, Busy(w), OthersStill(w), HandOK(w)',
         UNCHANGED <<grabs, torrents>>, \A k \in Hashes : FilesKept(k)
  PROVE  FolderInv'
<1>1. /\ \A t \in TorrentIds : TorrentKept(t)
      /\ \A k \in Hashes : RecordKept(k)
  BY UntouchedTorrent, UntouchedRecord DEF Stepping
<1>. QED
  BY <1>1, StepFrame

LEMMA MkdirAllFolders ==
  ASSUME Stepping, NEW w \in Workers, MkdirAll(w), OthersStill(w)
  PROVE  FolderInv'
<1>. USE DEF Stepping, ClaimInv
<1>1. /\ Busy(w) /\ pc[w] = "mkdir" /\ pc'[w] = "file" /\ key[w] \in Hashes
      /\ UNCHANGED <<grabs, torrents, key, grab, todo>>
      /\ MakeDirs(key[w], grab[w].real)
  BY BusyKey, GotoStage DEF MkdirAll, Busy
<1>2. ASSUME NEW k \in Hashes PROVE FilesKept(k)
  <2>. USE DEF MakeDirs, TypeOK, StagingTypeOK
  <2>1. grabs[k].real \in Hashes /\ grab[w].real \in Hashes
    BY GrabIsView DEF StoreTypeOK, Grab
  <2>2. cache'[grabs[k].real].files = cache[grabs[k].real].files
    BY <1>1, <2>1 DEF Cache
  <2>3. CASE k # key[w]
    BY <1>1, <2>2, <2>3, UntouchedFolder
  <2>4. CASE k = key[w]
    <3>1. saved'[k].dir /\ saved'[k].hard = saved[k].hard /\ saved'[k].soft = saved[k].soft
      BY <1>1, <2>4 DEF Saved
    <3>2. k \notin disturbed' => k \notin disturbed
      BY <3>1, Undisturbed
    <3>3. FolderOK(k)'
      BY <3>1, <3>2 DEF FolderInv, FolderOK, Own
    <3>. QED
      BY <2>2, <3>1, <3>3 DEF FilesKept, Has, SameTorrent
  <2>. QED
    BY <2>3, <2>4
<1>3. HandOK(w)'
  BY <1>1, <1>2, OnMaterialising DEF Materialising
<1>. QED
  BY <1>1, <1>2, <1>3, FileStep

LEMMA NextFileFolders ==
  ASSUME Stepping, NEW w \in Workers, NextFile(w), OthersStill(w)
  PROVE  FolderInv'
<1>. USE DEF Stepping, ClaimInv
<1>1. /\ Busy(w) /\ pc[w] = "file"
      /\ UNCHANGED <<grabs, torrents, saved, cache, key, grab, todo>>
  BY DEF NextFile, Busy
<1>2. \/ pc'[w] = "ready" /\ todo[w] = {}
      \/ pc'[w] = "link" /\ CurrentFile(w) \in cache[grab[w].real].files
      \/ pc'[w] = "download"
  BY GotoStage DEF NextFile
<1>3. CurrentFile(w)' = CurrentFile(w)
  BY <1>1, SameCurrentFile
<1>4. \A k \in Hashes : FilesKept(k)
  BY <1>1, UntouchedFiles
<1>5. HandOK(w)'
  BY <1>1, <1>2, <1>3, <1>4, OnMaterialising DEF Materialising
<1>. QED
  BY <1>1, <1>4, <1>5, FileStep

LEMMA DownloadFolders ==
  ASSUME Stepping, NEW w \in Workers, Download(w) \/ StreamFails(w) \/ Rename(w), OthersStill(w)
  PROVE  FolderInv'
<1>. USE DEF Stepping, ClaimInv
<1> DEFINE f == CurrentFile(w)
           r == grab[w].real
<1>1. /\ Busy(w) /\ pc[w] \in {"download", "rename"} /\ r \in Hashes /\ f \in Files
      /\ UNCHANGED <<grabs, torrents, saved, key, grab>>
  BY GrabIsView, CurrentFileIsFile DEF Download, StreamFails, Rename, Busy, FileAtHand
<1>2. \A k \in Hashes : FilesKept(k)
  <2>1. \/ CreatePart(r, f) \/ RemovePart(r, f) \/ RenamePart(r, f)
        \/ UNCHANGED cache
    BY DEF Download, StreamFails, Rename
  <2>. QED
    BY <1>1, <2>1, CacheWriteKeeps, UntouchedFiles
<1>3. CASE \E permanent \in BOOLEAN : Raise(w, permanent)
  BY <1>1, <1>2, <1>3, LetGo, EmptyHanded, FileStep
<1>4. CASE Goto(w, "rename") /\ UNCHANGED todo
  <2>1. pc'[w] = "rename"
    BY <1>4, GotoStage
  <2>2. HandOK(w)'
    BY <1>1, <1>2, <1>4, <2>1, OnMaterialising DEF Materialising
  <2>. QED
    BY <1>1, <1>2, <2>2, FileStep
<1>5. CASE RenamePart(r, f) /\ Goto(w, "link") /\ UNCHANGED todo
  <2>1. pc'[w] = "link" /\ CurrentFile(w)' = f
    BY <1>5, GotoStage, SameCurrentFile
  <2>2. f \in cache'[r].files
    BY <1>1, <1>5 DEF RenamePart, TypeOK, StagingTypeOK, Cache
  <2>3. HandOK(w)'
    BY <1>1, <1>2, <1>5, <2>1, <2>2, OnMaterialising DEF Materialising
  <2>. QED
    BY <1>1, <1>2, <2>3, FileStep
<1>. QED
  BY <1>3, <1>4, <1>5 DEF Download, StreamFails, Rename, RaiseFault

\* A file that is wanted belongs under the key.
LEMMA WantedIsOwn ==
  ASSUME Stepping, NEW w \in Workers, pc[w] \in Materialising, NEW k \in Hashes, k = key[w],
         k \notin disturbed, NEW f \in Wanted(w, grab[w].rd)
  PROVE  Own(k, f)
<1>. USE DEF Stepping, ClaimInv
<1> DEFINE t == grab[w].rd
<1>1. t \in TorrentIds /\ torrents[t].status = "downloaded" /\ HandOK(w)
  BY GrabIsView DEF FolderInv, HandOK, FilesOK
<1>2. torrents[t].hash \in Torrents /\ torrents[t].selected \subseteq FilesOf(torrents[t].hash)
  BY <1>1 DEF FolderInv, TorrentOK
<1>3. TorrentOf[f] = torrents[t].hash /\ grab[w].season \in {0, SeasonOf[f]}
  BY <1>2 DEF Wanted, FilesOf
<1>4. torrents[t].hash = grabs[k].real /\ grab[w].season = grabs[k].season
  BY <1>1, <1>2, StoreAssumption DEF HandOK, ViewOK, ProbeOK, Probing
<1>5. ASSUME NEW p \in Packs, NEW s \in Seasons \ {0}, k = SyntheticInfohash(p, s)
      PROVE  SeasonOf[f] = s /\ TorrentOf[f] = p
  <2>1. grabs[k].real # k
    BY <1>2, <1>4, <1>5, SyntheticHash
  <2>2. k = SyntheticInfohash(grabs[k].real, grabs[k].season)
    BY <2>1 DEF FolderInv, KindOK
  <2>3. grabs[k].real = p /\ grabs[k].season = s
    BY <1>5, <2>2 DEF SyntheticInfohash
  <2>. QED
    BY <1>3, <1>4, <1>5, <2>3
<1>. QED
  BY <1>5 DEF Own

LEMMA LinkFolders ==
  ASSUME Stepping, NEW w \in Workers, Link(w), OthersStill(w)
  PROVE  FolderInv'
<1>. USE DEF Stepping, ClaimInv
<1>0. PICK K \in Hashes, r \in Hashes, f \in Files :
        K = key[w] /\ r = grab[w].real /\ f = CurrentFile(w)
  BY BusyKey, GrabIsView, CurrentFileIsFile DEF Link, Busy, FileAtHand
<1>1. /\ Busy(w) /\ pc[w] = "link" /\ f \in todo[w] /\ K = key[w] /\ r = grab[w].real
      /\ UNCHANGED <<grabs, torrents, cache, key, grab>>
  BY <1>0 DEF Link, Busy, FileAtHand, CurrentFile
<1>2. CASE Raise(w, FALSE) /\ UNCHANGED saved
  BY <1>1, <1>2, LetGo, EmptyHanded, UntouchedFiles, FileStep
<1>3. CASE /\ LinkFile(K, r, f) /\ Goto(w, "file") /\ saved[K].dir
           /\ todo' = [todo EXCEPT ![w] = @ \ {f}]
  <2>1. pc'[w] = "file" /\ todo'[w] = todo[w] \ {f}
    BY <1>3, GotoStage DEF TypeOK, GrabberTypeOK
  <2>2. /\ \A k \in Hashes \ {K} : saved'[k] = saved[k]
        /\ saved'[K].dir
        /\ \/ /\ saved'[K].hard = saved[K].hard \union {f}
              /\ saved'[K].soft = {x \in saved[K].soft : x[2] # f}
           \/ /\ saved'[K].hard = saved[K].hard \ {f}
              /\ saved'[K].soft = {x \in saved[K].soft : x[2] # f} \union {<<r, f>>}
    BY <1>1, <1>3 DEF LinkFile, TypeOK, StagingTypeOK, Saved
  <2>3. ASSUME K \notin disturbed'
        PROVE  /\ K \notin disturbed
               /\ r = grabs[K].real
               /\ f \in cache[r].files /\ f \in Wanted(w, grab[w].rd)
    <3>1. K \in inflight'
      BY <1>1, <2>1, BusyStays
    <3>2. K \notin disturbed
      BY <1>1, <2>3, <3>1, Undisturbed
    <3>. QED
      BY <1>0, <1>1, <3>2 DEF FolderInv, HandOK, ViewOK, FilesOK, Probing, Materialising
  <2>4. FolderOK(K)'
    <3>1. ASSUME K \notin disturbed' PROVE Own(K, f)
      BY <1>1, <2>3, <3>1, WantedIsOwn DEF Materialising
    <3>2. ASSUME K \notin disturbed'
          PROVE  /\ \A g \in saved[K].hard : Own(K, g)
                 /\ \A x \in saved[K].soft : Own(K, x[2])
      BY <1>1, <2>3, <3>2 DEF FolderInv, FolderOK
    <3>3. K \notin disturbed' =>
            /\ \A g \in saved'[K].hard : Own(K, g)
            /\ \A x \in saved'[K].soft : Own(K, x[2])
      BY <2>2, <3>1, <3>2
    <3>. QED
      BY <1>1, <2>2, <3>3 DEF FolderOK, Own
  <2>5. K \notin disturbed' => Has(K, f)' /\ \A g \in Files : Has(K, g) => Has(K, g)'
    <3>1. ASSUME K \notin disturbed', NEW g \in Files, g = f \/ Has(K, g)
          PROVE  \/ g \in saved'[K].hard
                 \/ <<grabs[K].real, g>> \in saved'[K].soft /\ g \in cache[grabs[K].real].files
      BY <2>2, <2>3, <3>1 DEF Has
    <3>. QED
      BY <1>1, <3>1 DEF Has
  <2>6. ASSUME NEW k \in Hashes PROVE FilesKept(k)
    <3>1. CASE k = K
      BY <1>1, <2>4, <2>5, <3>1 DEF FilesKept
    <3>2. CASE k # K
      BY <1>1, <2>2, <3>2, UntouchedFolder
    <3>. QED
      BY <3>1, <3>2
  <2>7. HandOK(w)'
    BY <1>1, <2>1, <2>5, <2>6, OnMaterialising DEF Materialising
  <2>. QED
    BY <1>1, <2>6, <2>7, FileStep
<1>. QED
  BY <1>0, <1>2, <1>3 DEF Link

\* What is marked ready has every file it wants.
LEMMA MarkReadyFolders ==
  ASSUME Stepping, NEW w \in Workers, MarkReady(w), OthersStill(w)
  PROVE  FolderInv'
<1>. USE DEF Stepping, ClaimInv
<1> DEFINE t == grab[w].rd
<1>0. PICK K \in Hashes : K = key[w]
  BY BusyKey DEF MarkReady, Busy
<1>1. /\ Busy(w) /\ pc[w] = "ready" /\ K = key[w] /\ Finish(w)
      /\ SetState(K, "ready") /\ UNCHANGED <<torrents, saved, cache>>
  BY <1>0 DEF MarkReady, Busy
<1>2. ASSUME NEW k \in Hashes, k # K \/ ~Stored(K) PROVE RecordKept(k)
  <2>1. grabs'[k] = grabs[k]
    BY <1>1, <1>2 DEF SetState, Update, TypeOK, StoreTypeOK
  <2>. QED
    BY <2>1, UntouchedRecord
<1>3. ASSUME Stored(K) PROVE KindOK(K)' /\ IdOK(K)' /\ ReadyOK(K)'
  <2>1. /\ grabs'[K].real = grabs[K].real /\ grabs'[K].season = grabs[K].season
        /\ grabs'[K].rd = grabs[K].rd /\ grabs'[K].state = "ready"
    BY <1>1, <1>3 DEF SetState, Update, TypeOK, StoreTypeOK, Grab
  <2>2. KindOK(K)'
    BY <1>1, <2>1 DEF FolderInv, KindOK, Stored
  <2>3. K \notin disturbed' => K \notin disturbed
    BY <1>1, <2>1, Undisturbed DEF Stored
  <2>4. IdOK(K)'
    BY <1>1, <2>1, <2>3 DEF FolderInv, IdOK
  <2>5. ASSUME K \notin disturbed, grabs[K].rd # NoTorrent
        PROVE  /\ torrents[grabs[K].rd].status = "downloaded"
               /\ \A f \in torrents[grabs[K].rd].selected :
                    grabs[K].season \in {0, SeasonOf[f]} => Has(K, f)
    <3>1. /\ t # NoTorrent /\ torrents[t].status = "downloaded" /\ todo[w] = {}
          /\ \A f \in Wanted(w, t) \ todo[w] : Has(K, f)
          /\ grabs[K].rd \in {NoTorrent, t}
          /\ grab[w].season = grabs[K].season
      BY <1>1, <2>5 DEF FolderInv, HandOK, ViewOK, ProbeOK, FilesOK, Probing, Materialising
    <3>. QED
      BY <2>5, <3>1 DEF Wanted
  <2>6. ReadyOK(K)'
    BY <1>1, <2>1, <2>3, <2>5 DEF ReadyOK, Has
  <2>. QED
    BY <2>2, <2>4, <2>6
<1>4. ASSUME NEW k \in Hashes
      PROVE  RecordKept(k) \/ (k = K /\ KindOK(k)' /\ IdOK(k)' /\ ReadyOK(k)')
  BY <1>2, <1>3
<1>. QED
  BY <1>1, <1>4, LetGo, EmptyHanded, UntouchedTorrent, UntouchedFiles, StepFrame

-------------------------------------------------------------------------------
\* The ways out of a grab.
LEMMA FailureFolders ==
  ASSUME Stepping, NEW w \in Workers, OthersStill(w),
         \/ CallFails(w) \/ MarkError(w) \/ PollSonarr(w) \/ RemoveAndBlocklist(w) \/ ClearGrab(w)
  PROVE  FolderInv'
<1>. USE DEF Stepping, ClaimInv
<1>1. Busy(w) /\ UNCHANGED <<torrents, saved, cache>>
  BY DEF CallFails, MarkError, PollSonarr, RemoveAndBlocklist, ClearGrab, Busy
<1>2. key[w] \in Hashes
  BY <1>1, BusyKey
<1>3. \A k \in Hashes : RecordKept(k)
  <2>1. UNCHANGED grabs \/ SetState(key[w], "error") \/ Delete(key[w])
    BY DEF CallFails, MarkError, PollSonarr, RemoveAndBlocklist, ClearGrab
  <2>2. "error" \in GrabStates \ {"ready"}
    BY DEF GrabStates
  <2>. QED
    BY <1>2, <2>1, <2>2, SetStateKeeps, DeleteKeeps, UntouchedRecord
<1>4. pc'[w] \notin Handling
  <2>1. CASE Finish(w) \/ \E permanent \in BOOLEAN : Raise(w, permanent)
    BY <2>1, LetGo
  <2>2. CASE UNCHANGED pc /\ pc[w] = "poll"
    BY <2>2 DEF Handling, Registering, Locked, Probing, Materialising
  <2>3. CASE \E stage \in {"poll", "blocklist", "clear"} : Goto(w, stage)
    BY <2>3, GotoStage DEF Handling, Registering, Locked, Probing, Materialising
  <2>. QED
    BY <2>1, <2>2, <2>3 DEF CallFails, RaiseFault, MarkError, PollSonarr, RemoveAndBlocklist, ClearGrab
<1>. QED
  BY <1>1, <1>3, <1>4, UntouchedTorrent, UntouchedFiles, DropFrame

LEMMA WorkerFolders ==
  ASSUME Stepping, NEW w \in Workers, RunWorker(w)
  PROVE  FolderInv'
<1>1. OthersStill(w) /\ Step(w)
  BY StepLeavesOthers DEF Stepping, ClaimInv, RunWorker
<1>2. CASE GetGrab(w) \/ LockRealHash(w) \/ ScanSiblings(w) \/ AddMagnet(w) \/ AddMagnetFails(w)
  BY <1>1, <1>2, GetGrabFolders, MutexFolders, AddMagnetFolders
<1>3. CASE StoreTorrent(w) \/ Refetch(w) \/ Probe(w) \/ ChooseFiles(w) \/ SelectFiles(w)
  BY <1>1, <1>3, StoreTorrentFolders, RefetchFolders, ProbeFolders, ChooseFilesFolders,
     SelectFilesFolders
<1>4. CASE \/ MkdirAll(w) \/ NextFile(w) \/ Download(w) \/ StreamFails(w) \/ Rename(w)
           \/ Link(w) \/ MarkReady(w)
  BY <1>1, <1>4, MkdirAllFolders, NextFileFolders, DownloadFolders, LinkFolders, MarkReadyFolders
<1>5. CASE \/ CallFails(w) \/ MarkError(w) \/ PollSonarr(w) \/ RemoveAndBlocklist(w) \/ ClearGrab(w)
  BY <1>1, <1>5, FailureFolders
<1>. QED
  BY <1>1, <1>2, <1>3, <1>4, <1>5 DEF Step

\* A step in which no goroutine takes part.
LEMMA HandlerFrame ==
  ASSUME Stepping, UNCHANGED <<pc, key, grab, todo>>,
         \A t \in TorrentIds : TorrentKept(t),
         \A k \in Hashes : RecordKept(k) /\ FilesKept(k),
         \A d \in Deleters : DelKept(d) \/ DeleteOK(d)'
  PROVE  FolderInv'
<1>1. \A w \in Workers : HandKept(w)
  BY DEF HandKept
<1>. QED
  BY <1>1, FolderFrame

\* Nor a delete, nor a file.
LEMMA QuietFrame ==
  ASSUME Stepping, UNCHANGED <<pc, key, grab, todo, saved, cache, del>>,
         \A t \in TorrentIds : TorrentKept(t),
         \A k \in Hashes : RecordKept(k)
  PROVE  FolderInv'
<1>1. \A d \in Deleters : DelKept(d)
  BY DEF DelKept
<1>. QED
  BY <1>1, UntouchedFiles, HandlerFrame

LEMMA TickFolders ==
  ASSUME Stepping, NEW k \in Hashes, RunTick(k)
  PROVE  FolderInv'
<1>. USE DEF Stepping, ClaimInv
<1>1. PICK w \in Workers : Tick(w, k)
  BY DEF RunTick
<1>2. UNCHANGED <<grabs, torrents, saved, cache, del, grab, todo>>
  BY <1>1 DEF RunTick, Tick, ShimIdle
<1>3. /\ pc'[w] = "get"
      /\ \A v \in Workers \ {w} : pc'[v] = pc[v] /\ key'[v] = key[v]
  BY <1>1 DEF Tick, Goto, TypeOK, GrabberTypeOK
<1>4. /\ \A t \in TorrentIds : TorrentKept(t)
      /\ \A j \in Hashes : RecordKept(j) /\ FilesKept(j)
      /\ \A d \in Deleters : DelKept(d)
  BY <1>2, UntouchedTorrent, UntouchedRecord, UntouchedFiles DEF DelKept
<1>5. HandOK(w)'
  BY <1>3, EmptyHanded DEF Handling, Registering, Locked, Probing, Materialising
<1>6. \A v \in Workers \ {w} : HandKept(v)
  BY <1>2, <1>3, <1>4 DEF HandKept
<1>. QED
  BY <1>4, <1>5, <1>6, FolderFrame

LEMMA RDFolders ==
  ASSUME Stepping, NEW t \in TorrentIds, RunRealDebrid(t) \/ TorrentDies(t)
  PROVE  FolderInv'
<1>1. \A u \in TorrentIds : TorrentKept(u)
  BY RDStepKeeps DEF Stepping, ClaimInv, RunRealDebrid, TorrentDies
<1>2. UNCHANGED <<grabs, saved, cache, pc, key, grab, todo, del>>
  BY DEF RunRealDebrid, TorrentDies, RDStill, ShimIdle
<1>3. \A k \in Hashes : RecordKept(k)
  BY <1>2, UntouchedRecord DEF Stepping
<1>. QED
  BY <1>1, <1>2, <1>3, QuietFrame

-------------------------------------------------------------------------------
(***************************************************************************)
(* The handlers.                                                           *)
(***************************************************************************)
LEMMA SearchFolders ==
  ASSUME Stepping, NEW s \in Searchers, RunSearch(s)
  PROVE  FolderInv'
<1>. USE DEF Stepping, ClaimInv
<1>1. SearchStep(s) /\ UNCHANGED <<torrents, pc, key, grab, todo, saved, cache, del>>
  BY DEF RunSearch, GrabberIdle, SearchStep, RegisterGet, RegisterPut, SearchDone
<1>2. \A t \in TorrentIds : TorrentKept(t)
  BY <1>1, UntouchedTorrent
<1>3. CASE RegisterPut(s)
  <2>1. search[s].pack \in Packs /\ search[s].season \in Seasons
    BY <1>3, ReleasesAssumption DEF RegisterPut, SearchOK, Seasons, TypeOK, ShimTypeOK
  <2>2. Advertised(s) \in Hashes
    BY <2>1, SyntheticHash DEF Advertised
  <2>3. \A k \in Hashes : RecordKept(k)
    BY <1>3, <2>1, <2>2, PutNewKeeps DEF RegisterPut, Advertised
  <2>. QED
    BY <1>1, <1>2, <2>3, QuietFrame
<1>4. CASE RegisterGet(s) \/ SearchDone(s)
  <2>1. \A k \in Hashes : RecordKept(k)
    BY <1>4, UntouchedRecord DEF RegisterGet, SearchDone
  <2>. QED
    BY <1>1, <1>2, <2>1, QuietFrame
<1>. QED
  BY <1>1, <1>3, <1>4 DEF SearchStep

LEMMA AddFolders ==
  ASSUME Stepping, NEW a \in Adders, RunAdd(a)
  PROVE  FolderInv'
<1>. USE DEF Stepping, ClaimInv
<1>1. AddWrite(a) /\ UNCHANGED <<torrents, pc, key, grab, todo, saved, cache, del>>
  BY DEF RunAdd, GrabberIdle, AddWrite
<1>2. add[a].key \in Hashes /\ "queued" \in GrabStates \ {"ready"}
  BY DEF TypeOK, ShimTypeOK, GrabStates
<1>3. \A k \in Hashes : RecordKept(k)
  BY <1>1, <1>2, SetStateKeeps, PutNewKeeps DEF AddWrite
<1>. QED
  BY <1>1, <1>3, UntouchedTorrent, QuietFrame

\* The delete past its folder's removal: the grab is disturbed, if it is
\* still there.
LEMMA DeleteTreeFolders ==
  ASSUME Stepping, NEW d \in Deleters, RunDelete(d), DeleteTree(d)
  PROVE  FolderInv'
<1>. USE DEF Stepping, ClaimInv
<1>0. PICK K \in Hashes : K = del[d].key
  BY DEF TypeOK, ShimTypeOK
<1>1. /\ UNCHANGED <<grabs, torrents, pc, key, grab, todo, cache>>
      /\ RemoveSaved(K) /\ del[d].pc = "tree"
  BY <1>0 DEF RunDelete, GrabberIdle, DeleteTree
<1>2. /\ del'[d].pc = "count" /\ del'[d].key = K
      /\ \A e \in Deleters \ {d} : DelKept(e)
  BY <1>0 DEF DeleteTree, DelKept, TypeOK, ShimTypeOK
<1>3. K \in Disturb
  BY <1>0, <1>1, <1>2 DEF Disturb
<1>4. DeleteOK(d)'
  BY <1>2, <1>3, StaysDisturbed DEF DeleteOK
<1>5. ASSUME NEW k \in Hashes PROVE FilesKept(k)
  <2>1. CASE k # K
    <3>1. saved'[k] = saved[k]
      BY <1>1, <2>1 DEF RemoveSaved, TypeOK, StagingTypeOK
    <3>. QED
      BY <1>1, <3>1, UntouchedFolder
  <2>2. CASE k = K
    <3>1. saved'[k] = NoSaved
      BY <1>1, <2>2 DEF RemoveSaved, TypeOK, StagingTypeOK
    <3>2. FolderOK(k)'
      BY <3>1 DEF FolderOK, NoSaved
    <3>3. SameTorrent(k) => k \in disturbed'
      BY <1>3, <2>2, StaysDisturbed DEF SameTorrent
    <3>. QED
      BY <3>2, <3>3 DEF FilesKept
  <2>. QED
    BY <2>1, <2>2
<1>. QED
  BY <1>1, <1>2, <1>4, <1>5, UntouchedTorrent, UntouchedRecord, HandlerFrame

\* The count: whoever has the cache is the deleted grab itself, disturbed.
LEMMA DeleteCountFolders ==
  ASSUME Stepping, NEW d \in Deleters, RunDelete(d), DeleteCount(d)
  PROVE  FolderInv'
<1>. USE DEF Stepping, ClaimInv
<1>1. UNCHANGED <<grabs, torrents, pc, key, grab, todo, saved, cache>>
  BY DEF RunDelete, GrabberIdle, DeleteCount
<1>2. /\ del[d].pc = "count" /\ del'[d].pc \in {"cache", "store"} /\ del'[d].real = del[d].real
      /\ del'[d].pc = "cache" => ByRealHash(del[d].real) \ {del[d].key} = {}
      /\ \A e \in Deleters \ {d} : DelKept(e)
  BY DEF DeleteCount, DelKept, TypeOK, ShimTypeOK
<1>3. ASSUME del'[d].pc = "cache", NEW k \in Hashes, Stored(k), grabs[k].real = del[d].real
      PROVE  k \in disturbed
  BY <1>2, <1>3 DEF ByRealHash, FolderInv, DeleteOK
<1>4. DeleteOK(d)'
  <2>1. ASSUME del'[d].pc = "cache", NEW k \in Hashes, Stored(k)', grabs'[k].real = del'[d].real
        PROVE  k \in disturbed'
    BY <1>1, <1>2, <1>3, <2>1, StaysDisturbed DEF Stored
  <2>. QED
    BY <1>2, <2>1 DEF DeleteOK
<1>. QED
  BY <1>1, <1>2, <1>4, UntouchedTorrent, UntouchedRecord, UntouchedFiles, HandlerFrame

LEMMA DeleteCacheFolders ==
  ASSUME Stepping, NEW d \in Deleters, RunDelete(d), DeleteCache(d)
  PROVE  FolderInv'
<1>. USE DEF Stepping, ClaimInv
<1>1. /\ UNCHANGED <<grabs, torrents, pc, key, grab, todo, saved>>
      /\ RemoveCache(del[d].real) /\ del[d].pc = "cache"
  BY DEF RunDelete, GrabberIdle, DeleteCache
<1>2. /\ del'[d].pc = "store"
      /\ \A e \in Deleters \ {d} : DelKept(e)
  BY DEF DeleteCache, DelKept, TypeOK, ShimTypeOK
<1>3. DeleteOK(d)'
  BY <1>2 DEF DeleteOK
<1>4. ASSUME NEW k \in Hashes PROVE FilesKept(k)
  <2>1. ASSUME k \notin disturbed', SameTorrent(k)
        PROVE  cache'[grabs[k].real] = cache[grabs[k].real]
    <3>1. k \notin disturbed
      BY <2>1, Undisturbed DEF SameTorrent
    <3>2. grabs[k].real # del[d].real
      BY <1>1, <2>1, <3>1 DEF FolderInv, DeleteOK, SameTorrent
    <3>3. grabs[k].real \in Hashes
      BY DEF TypeOK, StoreTypeOK, Grab
    <3>. QED
      BY <1>1, <3>2, <3>3 DEF RemoveCache, TypeOK, StagingTypeOK
  <2>. QED
    BY <1>1, <2>1, UntouchedFolder
<1>. QED
  BY <1>1, <1>2, <1>3, <1>4, UntouchedTorrent, UntouchedRecord, HandlerFrame

LEMMA DeleteFolders ==
  ASSUME Stepping, NEW d \in Deleters, RunDelete(d)
  PROVE  FolderInv'
<1>. USE DEF Stepping, ClaimInv
<1>1. CASE DeleteTree(d) \/ DeleteCount(d) \/ DeleteCache(d)
  BY <1>1, DeleteTreeFolders, DeleteCountFolders, DeleteCacheFolders
<1>2. CASE DeleteGet(d) \/ DeleteRecord(d)
  <2>1. /\ UNCHANGED <<torrents, pc, key, grab, todo, saved, cache>>
        /\ UNCHANGED grabs \/ Delete(del[d].key)
    BY <1>2 DEF RunDelete, GrabberIdle, DeleteGet, DeleteRecord
  <2>2. /\ del'[d].pc \notin {"count", "cache"}
        /\ \A e \in Deleters \ {d} : DelKept(e)
    BY <1>2 DEF DeleteGet, DeleteRecord, NoDel, DelKept, TypeOK, ShimTypeOK
  <2>3. DeleteOK(d)'
    BY <2>2 DEF DeleteOK
  <2>4. del[d].key \in Hashes
    BY DEF TypeOK, ShimTypeOK
  <2>5. \A k \in Hashes : RecordKept(k)
    BY <2>1, <2>4, DeleteKeeps, UntouchedRecord
  <2>. QED
    BY <2>1, <2>2, <2>3, <2>5, UntouchedTorrent, UntouchedFiles, HandlerFrame
<1>. QED
  BY <1>1, <1>2 DEF RunDelete, DeleteStep

\* A request that comes in.
LEMMA RequestFolders ==
  ASSUME Stepping,
         \/ \E s \in Searchers, p \in Packs : Search(s, p)
         \/ \E a \in Adders, k \in Hashes : Add(a, k)
         \/ \E d \in Deleters, k \in Hashes : DeleteGrab(d, k)
  PROVE  FolderInv'
<1>. USE DEF Stepping, ClaimInv
<1>1. UNCHANGED <<grabs, torrents, pc, key, grab, todo, saved, cache>>
  BY DEF Search, SearchStart, Add, AddGet, DeleteGrab, DeleteStart, GrabberIdle
<1>2. ASSUME NEW d \in Deleters PROVE DelKept(d) \/ del'[d].pc \notin {"count", "cache"}
  BY DEF Search, SearchStart, Add, AddGet, DeleteGrab, DeleteStart, DelKept, TypeOK, ShimTypeOK
<1>3. \A d \in Deleters : DelKept(d) \/ DeleteOK(d)'
  BY <1>2 DEF DeleteOK
<1>. QED
  BY <1>1, <1>3, UntouchedTorrent, UntouchedRecord, UntouchedFiles, HandlerFrame

\* After a restart nobody holds anything.
LEMMA RestartFolders ==
  ASSUME Stepping, Restart
  PROVE  FolderInv'
<1>1. \A w \in Workers : HandOK(w)'
  BY EmptyHanded DEF Restart, GrabberRestart, Handling, Registering, Locked, Probing, Materialising
<1>2. \A d \in Deleters : DeleteOK(d)'
  BY DEF Restart, ShimRestart, NoDel, DeleteOK
<1>. QED
  BY <1>1, <1>2, UntouchedTorrent, UntouchedRecord, UntouchedFiles, FolderFrame DEF Stepping, Restart

-------------------------------------------------------------------------------
LEMMA InitFolders == Init => FolderInv
<1>. SUFFICES ASSUME Init PROVE FolderInv
  OBVIOUS
<1>1. ASSUME NEW k \in Hashes PROVE KindOK(k) /\ IdOK(k) /\ FolderOK(k) /\ ReadyOK(k)
  BY DEF Init, StoreInit, StagingInit, Absent, NoSaved, KindOK, IdOK, FolderOK, ReadyOK, Stored
<1>2. \A t \in TorrentIds : TorrentOK(t)
  BY DEF Init, RDInit, Unused, TorrentOK
<1>3. \A w \in Workers : HandOK(w)
  BY DEF Init, GrabberInit, HandOK, ViewOK, ProbeOK, FilesOK, Registering, Locked, Probing, Materialising
<1>4. \A d \in Deleters : DeleteOK(d)
  BY DEF Init, ShimInit, NoDel, DeleteOK
<1>. QED
  BY <1>1, <1>2, <1>3, <1>4 DEF FolderInv

LEMMA NextFolders == ClaimInv /\ ClaimInv' /\ TorrentInv /\ FolderInv /\ [Next]_vars => FolderInv'
<1>. SUFFICES ASSUME ClaimInv, ClaimInv', TorrentInv, FolderInv, [Next]_vars PROVE FolderInv'
  OBVIOUS
<1>1. CASE UNCHANGED vars
  <2>1. FolderInv' <=> FolderInv
    BY <1>1 DEF vars, FolderInv, KindOK, IdOK, FolderOK, ReadyOK, TorrentOK, HandOK, ViewOK, ProbeOK,
       FilesOK, DeleteOK, Stored, Has, Own, Wanted, CurrentFile
  <2>. QED
    BY <2>1
<1>2. CASE Next
  <2>1. Stepping
    BY <1>2 DEF Stepping, Next, RunTick, RunWorker, RunRealDebrid, TorrentDies, Search, RunSearch, Add,
       RunAdd, DeleteGrab, RunDelete, Crash, Panic, Restart, ShimIdle, GrabberIdle
  <2>2. CASE \E k \in Hashes : RunTick(k)
    BY <2>1, <2>2, TickFolders
  <2>3. CASE \E w \in Workers : RunWorker(w)
    BY <2>1, <2>3, WorkerFolders
  <2>4. CASE \E t \in TorrentIds : RunRealDebrid(t) \/ TorrentDies(t)
    BY <2>1, <2>4, RDFolders
  <2>5. CASE \/ \E s \in Searchers, p \in Packs : Search(s, p)
             \/ \E a \in Adders, k \in Hashes : Add(a, k)
             \/ \E d \in Deleters, k \in Hashes : DeleteGrab(d, k)
    BY <2>1, <2>5, RequestFolders
  <2>6. CASE \E s \in Searchers : RunSearch(s)
    BY <2>1, <2>6, SearchFolders
  <2>7. CASE \E a \in Adders : RunAdd(a)
    BY <2>1, <2>7, AddFolders
  <2>8. CASE \E d \in Deleters : RunDelete(d)
    BY <2>1, <2>8, DeleteFolders
  <2>9. CASE Crash \/ Panic
    BY <2>1, <2>9, RestartFolders DEF Crash, Panic
  <2>. QED
    BY <1>2, <2>2, <2>3, <2>4, <2>5, <2>6, <2>7, <2>8, <2>9 DEF Next
<1>. QED
  BY <1>1, <1>2

\* The three invariants hold together in every reachable state.
THEOREM FolderInvariant == Spec => [](ClaimInv /\ TorrentInv /\ FolderInv)
<1>1. Init => FolderInv
  BY InitFolders
<1>2. ClaimInv /\ ClaimInv' /\ TorrentInv /\ FolderInv /\ [Next]_vars => FolderInv'
  BY NextFolders
<1>. QED
  BY <1>1, <1>2, TorrentInvariant, PTL DEF Spec

(***************************************************************************)
(* The folder of a season's grab holds that season's files of that torrent *)
(* only (materialise's filter), through deletes, new adds, faults and      *)
(* crashes, as long as the grab is not disturbed.                          *)
(***************************************************************************)
THEOREM SeasonsAreIsolated == Spec => []SeasonIsolation
<1>1. FolderInv => SeasonIsolation
  <2>1. SUFFICES ASSUME FolderInv, NEW k \in Hashes \ disturbed, Stored(k), grabs[k].season # 0,
                        NEW f \in saved[k].hard \union {t[2] : t \in saved[k].soft}
                 PROVE  SeasonOf[f] = grabs[k].season /\ TorrentOf[f] = grabs[k].real
    BY DEF SeasonIsolation
  <2>2. /\ grabs[k].real \in Packs /\ grabs[k].season \in Seasons \ {0}
        /\ k = SyntheticInfohash(grabs[k].real, grabs[k].season)
    BY <2>1 DEF FolderInv, KindOK
  <2>3. Own(k, f)
    BY <2>1 DEF FolderInv, FolderOK
  <2>. QED
    BY <2>2, <2>3 DEF Own
<1>. QED
  BY <1>1, FolderInvariant, PTL

(***************************************************************************)
(* What Real-Debrid has fetched for a ready grab can be read in its folder *)
(* (StateReady after materialise), although siblings share the cache and   *)
(* deletes remove it, as long as the grab is not disturbed.                *)
(***************************************************************************)
THEOREM ReadyKeepsItsFiles == Spec => []ReadyHasSelected
<1>1. ClaimInv /\ TorrentInv /\ FolderInv => ReadyHasSelected
  <2>1. SUFFICES ASSUME ClaimInv, TorrentInv, FolderInv, NEW k \in Hashes \ disturbed,
                        grabs[k].state = "ready", grabs[k].rd # NoTorrent,
                        NEW f \in torrents[grabs[k].rd].selected, grabs[k].season \in {0, SeasonOf[f]}
                 PROVE  f \in Readable(k)
    BY DEF ReadyHasSelected
  <2>2. f \in Files /\ grabs[k].real \in Hashes
    BY <2>1, SelectedAreFiles DEF ClaimInv, TypeOK, StoreTypeOK, Grab, TorrentInv, SharedOK, RDOK
  <2>3. Has(k, f)
    BY <2>1 DEF FolderInv, ReadyOK
  <2>. QED
    BY <2>2, <2>3 DEF Has, Readable
<1>. QED
  BY <1>1, FolderInvariant, PTL
===============================================================================
