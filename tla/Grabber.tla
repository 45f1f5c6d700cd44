------------------------------- MODULE Grabber -------------------------------
(***************************************************************************)
(* internal/grabber/grabber.go: the poll loop that starts one goroutine    *)
(* per active grab, and the goroutine that takes the grab one stage        *)
(* further: addMagnet under the per-torrent lock, probe, file selection,   *)
(* download to the cache, links for Sonarr, and the failure path that asks *)
(* Sonarr for another release.                                             *)
(*                                                                         *)
(* A worker is a goroutine.  Its steps are cut at every call that leaves   *)
(* the process, at every store operation and at every file operation, so   *)
(* other goroutines and HTTP handlers interleave there.  The local `grab`  *)
(* of advance is kept in grab[w] as it was when fetched, see Store.        *)
(***************************************************************************)
EXTENDS RealDebrid, Staging

CONSTANTS
  Workers,           \* goroutines that can exist at a time
  NoHash,            \* key of an idle worker
  SonarrConfigured,  \* Grabber.Sonarr # nil
  Attempts           \* polls of Sonarr's queue, 18 in handlePermanentFailure

ASSUME GrabberAssumption ==
  /\ NoHash \notin Hashes
  /\ NoTorrent \notin Workers
  /\ SonarrConfigured \in BOOLEAN
  /\ Attempts \in Nat \ {0}

VARIABLES
  inflight,   \* Grabber.inflight: the hashes a goroutine has claimed
  addLock,    \* rdAddLocks: the holder of each real hash's mutex
  pc, key, grab,
  todo,       \* files still to link (materialise) or to select
  retry       \* permanent: what the error was; tries: polls of the queue

workerVars == <<inflight, addLock, pc, key, grab, todo, retry>>

Free == NoTorrent   \* an unlocked mutex

Stages == {"idle", "get", "lock", "scan", "adding", "store", "refetch", "probe",
           "select", "selecting", "mkdir", "file", "download", "rename", "link",
           "ready", "fail", "poll", "blocklist", "clear"}

View == [real : Hashes, season : Nat, rd : TorrentIds \union {NoTorrent}]
NoView == [real |-> CHOOSE h \in Hashes : TRUE, season |-> 0, rd |-> NoTorrent]
NoRetry == [permanent |-> FALSE, tries |-> 0]

GrabberInit ==
  /\ inflight = {}
  /\ addLock = [r \in Hashes |-> Free]
  /\ pc = [w \in Workers |-> "idle"]
  /\ key = [w \in Workers |-> NoHash]
  /\ grab = [w \in Workers |-> NoView]
  /\ todo = [w \in Workers |-> {}]
  /\ retry = [w \in Workers |-> NoRetry]

GrabberRestart ==
  /\ inflight' = {}
  /\ addLock' = [r \in Hashes |-> Free]
  /\ pc' = [w \in Workers |-> "idle"]
  /\ key' = [w \in Workers |-> NoHash]
  /\ grab' = [w \in Workers |-> NoView]
  /\ todo' = [w \in Workers |-> {}]
  /\ retry' = [w \in Workers |-> NoRetry]

ViewOf(k) == [real |-> grabs[k].real, season |-> grabs[k].season, rd |-> grabs[k].rd]

Goto(w, stage) == pc' = [pc EXCEPT ![w] = stage]

\* The goroutine returns and its deferred inflight.Delete runs.
Finish(w) ==
  /\ inflight' = inflight \ {key[w]}
  /\ pc' = [pc EXCEPT ![w] = "idle"]
  /\ key' = [key EXCEPT ![w] = NoHash]
  /\ grab' = [grab EXCEPT ![w] = NoView]
  /\ todo' = [todo EXCEPT ![w] = {}]
  /\ retry' = [retry EXCEPT ![w] = NoRetry]

\* advance returns an error.
Raise(w, permanent) ==
  /\ pc' = [pc EXCEPT ![w] = "fail"]
  /\ retry' = [retry EXCEPT ![w].permanent = permanent]
  /\ todo' = [todo EXCEPT ![w] = {}]

\* The calls to Real-Debrid fail this way ("lost" only where it matters).
RaiseFault(w) == \E fault \in Faults : Raise(w, fault = "permanent")

Unlock(r) == addLock' = [addLock EXCEPT ![r] = Free]

-------------------------------------------------------------------------------
(***************************************************************************)
(* tick, for one grab of the list: the state read through the listed       *)
(* pointer and the LoadOrStore on inflight are one step.                   *)
(***************************************************************************)
\* Mutant: what a search has registered is work, too.
ActiveRegistered(k) == grabs[k].state \in {"registered", "queued", "downloading"}

Active(k) == grabs[k].state \in {"queued", "downloading"}

\* Mutant: the claim on inflight is not looked at.
TickUnclaimed(w, k) ==
  /\ pc[w] = "idle"
  /\ Active(k)
  /\ inflight' = inflight \union {k}
  /\ key' = [key EXCEPT ![w] = k]
  /\ Goto(w, "get")
  /\ UNCHANGED <<grabs, torrents, saved, cache, addLock, grab, todo, retry>>

\* Mutant: ready grabs are taken up again.
TickFinished(w, k) ==
  /\ pc[w] = "idle"
  /\ Active(k) \/ grabs[k].state = "ready"
  /\ k \notin inflight
  /\ inflight' = inflight \union {k}
  /\ key' = [key EXCEPT ![w] = k]
  /\ Goto(w, "get")
  /\ UNCHANGED <<grabs, torrents, saved, cache, addLock, grab, todo, retry>>

Tick(w, k) ==
  /\ pc[w] = "idle"
  /\ Active(k)
  /\ k \notin inflight
  /\ inflight' = inflight \union {k}
  /\ key' = [key EXCEPT ![w] = k]
  /\ Goto(w, "get")
  /\ UNCHANGED <<grabs, torrents, saved, cache, addLock, grab, todo, retry>>

GetGrab(w) ==
  /\ pc[w] = "get"
  /\ IF Stored(key[w])
     THEN /\ grab' = [grab EXCEPT ![w] = ViewOf(key[w])]
          /\ Goto(w, IF grabs[key[w]].rd = NoTorrent THEN "lock" ELSE "probe")
          /\ UNCHANGED <<inflight, key, todo, retry>>
     ELSE Finish(w)
  /\ UNCHANGED <<grabs, torrents, saved, cache, addLock>>

\* Mutant: the mutex is a fresh one each time.
LockNothing(w) ==
  /\ pc[w] = "lock"
  /\ addLock' = [addLock EXCEPT ![grab[w].real] = w]
  /\ Goto(w, "scan")
  /\ UNCHANGED <<grabs, torrents, saved, cache, inflight, key, grab, todo, retry>>

LockRealHash(w) ==
  /\ pc[w] = "lock"
  /\ addLock[grab[w].real] = Free
  /\ addLock' = [addLock EXCEPT ![grab[w].real] = w]
  /\ Goto(w, "scan")
  /\ UNCHANGED <<grabs, torrents, saved, cache, inflight, key, grab, todo, retry>>

\* The siblings whose torrent can be reused; advance takes the first by season.
Owners(r) == {k \in ByRealHash(r) : grabs[k].rd # NoTorrent}
FirstOwners(r) == {k \in Owners(r) : \A j \in Owners(r) : grabs[k].season <= grabs[j].season}

\* Mutant: only the grab's own id is looked for.
ScanNobody(w) ==
  /\ pc[w] = "scan"
  /\ Goto(w, "adding")
  /\ UNCHANGED <<grabs, torrents, saved, cache, inflight, addLock, key, grab, todo, retry>>

\* The own record comes first; it has no id yet, see the README.
ScanSiblings(w) ==
  /\ pc[w] = "scan"
  /\ IF grabs[key[w]].rd # NoTorrent
     THEN /\ grab' = [grab EXCEPT ![w] = ViewOf(key[w])]
          /\ Unlock(grab[w].real)
          /\ Goto(w, "probe")
     ELSE IF Owners(grab[w].real) = {}
     THEN /\ Goto(w, "adding")
          /\ UNCHANGED <<addLock, grab>>
     ELSE /\ \E k \in FirstOwners(grab[w].real) : grab' = [grab EXCEPT ![w].rd = grabs[k].rd]
          /\ Goto(w, "store")
          /\ UNCHANGED addLock
  /\ UNCHANGED <<grabs, torrents, saved, cache, inflight, key, todo, retry>>

AddMagnet(w) ==
  /\ pc[w] = "adding"
  /\ \E t \in TorrentIds :
       /\ RDAddMagnet(t, grab[w].real)
       /\ grab' = [grab EXCEPT ![w].rd = t]
  /\ Goto(w, "store")
  /\ UNCHANGED <<grabs, saved, cache, inflight, addLock, key, todo, retry>>

\* Mutant: the error return keeps the lock.
AddMagnetFailsLocked(w) ==
  /\ pc[w] = "adding"
  /\ RaiseFault(w)
  /\ UNCHANGED <<grabs, torrents, saved, cache, inflight, addLock, key, grab>>

\* The call fails, always when the account has no room for a torrent
\* (TorrentIds is used up), and the lock is released on the way out.
AddMagnetFails(w) ==
  /\ pc[w] = "adding"
  /\ \/ /\ RaiseFault(w)
        /\ UNCHANGED torrents
     \/ /\ "lost" \in Faults
        /\ \E t \in TorrentIds : RDAddMagnet(t, grab[w].real)
        /\ Raise(w, FALSE)
     \/ /\ FreeIds = {}
        /\ Raise(w, FALSE)
        /\ UNCHANGED torrents
  /\ Unlock(grab[w].real)
  /\ UNCHANGED <<grabs, saved, cache, inflight, key, grab>>

StoreTorrent(w) ==
  /\ pc[w] = "store"
  /\ Update(key[w], [grabs[key[w]] EXCEPT !.rd = grab[w].rd, !.state = "downloading"])
  /\ Unlock(grab[w].real)
  /\ Goto(w, "refetch")
  /\ UNCHANGED <<torrents, saved, cache, inflight, key, grab, todo, retry>>

\* grab, _ = Store.Get: when the grab is gone the nil pointer is followed at
\* once and the process dies, see Panic in SeasonSplitarr.
Refetch(w) ==
  /\ pc[w] = "refetch"
  /\ Stored(key[w])
  /\ grab' = [grab EXCEPT ![w] = ViewOf(key[w])]
  /\ Goto(w, "probe")
  /\ UNCHANGED <<grabs, torrents, saved, cache, inflight, addLock, key, todo, retry>>

Panics(w) == pc[w] = "refetch" /\ ~Stored(key[w])

-------------------------------------------------------------------------------
\* Mutant: no season filter.
WantedAll(w, t) == torrents[t].selected

\* The selected files materialise keeps: all for a passthrough grab.
Wanted(w, t) ==
  {f \in torrents[t].selected : grab[w].season \in {0, SeasonOf[f]}}

\* TorrentInfo answers.  A status that is neither waiting nor downloaded,
\* the terminal ones included, only updates the progress figures.
Probe(w) ==
  /\ pc[w] = "probe"
  /\ LET t == grab[w].rd
     IN CASE RDStatus(t) = "none" ->
               \* an empty id: /torrents/info/ is not found
               /\ \E permanent \in BOOLEAN : Raise(w, permanent)
               /\ UNCHANGED <<inflight, key, grab>>
          [] RDStatus(t) = "waiting_files_selection" ->
               /\ Goto(w, "select")
               /\ UNCHANGED <<inflight, key, grab, todo, retry>>
          [] RDStatus(t) = "downloaded" ->
               /\ Goto(w, "mkdir")
               /\ todo' = [todo EXCEPT ![w] = Wanted(w, t)]
               /\ UNCHANGED <<inflight, key, grab, retry>>
          [] OTHER -> Finish(w)
  /\ UNCHANGED <<grabs, torrents, saved, cache, addLock>>

\* A call that failed before it changed anything: TorrentInfo, SelectFiles and
\* Unrestrict.
CallFails(w) ==
  /\ pc[w] \in {"probe", "selecting", "download"}
  /\ RaiseFault(w)
  /\ UNCHANGED <<grabs, torrents, saved, cache, inflight, addLock, key, grab>>

\* Mutant: only the siblings being worked on.
FileIDsOfActive(r, t) ==
  {f \in FilesOf(torrents[t].hash) : \E k \in ByRealHash(r) : Active(k) /\ grabs[k].season = SeasonOf[f]}

\* Registered siblings count, a passthrough one asks for every file.
FileIDsForGrabs(r, t) ==
  LET seasons == {grabs[k].season : k \in ByRealHash(r)}
      files   == FilesOf(torrents[t].hash)
  IN IF 0 \in seasons THEN files
     ELSE {f \in files : SeasonOf[f] > 0 /\ SeasonOf[f] \in seasons}

ChooseFiles(w) ==
  /\ pc[w] = "select"
  /\ LET ids == FileIDsForGrabs(grab[w].real, grab[w].rd)
     IN IF ids = {}
        THEN Raise(w, FALSE)
        ELSE /\ todo' = [todo EXCEPT ![w] = ids]
             /\ Goto(w, "selecting")
             /\ UNCHANGED retry
  /\ UNCHANGED <<grabs, torrents, saved, cache, inflight, addLock, key, grab>>

SelectFiles(w) ==
  /\ pc[w] = "selecting"
  /\ RDSelect(grab[w].rd, todo[w])
  /\ Finish(w)
  /\ UNCHANGED <<grabs, saved, cache, addLock>>

-------------------------------------------------------------------------------
(***************************************************************************)
(* materialise.  The file at hand is the one the loop is at: files[] is in *)
(* a fixed order, CurrentFile stands for it.                               *)
(***************************************************************************)
CurrentFile(w) == CHOOSE f \in todo[w] : TRUE

\* Mutant: a sibling's download is taken for this grab's.
MkdirTrustingCache(w) ==
  /\ pc[w] = "mkdir"
  /\ MakeDirs(key[w], grab[w].real)
  /\ Goto(w, IF cache[grab[w].real].files = {} THEN "file" ELSE "ready")
  /\ UNCHANGED <<grabs, torrents, inflight, addLock, key, grab, todo, retry>>

MkdirAll(w) ==
  /\ pc[w] = "mkdir"
  /\ MakeDirs(key[w], grab[w].real)
  /\ Goto(w, "file")
  /\ UNCHANGED <<grabs, torrents, inflight, addLock, key, grab, todo, retry>>

\* os.Stat(cachePath) decides whether to download; after the last file the
\* caller marks the grab ready.
NextFile(w) ==
  /\ pc[w] = "file"
  /\ Goto(w, IF todo[w] = {} THEN "ready"
             ELSE IF CurrentFile(w) \in cache[grab[w].real].files THEN "link"
             ELSE "download")
  /\ UNCHANGED <<grabs, torrents, saved, cache, inflight, addLock, key, grab, todo, retry>>

\* os.Create needs the cache directory, which a delete may have removed.
Download(w) ==
  /\ pc[w] = "download"
  /\ IF cache[grab[w].real].dir
     THEN /\ CreatePart(grab[w].real, CurrentFile(w))
          /\ Goto(w, "rename")
          /\ UNCHANGED <<todo, retry>>
     ELSE /\ Raise(w, FALSE)
          /\ UNCHANGED cache
  /\ UNCHANGED <<grabs, torrents, saved, inflight, addLock, key, grab>>

\* DownloadFile fails on the way; the part of a sibling goes as well.
StreamFails(w) ==
  /\ pc[w] = "rename"
  /\ RemovePart(grab[w].real, CurrentFile(w))
  /\ RaiseFault(w)
  /\ UNCHANGED <<grabs, torrents, saved, inflight, addLock, key, grab>>

Rename(w) ==
  /\ pc[w] = "rename"
  /\ IF CurrentFile(w) \in cache[grab[w].real].part
     THEN /\ RenamePart(grab[w].real, CurrentFile(w))
          /\ Goto(w, "link")
          /\ UNCHANGED <<todo, retry>>
     ELSE /\ Raise(w, FALSE)
          /\ UNCHANGED cache
  /\ UNCHANGED <<grabs, torrents, saved, inflight, addLock, key, grab>>

Link(w) ==
  /\ pc[w] = "link"
  /\ IF saved[key[w]].dir
     THEN /\ LinkFile(key[w], grab[w].real, CurrentFile(w))
          /\ todo' = [todo EXCEPT ![w] = @ \ {CurrentFile(w)}]
          /\ Goto(w, "file")
          /\ UNCHANGED retry
     ELSE /\ Raise(w, FALSE)
          /\ UNCHANGED saved
  /\ UNCHANGED <<grabs, torrents, cache, inflight, addLock, key, grab>>

MarkReady(w) ==
  /\ pc[w] = "ready"
  /\ SetState(key[w], "ready")
  /\ Finish(w)
  /\ UNCHANGED <<torrents, saved, cache, addLock>>

-------------------------------------------------------------------------------
\* Mutant: the claim is given up before Sonarr's queue is polled.
MarkErrorReleasing(w) ==
  /\ pc[w] = "fail"
  /\ SetState(key[w], "error")
  /\ Goto(w, "poll")
  /\ inflight' = inflight \ {key[w]}
  /\ UNCHANGED <<torrents, saved, cache, addLock, key, grab, todo, retry>>

\* tick's error branch, and handlePermanentFailure after it.
MarkError(w) ==
  /\ pc[w] = "fail"
  /\ SetState(key[w], "error")
  /\ IF retry[w].permanent /\ SonarrConfigured
     THEN /\ Goto(w, "poll")
          /\ UNCHANGED <<inflight, key, grab, todo, retry>>
     ELSE Finish(w)
  /\ UNCHANGED <<torrents, saved, cache, addLock>>

\* FindByDownloadID.  Sonarr's queue lags behind, so it may or may not have
\* the grab; a lookup that fails ends the goroutine like the last miss does.
PollSonarr(w) ==
  /\ pc[w] = "poll"
  /\ \/ /\ Goto(w, "blocklist")
        /\ UNCHANGED <<inflight, key, grab, todo, retry>>
     \/ IF retry[w].tries + 1 < Attempts
        THEN /\ retry' = [retry EXCEPT ![w].tries = @ + 1]
             /\ UNCHANGED <<inflight, pc, key, grab, todo>>
        ELSE Finish(w)
     \/ /\ Faults # {}
        /\ Finish(w)
  /\ UNCHANGED <<grabs, torrents, saved, cache, addLock>>

RemoveAndBlocklist(w) ==
  /\ pc[w] = "blocklist"
  /\ \/ /\ Goto(w, "clear")
        /\ UNCHANGED <<inflight, key, grab, todo, retry>>
     \/ /\ Faults # {}
        /\ Finish(w)
  /\ UNCHANGED <<grabs, torrents, saved, cache, addLock>>

ClearGrab(w) ==
  /\ pc[w] = "clear"
  /\ Delete(key[w])
  /\ Finish(w)
  /\ UNCHANGED <<torrents, saved, cache, addLock>>

Step(w) ==
  \/ GetGrab(w)      \/ LockRealHash(w)  \/ ScanSiblings(w) \/ AddMagnet(w)
  \/ AddMagnetFails(w) \/ StoreTorrent(w) \/ Refetch(w)     \/ Probe(w)
  \/ CallFails(w)    \/ ChooseFiles(w)   \/ SelectFiles(w)  \/ MkdirAll(w)
  \/ NextFile(w)     \/ Download(w)      \/ StreamFails(w)  \/ Rename(w)
  \/ Link(w)         \/ MarkReady(w)     \/ MarkError(w)    \/ PollSonarr(w)
  \/ RemoveAndBlocklist(w) \/ ClearGrab(w)

GrabberTypeOK ==
  /\ inflight \in SUBSET Hashes
  /\ addLock \in [Hashes -> Workers \union {Free}]
  /\ pc \in [Workers -> Stages]
  /\ key \in [Workers -> Hashes \union {NoHash}]
  /\ grab \in [Workers -> View]
  /\ todo \in [Workers -> SUBSET Files]
  /\ retry \in [Workers -> [permanent : BOOLEAN, tries : Nat]]
===============================================================================
