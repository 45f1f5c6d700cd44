------------------------------- MODULE QbitShim -------------------------------
(***************************************************************************)
(* The HTTP handlers that change the grabs, and the Sonarr that calls      *)
(* them.  internal/qbittorrent/shim.go answers as a qBittorrent server     *)
(* would (torrents/add, torrents/delete); a search of the Torznab proxy    *)
(* calls RegisterSynthetic for every season it mints (splitItems, proxy.go *)
(* and cmd/seasonsplitarr/main.go wire the two).  net/http runs each       *)
(* request in its own goroutine, and a handler makes several store and     *)
(* file operations: each one is a step.                                    *)
(*                                                                         *)
(* Sonarr is external.  It adds what a search has answered, now or later   *)
(* (results stay cached in its interactive search), any number of times,   *)
(* and deletes what it has added.                                          *)
(***************************************************************************)
EXTENDS Store, Staging

CONSTANTS
  Searchers, Adders, Deleters   \* requests of each kind being served at a time

VARIABLES
  search,   \* a search: the pack it splits and the season it is at
  add,      \* a torrents/add request: what its Get found
  del,      \* a torrents/delete request: the operation it is at
  seen,     \* hashes Sonarr has in its search results
  grabbed   \* hashes Sonarr has sent to torrents/add

shimVars == <<search, add, del>>
sonarrVars == <<seen, grabbed>>

Anything == CHOOSE h \in Hashes : TRUE

NoSearch == [pc |-> "idle", pack |-> Anything, season |-> 0]
NoAdd == [pc |-> "idle", key |-> Anything]
NoDel == [pc |-> "idle", key |-> Anything, real |-> Anything]

SearchStages == {"idle", "get", "put"}
AddStages == {"idle", "update", "put"}
DelStages == {"idle", "get", "tree", "count", "cache", "store"}

ShimInit ==
  /\ search = [s \in Searchers |-> NoSearch]
  /\ add = [a \in Adders |-> NoAdd]
  /\ del = [d \in Deleters |-> NoDel]

ShimRestart ==
  /\ search' = [s \in Searchers |-> NoSearch]
  /\ add' = [a \in Adders |-> NoAdd]
  /\ del' = [d \in Deleters |-> NoDel]

SonarrInit == seen = Plain /\ grabbed = {}

-------------------------------------------------------------------------------
(***************************************************************************)
(* A search that finds pack p: splitItems registers its seasons one after  *)
(* the other, then the response goes out.                                  *)
(***************************************************************************)
SearchStart(s, p) ==
  /\ search[s].pc = "idle"
  /\ search' = [search EXCEPT ![s] = [pc |-> "get", pack |-> p, season |-> FirstSeason]]
  /\ UNCHANGED <<grabs, saved, cache, add, del, seen, grabbed>>

Advertised(s) == SyntheticInfohash(search[s].pack, search[s].season)

\* RegisterSynthetic, its Get: what is stored is left alone.
RegisterGet(s) ==
  /\ search[s].pc = "get"
  /\ search[s].season <= LastSeason
  /\ search' = IF Stored(Advertised(s))
               THEN [search EXCEPT ![s].season = @ + 1]
               ELSE [search EXCEPT ![s].pc = "put"]
  /\ UNCHANGED <<grabs, saved, cache, add, del, seen, grabbed>>

\* Its Put, whatever has been stored since.
RegisterPut(s) ==
  /\ search[s].pc = "put"
  /\ Put(Advertised(s), NewGrab("registered", search[s].pack, search[s].season))
  /\ search' = [search EXCEPT ![s].pc = "get", ![s].season = @ + 1]
  /\ UNCHANGED <<saved, cache, add, del, seen, grabbed>>

SearchDone(s) ==
  /\ search[s].pc = "get"
  /\ search[s].season > LastSeason
  /\ seen' = seen \union {SyntheticInfohash(search[s].pack, n) : n \in Seasons}
  /\ search' = [search EXCEPT ![s] = NoSearch]
  /\ UNCHANGED <<grabs, saved, cache, add, del, grabbed>>

-------------------------------------------------------------------------------
\* handleAdd: Get decides between promoting the grab and a passthrough one.
AddGet(a, k) ==
  /\ add[a].pc = "idle"
  /\ k \in seen
  /\ add' = [add EXCEPT ![a] = [pc |-> IF Stored(k) THEN "update" ELSE "put", key |-> k]]
  /\ grabbed' = grabbed \union {k}
  /\ UNCHANGED <<grabs, saved, cache, search, del, seen>>

AddWrite(a) ==
  LET k == add[a].key
  IN /\ \/ add[a].pc = "update" /\ SetState(k, "queued")
        \/ add[a].pc = "put" /\ Put(k, NewGrab("queued", k, 0))
     /\ add' = [add EXCEPT ![a] = NoAdd]
     /\ UNCHANGED <<saved, cache, search, del, seen, grabbed>>

-------------------------------------------------------------------------------
\* handleDelete, for one hash; without deleteFiles only the record goes.
DeleteStart(d, k, deleteFiles) ==
  /\ del[d].pc = "idle"
  /\ k \in grabbed
  /\ del' = [del EXCEPT ![d] =
       [pc |-> IF deleteFiles THEN "get" ELSE "store", key |-> k, real |-> Anything]]
  /\ UNCHANGED <<grabs, saved, cache, search, add, seen, grabbed>>

DeleteGet(d) ==
  /\ del[d].pc = "get"
  /\ del' = IF Stored(del[d].key)
            THEN [del EXCEPT ![d].pc = "tree", ![d].real = grabs[del[d].key].real]
            ELSE [del EXCEPT ![d].pc = "store"]
  /\ UNCHANGED <<grabs, saved, cache, search, add, seen, grabbed>>

\* Mutant: the cache goes with the first of the siblings.
DeleteCountless(d) ==
  /\ del[d].pc = "count"
  /\ del' = [del EXCEPT ![d].pc = "cache"]
  /\ UNCHANGED <<grabs, saved, cache, search, add, seen, grabbed>>

\* removeGrabFiles: the grab's folder, then the cache if no other grab,
\* Registered ones included, has the same RealHash.
DeleteTree(d) ==
  /\ del[d].pc = "tree"
  /\ RemoveSaved(del[d].key)
  /\ del' = [del EXCEPT ![d].pc = "count"]
  /\ UNCHANGED <<grabs, cache, search, add, seen, grabbed>>

DeleteCount(d) ==
  /\ del[d].pc = "count"
  /\ del' = [del EXCEPT ![d].pc =
       IF ByRealHash(del[d].real) \ {del[d].key} = {} THEN "cache" ELSE "store"]
  /\ UNCHANGED <<grabs, saved, cache, search, add, seen, grabbed>>

DeleteCache(d) ==
  /\ del[d].pc = "cache"
  /\ RemoveCache(del[d].real)
  /\ del' = [del EXCEPT ![d].pc = "store"]
  /\ UNCHANGED <<grabs, saved, search, add, seen, grabbed>>

DeleteRecord(d) ==
  /\ del[d].pc = "store"
  /\ Delete(del[d].key)
  /\ del' = [del EXCEPT ![d] = NoDel]
  /\ UNCHANGED <<saved, cache, search, add, seen, grabbed>>

SearchStep(s) == RegisterGet(s) \/ RegisterPut(s) \/ SearchDone(s)

DeleteStep(d) ==
  DeleteGet(d) \/ DeleteTree(d) \/ DeleteCount(d) \/ DeleteCache(d) \/ DeleteRecord(d)

ShimTypeOK ==
  /\ search \in [Searchers -> [pc : SearchStages, pack : Hashes, season : Nat]]
  /\ add \in [Adders -> [pc : AddStages, key : Hashes]]
  /\ del \in [Deleters -> [pc : DelStages, key : Hashes, real : Hashes]]
  /\ seen \in SUBSET Hashes
  /\ grabbed \in SUBSET Hashes
===============================================================================
