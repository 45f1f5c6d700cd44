-------------------------------- MODULE Store --------------------------------
(***************************************************************************)
(* internal/store/store.go: the grabs Sonarr asked for, or may ask for,    *)
(* keyed by synthetic hash.  Every operation runs under Store.mu and       *)
(* writes the whole file before it returns (write to .tmp, then rename),   *)
(* so an operation is one step and what it wrote survives a crash.         *)
(*                                                                         *)
(* Get hands out the stored *Grab itself, not a copy.  RealHash, Season    *)
(* and SavePath are set when the record is created and never again, and    *)
(* RDTorrentID is written only by the goroutine that has the grab in       *)
(* flight: for the fields kept here, a snapshot is what the pointer shows. *)
(* Bytes, titles, categories, dates and ContentPath are left out.          *)
(***************************************************************************)
EXTENDS Releases

CONSTANTS
  TorrentIds,  \* Real-Debrid torrent ids
  NoTorrent    \* RDTorrentID = ""

ASSUME StoreAssumption == NoTorrent \notin TorrentIds

VARIABLE grabs   \* Store.grabs, as a total function: see Absent

GrabStates == {"registered", "queued", "downloading", "ready", "error"}

Grab == [state : GrabStates \union {"absent"},
         real : Hashes, season : Nat, rd : TorrentIds \union {NoTorrent}]

\* Mutant: a zero Grab, which names no torrent.
AbsentZero(k) == [state |-> "absent", real |-> NoTorrent, season |-> 0, rd |-> NoTorrent]

\* The record of a hash the map has no entry for.
Absent(k) == [state |-> "absent", real |-> k, season |-> 0, rd |-> NoTorrent]

Stored(k) == grabs[k].state # "absent"

NewGrab(state, real, season) ==
  [state |-> state, real |-> real, season |-> season, rd |-> NoTorrent]

StoreInit == grabs = [k \in Hashes |-> Absent(k)]

Put(k, g) == grabs' = [grabs EXCEPT ![k] = g]

Delete(k) == grabs' = [grabs EXCEPT ![k] = Absent(k)]

\* Update does nothing when the grab is gone; its callers ignore that.
Update(k, g) == grabs' = IF Stored(k) THEN [grabs EXCEPT ![k] = g] ELSE grabs

SetState(k, state) == Update(k, [grabs[k] EXCEPT !.state = state])

ByRealHash(r) == {k \in Hashes : Stored(k) /\ grabs[k].real = r}

StoreTypeOK == grabs \in [Hashes -> Grab]
===============================================================================
