------------------------------ MODULE RealDebrid ------------------------------
(***************************************************************************)
(* Real-Debrid, as internal/debrid/realdebrid.go talks to it.  External:   *)
(* the service is not in this repository, and what is kept of it is what   *)
(* the grabber's use of the client relies on.                              *)
(*   - addMagnet creates a new torrent every time; nothing is merged;      *)
(*   - a torrent first resolves its magnet (magnet_conversion), then waits *)
(*     for the caller to choose files, once, then downloads;               *)
(*   - a magnet whose infohash no torrent has never resolves;              *)
(*   - links[] answers for the selected files, in the order of files[];    *)
(*   - a torrent may end in error, dead, virus or magnet_error instead     *)
(*     ("error" below), and leaves that state never.                       *)
(* Torrents are never removed: the program does not call DeleteTorrent.    *)
(***************************************************************************)
EXTENDS Store

CONSTANTS
  Faults,     \* how a call may fail, see below
  RDMayDie    \* whether a torrent may end in a terminal error status

\* transient: an error retrying might cure; permanent: one that
\* isPermanentFailure recognises; lost: the request is carried out and the
\* 30 s client timeout eats the reply.
ASSUME RealDebridAssumption ==
  /\ Faults \subseteq {"transient", "permanent", "lost"}
  /\ RDMayDie \in BOOLEAN

VARIABLE torrents

Status == {"none", "magnet_conversion", "waiting_files_selection",
           "downloading", "downloaded", "error"}

Torrent == [status : Status, hash : Hashes \union {NoTorrent}, selected : SUBSET Files]

Unused == [status |-> "none", hash |-> NoTorrent, selected |-> {}]

RDInit == torrents = [t \in TorrentIds |-> Unused]

RDStatus(t) == IF t = NoTorrent THEN "none" ELSE torrents[t].status

FreeIds == {t \in TorrentIds : torrents[t].status = "none"}

\* addMagnet with a magnet for hash h answers the new id t.
RDAddMagnet(t, h) ==
  /\ t \in FreeIds
  /\ torrents' = [torrents EXCEPT ![t] =
       [status |-> "magnet_conversion", hash |-> h, selected |-> {}]]

\* selectFiles; the choice is accepted once, a later call changes nothing.
RDSelect(t, files) ==
  torrents' = IF RDStatus(t) = "waiting_files_selection"
              THEN [torrents EXCEPT ![t].status = "downloading", ![t].selected = files]
              ELSE torrents

RDConvert(t) ==
  /\ torrents[t].status = "magnet_conversion"
  /\ torrents[t].hash \in Torrents
  /\ torrents' = [torrents EXCEPT ![t].status = "waiting_files_selection"]

RDFinish(t) ==
  /\ torrents[t].status = "downloading"
  /\ torrents' = [torrents EXCEPT ![t].status = "downloaded"]

RDDie(t) ==
  /\ RDMayDie
  /\ torrents[t].status \in {"magnet_conversion", "downloading"}
  /\ torrents' = [torrents EXCEPT ![t].status = "error"]

RDProgress(t) == RDConvert(t) \/ RDFinish(t)

RDTypeOK == torrents \in [TorrentIds -> Torrent]
===============================================================================
