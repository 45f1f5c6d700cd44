------------------------------- MODULE Releases -------------------------------
(***************************************************************************)
(* The releases the bridge moves around: real torrents, the multi-season   *)
(* packs among them, and the synthetic per-season releases the Torznab     *)
(* proxy mints for a pack (internal/torznab/splitter.go).                  *)
(*                                                                         *)
(* An infohash is a value: a real torrent's hash is the torrent itself,    *)
(* and the synthetic hash of season s of pack p is <<p, s>>.  The code     *)
(* takes 20 bytes of sha256(lower(p) ":s" s); what the pair keeps of it is *)
(* that it is deterministic and injective and that no torrent has it.      *)
(***************************************************************************)
EXTENDS Naturals, FiniteSets

CONSTANTS
  Torrents,   \* infohashes Real-Debrid can resolve
  Packs,      \* those whose title Detect reads as a season range
  Plain,      \* those also offered unsplit (single episodes, other titles)
  FirstSeason, LastSeason,   \* the range Detect reads in a pack's title
  Files,      \* the files of all torrents
  TorrentOf,  \* TorrentOf[f]: the torrent file f belongs to
  SeasonOf    \* SeasonOf[f]: seasonparse.FromFilename, 0 when there is none

\* Detect asks for end > start and lets a range start at 0.
Seasons == FirstSeason..LastSeason

SyntheticInfohash(p, s) == <<p, s>>

SynthHashes == {SyntheticInfohash(p, s) : p \in Packs, s \in Seasons}

\* Every hash a Sonarr grab can carry (store.Grab.SynthHash).
Hashes == Torrents \union SynthHashes

ASSUME ReleasesAssumption ==
  /\ Torrents # {}
  /\ Packs \subseteq Torrents
  /\ Plain \subseteq Torrents
  /\ FirstSeason \in Nat
  /\ LastSeason \in Nat
  /\ FirstSeason < LastSeason
  /\ TorrentOf \in [Files -> Torrents]
  /\ SeasonOf \in [Files -> Nat]
  /\ Torrents \intersect SynthHashes = {}

FilesOf(r) == {f \in Files : TorrentOf[f] = r}

(***************************************************************************)
(* The real infohash RegisterSynthetic stores for a synthetic hash; a hash *)
(* handled as passthrough stands for itself.                               *)
(***************************************************************************)
PackOf(k) == IF k \in SynthHashes THEN k[1] ELSE k
===============================================================================
