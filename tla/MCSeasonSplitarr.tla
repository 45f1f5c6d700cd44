--------------------------- MODULE MCSeasonSplitarr ---------------------------
(***************************************************************************)
(* Instances of SeasonSplitarr for TLC: a pack p of seasons 1 and 2 with   *)
(* one file each, and, where a run says so, the seasons of other titles.   *)
(***************************************************************************)
EXTENDS SeasonSplitarr, TLC

CONSTANTS p, f1, f2

MCTorrents == {p}
MCFiles == {f1, f2}
MCTorrentOf == [f \in MCFiles |-> p]
MCSeasonOf == [f \in MCFiles |-> IF f = f1 THEN 1 ELSE 2]

\* Goroutines, requests and torrent ids are interchangeable; safety runs only.
Symmetry ==
  Permutations(Workers) \union Permutations(Searchers) \union Permutations(TorrentIds)
===============================================================================
