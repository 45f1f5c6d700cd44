\* Calls fail or lose their reply, torrents die, the process dies once, and the
\* staging tree and the cache are on two devices.
SPECIFICATION Spec
CONSTANTS
  p = p
  f1 = f1
  f2 = f2
  Torrents <- MCTorrents
  Packs <- MCTorrents
  Plain = {}
  FirstSeason = 1
  LastSeason = 2
  Files <- MCFiles
  TorrentOf <- MCTorrentOf
  SeasonOf <- MCSeasonOf
  TorrentIds = {t1, t2}
  NoTorrent = NoTorrent
  Faults = {"permanent", "lost"}
  RDMayDie = TRUE
  HardLinks = FALSE
  Workers = {w1, w2}
  NoHash = NoHash
  SonarrConfigured = TRUE
  Attempts = 1
  Searchers = {s1}
  Adders = {a1}
  Deleters = {d1}
  MaxSearches = 1
  MaxAdds = 2
  MaxDeletes = 1
  MaxCrashes = 1
SYMMETRY Symmetry
  
INVARIANTS OneAdvancePerGrab SiblingsShareTorrent SeasonIsolation ReadyHasSelected
\* The environment's bounds are used up and every grab is settled: the system may stop.
CHECK_DEADLOCK FALSE
