\* A grab is deleted while its goroutine works.
SPECIFICATION Spec
CONSTANTS
  p = p
  f1 = f1
  f2 = f2
  Torrents <- MCTorrents
  Packs <- MCTorrents
  Plain = {}
  FirstSeason = 1
  LastSeason = 2
  Files <- MCFiles
  TorrentOf <- MCTorrentOf
  SeasonOf <- MCSeasonOf
  TorrentIds = {t1, t2}
  NoTorrent = NoTorrent
  Faults = {}
  RDMayDie = FALSE
  HardLinks = TRUE
  Workers = {w1, w2}
  NoHash = NoHash
  SonarrConfigured = FALSE
  Attempts = 1
  Searchers = {s1}
  Adders = {a1}
  Deleters = {d1}
  MaxSearches = 1
  MaxAdds = 1
  MaxDeletes = 1
  MaxCrashes = 0
INVARIANTS MissingGrabEndsQuietly
\* The environment's bounds are used up and every grab is settled: the system may stop.
CHECK_DEADLOCK FALSE
