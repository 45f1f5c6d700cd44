\* Feed, names, store file, sessions, Sonarr's queue, downloads: one at a time.
SPECIFICATION PartsSpec
CONSTANTS
  \* FeedSplit: two upstreams
  a = a
  b = b
  base32 = base32
  Infohashes <- MCInfohashes
  Hex = {a, b}
  NoHash = NoHash
  NoBody = NoBody
  BadBody = BadBody
  Bodies <- MCBodies
  Upstreams = 2
  \* SeasonParse
  FilePaths <- MCFilePaths
  \* StoreFile: two callers, two grabs
  Keys = {k1, k2}
  Values = {v1, v2}
  None = None
  Callers = {c1, c2}
  Nobody = Nobody
  Missing = Missing
  Torn = Torn
  \* QbitApi: two requests at a time
  Tokens = {t1, t2}
  NoToken = NoToken
  Clients = {q1, q2}
  cat = cat
  p1 = p1
  p2 = p2
  Categories = {cat}
  Paths = {p1, p2}
  DefaultPath <- MCDefaultPath
  NoPath = NoPath
  \* SonarrQueue: a cap of two pages, a queue of up to three
  PageSize = 2
  MaxRecords = 4
  MaxQueue = 6
  \* CacheFetch: two goroutines on one file
  Fetchers = {f1, f2}
  LastBlock = 3
  Inodes = {i1, i2, i3, i4, i5}
  NoInode = NoInode
INVARIANTS
  TypeOK FansOut AdvertisedIsRegistered  OnlyRealMagnetsRegistered FirstUpstreamWins
   OwnFolderDecides
  RefusedIsGone
  MissIsExcused WalkIsBounded
  CachedIsWhole HolesAreBeingFilled
PROPERTIES
  StoreIsDurable
  OnlySessionsChangeCategories
\* A feed is served, a name is read: no more follows.
CHECK_DEADLOCK FALSE
