# A TLA+ model of seasonsplitarr

seasonsplitarr sits between Sonarr and a torrent indexer, and between Sonarr and
Real-Debrid. To Sonarr it is a Torznab indexer that offers every multi-season
pack as one release per season, and a qBittorrent server to which those
releases are added. Behind that front it fetches the pack through Real-Debrid
once, for all the seasons asked for, and gives each of them a folder with its
own episodes.

This directory holds TLA+ modules that model its core, TLC configurations that
check them on small instances, and theorems that TLAPS proves for every value of
the constants.

    tlc -workers 2 -config MCFaults.cfg MCSeasonSplitarr   # any run below
    tlapm SiblingProofs.tla                                # any proof module

## The system

| Component | State it keeps | Operations |
|---|---|---|
| Grab store, `internal/store/store.go` | the map of grabs by synthetic hash and the JSON file it is saved to; one mutex | `Put`, `Get`, `List`, `ByRealHash`, `Delete`, `Update` |
| Grabber, `internal/grabber/grabber.go` | `inflight`, the claimed grabs; `rdAddLocks`, a mutex per real hash; one goroutine per claimed grab with its local copy | `tick`, `advance`, `materialise`, `downloadOne`, `handlePermanentFailure` |
| qBittorrent shim, `internal/qbittorrent/shim.go`, `session.go` | sessions, categories; the grabs are in the store | `handleAdd`, `handleDelete`, `RegisterSynthetic`, `handleInfo`, login, categories |
| Staging tree (files) | `<hash>/Season NN/` per grab, `.cache/<real hash>/` per torrent, `.part` files | written by the grabber, removed by `handleDelete` |
| Torznab proxy, `internal/torznab/proxy.go`, `splitter.go` | none between requests; within one, the parsed items and what they point to | `handleAPI`, `splitFeedMulti`, `splitItems`, `synthItem`, `Detect` |
| Season of a file name, `internal/seasonparse` | none | `FromFilename` |
| Real-Debrid client, `internal/debrid/realdebrid.go` | none here; the account's torrents at Real-Debrid | `AddMagnet`, `TorrentInfo`, `SelectFiles`, `UnrestrictLink`, `DownloadFile` |
| Sonarr client, `internal/sonarr/client.go` | none here; Sonarr's queue | `FindByDownloadID`, `RemoveAndBlocklist` |
| Wiring, `cmd/seasonsplitarr/main.go` | none | start, graceful shutdown |
| Configuration, logging, fixture indexer | none that the others read back | |

How they interact. A search makes the proxy call `onSynth` for every season it
mints, which is the shim's `RegisterSynthetic`: a *registered* record. Sonarr's
`torrents/add` makes it *queued*. Every poll interval `tick` starts a goroutine
for each queued or downloading grab; the goroutine takes the grab one stage
further and ends: add the magnet (or reuse a sibling's torrent), choose files,
wait, download and link, *ready*. A failure makes it *error*, and if it is one
that retrying will not cure, the goroutine waits for Sonarr's queue to show the
grab, tells Sonarr to remove and blocklist it, and deletes the record. Sonarr's
`torrents/delete` removes record and files. Everything meets in the store and in
the staging tree; neither is locked for longer than one operation.

### What is hard, and what has to be right

- **Claims on grabs.** Ticks, ending goroutines, the long failure path and
  restarts interleave; a grab has one goroutine at most, and never a claim
  without one. *OneAdvancePerGrab*
- **The addMagnet critical section.** Siblings that start together must end up
  on one torrent, though the record a goroutine writes to can be deleted and
  replaced while it holds the mutex. *AddMagnetGuarded, SiblingsShareTorrent*
- **The shared cache.** Grabs of one torrent share bytes, selections and the
  reference count that decides about deletion, but never episodes.
  *SeasonIsolation, ReadyHasSelected*
- **Leftover goroutines.** A goroutine from before a delete, a re-add or a failure
  must not undo what has been handed to Sonarr. *ReadyIsFinal*
- **Progress.** Whatever fails, a grab ends somewhere; when nothing fails it
  ends complete. *GrabSettles, GrabCompletes*
- **Unasked work.** A search registers far more than is ever wanted; none of it
  may cost anything before Sonarr asks. *OnlyAskedFor, RegisteredUntouched*
- **The life of a grab.** All of the above together: *LivesAsPromised*, the
  refinement of `GrabLife`.
- **The feed.** Several upstreams, some failing, answering in any order, merged
  without repeats, fanned out exactly, each season registered with the indexer's
  own magnet before Sonarr sees it, although items share memory. *FansOut,
  AdvertisedIsRegistered, OnlyRealMagnetsRegistered, FirstUpstreamWins, GuidsDiffer*
- **The state file.** A full disk or a death between any two of its steps leaves an
  earlier whole map, and "ok" means saved. *StoreIsDurable*, the refinement of
  `DurableMap`
- **Two writers of one file.** A passthrough grab and a season's grab fetch the same
  file into the same `.part`. *CachedIsWhole, HolesAreBeingFilled*
- **Names.** Which season a file counts to, when its name and its folders disagree.
  *EpisodeNamesDecide, OwnFolderDecides*
- **Sessions.** A cookie is looked up, and compared with the clock later.
  *RefusedIsGone, OnlySessionsChangeCategories*
- **Sonarr's queue** is read page by page while Sonarr changes it.
  *MissIsExcused, WalkIsBounded*

`PROJECT.json` lists every hazard at its line with the property that covers
it, or with the reason why none does yet.

## The modules

| Module | Models |
|---|---|
| `Releases` | torrents, packs, synthetic hashes, files and their seasons: the constants everything shares |
| `Store` | the store as a map whose operations are atomic and durable |
| `Staging` | grab folders, cache and links |
| `RealDebrid` | the torrents of the Real-Debrid account (external service, kept to what the client uses) |
| `Grabber` | `tick` and the goroutines; EXTENDS RealDebrid and Staging |
| `QbitShim` | the handlers that write, and the Sonarr that calls them |
| `SeasonSplitarr` | the composition: everything above around one store and one staging tree, crashes included; all properties of the whole |
| `MCSeasonSplitarr` | instances of it for TLC |
| `GrabLife` | abstract: what can happen to a grab, as Sonarr sees it |
| `SeasonSplitarrProofs`, `SiblingProofs`, `LifeProofs`, `FolderProofs` | theorems about the composition |
| `Titles` | reading a season range from a title |
| `FeedSplit`, `MCFeedSplit` | the answering of one Torznab request, and its instance; EXTENDS Titles |
| `SeasonParse`, `MCSeasonParse` | the season of a file name, and the paths looked at |
| `FeedProofs` | theorems about `FeedSplit` and `SeasonParse` |
| `StoreFile` | the store with mutex, temporary file and rename |
| `DurableMap` | abstract: what the store promises its callers |
| `CacheFetch` | one cached file with names, inodes and contents, fetched by several goroutines |
| `FileProofs` | theorems about `StoreFile` and `CacheFetch` |
| `QbitApi`, `QbitApiProofs` | sessions and categories, and theorems about them |
| `SonarrQueue`, `SonarrQueueProofs` | the walk through Sonarr's queue, and theorems about it |
| `MCParts` | an instance of the six modules that stand by themselves |

The last group describes what the composition takes as one step or as a constant:
`Store`'s operations (`StoreFile`), `Staging`'s downloaded file (`CacheFetch`),
`Releases`' `SeasonOf` and `Packs` (`SeasonParse`, `Titles`), the poll of Sonarr
(`SonarrQueue`), a request that is let in (`QbitApi`), a search's registrations
(`FeedSplit`). Composing them step by step with the goroutines would multiply states
that have nothing to say to each other; what each promises is its property.

### How state and actions correspond to the code

**Store.** `grabs` is total: a hash without record has the state `absent`. A
record keeps state, real hash, season and RD id; bytes, titles, dates and paths
are left out. `Get` returns the stored pointer and not a copy, so in the code a
goroutine may see another's writes without asking. For the fields kept here
that makes no difference: real hash and season never change after `Put`, and
the RD id is written only by the goroutine that has the grab in flight. So a
snapshot (`ViewOf`) shows what the pointer would.

**Grabber.** A worker is a goroutine, and `pc` the point it has reached. Steps
are cut at every call that leaves the process, at every store operation and at
every file operation, so everything else interleaves there. `tick` walks a list
and tests each grab's live state right before `LoadOrStore`: `Tick(w, k)` is one
turn of that loop. The order of turns is left open, and so is their number, as
goroutines of an earlier tick run next to a later one. A goroutine's step list:

    get -> lock -> scan -> adding -> store -> refetch -> probe    registering
           probe -> select -> selecting                           choosing files
           probe -> mkdir -> file -> download -> rename -> link   materialise
           ready | fail -> poll -> blocklist -> clear             the ends

In `scan`, the branch for a record that has got an id by now is in the code and in
the model, but nothing reaches it: only the goroutine that has the grab in flight
could have set the id, and a record that replaces it starts without one.

**Shim and Sonarr.** A search, an add and a delete are a sequence of steps each,
one per store or file operation. Sonarr adds any hash a search has shown it, as
often as it likes, and deletes any it has added. Hashes not found at add are
handled as passthrough, with season 0, as in the code.

**Restart.** `Crash` is the death of the process and its restart by compose:
goroutines, claims, mutexes and half-served requests are gone, store and files
stay. A graceful shutdown cancels the calls in flight; it looks like failing
calls followed by a crash. `Panic` is the nil pointer `advance` follows when its
grab disappears between update and refetch.

**disturbed** is no variable of the program. Files are only promised to a grab that
nobody takes apart while the grabber works on it, and nothing in the code or its
documents says otherwise. `disturbed` remembers the grabs for which that happened,
and only properties read it. There are three ways (`Disturb`):

- A delete has removed the grab's folder. A goroutine may still be filling it.
- The record is gone, or has come to be about another torrent, while a goroutine has
  the grab in flight. A season's record can become a passthrough one and back: an
  add that found nothing puts it after a search has registered the season, and the
  reverse. A goroutine in between links every season.
- A record has come to be about a torrent while a delete is between counting that
  torrent's grabs and removing its cache; or while it is still about to count, if
  the record has the deleted key itself, which the count leaves out.

A grab is rid of its past once record, goroutine and folder are all gone.

**GrabLife and its mapping.** Three variables: the stage of each grab, the claims,
and what Sonarr has asked for. A search offers, Sonarr asks, queues and removes,
whoever has claimed a grab begins, delivers, fails or releases it, and death takes the
claims. `SeasonSplitarr` maps `life` to the records' states, `claimed` to
`inflight` and `asked` to the hashes Sonarr has grabbed. What the code cannot
promise shows in the abstract actions: `Offer` may follow any stage (the
`demotion` run), and `Begin` and `Deliver` do not ask for *queued* (the
`registered` run). What it does promise is the rest: one claim on a grab at a
time, only queued and downloading grabs are claimed, nothing ready changes except
by Sonarr or a search, nothing appears that Sonarr did not ask for.

**StoreFile and its mapping.** `Put`, `Delete` and `Update` are call, lock, change
of the map, creation of `path.tmp` (empty, so torn), its write, the rename, and the
answer with the unlock. Creation, write and rename may fail, and the map in
memory then stays ahead of the file, as in the code. `DurableMap`'s map is the one in
memory while the process is up, and what the file decodes to while it is not; its
saved copy is the file. `Answer("ok")` asks for the two to be equal. A power cut is
outside: the code does not fsync, and a kernel that dies may lose a renamed file.

**CacheFetch.** A path names an inode, and an inode has blocks. A file system without a
free inode fails `os.Create` (`HasInode`). `os.Create` on an
existing `.part` truncates the inode another goroutine writes to, and that one goes
on at its own offset. `crossed` is a history variable that only the properties
read: whether two goroutines had the file open at a time, and whether one of them
broke off. If none ever did, what has a final name is whole. If they did, it may be
published with a hole, which is the reason why that is a condition; the hole is
then being filled by a goroutine that still writes, unless one breaks off.

**QbitApi.** A request looks its cookie up under the read lock, compares the
expiry with the clock after it, and drops the token under the write lock: three
steps. `dead` is a history variable: tokens that were revoked, expired or issued
before a restart. Handlers that change no category are `Serve` with `cats`
unchanged.

**SonarrQueue.** A record is whether it is the wanted one. Records arrive, leave and
change places between pages. `disorder` is a history variable with the three
excuses a miss can have.

**SeasonParse and Titles.** A title is the sequence of range mentions that a pattern
can match, each with the patterns that match it. A path is the sequence of season
mentions in it, each with its number, its patterns, and how many folders above the
file's own name it stands. That keeps what the functions decide: the order of the
patterns and of the candidates, the first match of a pattern hiding its later ones,
and what counts as no number.

**FeedSplit.** A request without the key is refused, one that is no search gets the
first upstream's answer as it is, and a search waits for all upstreams. `clone := orig` copies an item's strings and shares its enclosure
and the array of its attributes. The model keeps those two on a heap with one cell
per parsed item, and the results refer to it, so that later writes show through.

An operator that precedes an action under a comment that begins "Mutant:" is a
faulty form of that action, with a plausible mistake in it. Nothing uses it; it is
there to show that the properties would notice the mistake (`mutants` in
`PROJECT.json`).

## The runs

The instance is a pack of two seasons with one file each; two goroutines, two
Real-Debrid torrents. Two seasons are enough for sibling and foreign files to
differ, and two goroutines for every race between siblings or with a leftover
one; a second Real-Debrid torrent is what a failed mutual exclusion would show up
as, and a full account is reached by the second. What the environment does is
bounded (`MaxSearches`, `MaxAdds`, `MaxDeletes`, `MaxCrashes`); what the program
does is not. `Attempts` stands for the 18 polls of Sonarr's queue.

| Run | Configuration | Shows |
|---|---|---|
| `lifecycle` | no faults; 2 overlapping searches, 2 adds, 1 delete; 2 polls | types, exclusive claims, guarded addMagnet, shared torrent, what is ready can be read, nothing is done unasked |
| `faults` | permanent failures, broken streams, lost replies, dying torrents, a crash, Sonarr's failure path, symlinks; 1 search, 2 adds, 1 delete | the same, isolation of seasons, finality of ready, and the refinement of `GrabLife` |
| `settles` | transient faults, lost replies, a crash, a passthrough add of the pack itself; fair | every active grab becomes inactive |
| `completes` | no faults, a crash; fair | every season added ends ready with all its files |
| `parts` | one of six components per behaviour, see below | the feed's six properties, `EpisodeNamesDecide`, `OwnFolderDecides`, `StoreIsDurable`, `RefusedIsGone`, `OnlySessionsChangeCategories`, `MissIsExcused`, `WalkIsBounded`, `CachedIsWhole`, `HolesAreBeingFilled` |

The first two have some 540,000 and 720,000 states up to symmetry, `settles`
170,000, `completes` 19,000, `parts` 109,000. Two adds are the least at which
siblings, or a grab and its own successor after a delete, meet. The search
bound of 1 in `faults` is offset by `lifecycle`, which has two.

`parts` has these bounds. Feed: every answer of two upstreams out of 33 bodies of
up to two items, arriving in either order; the items are packs of two and three
seasons, one of them from season 0, with the hash in each of the places it can
stand in, one hash in base32, and titles with implausible ranges. Names: all paths
up to two folders deep out of seven folder names and twelve file names. File: two
callers, two keys, two values, any number of failures and deaths; two callers are
what the mutex has to keep apart. Sessions: two requests at a time, two tokens ever
issued, one category, any number of logouts, expiries and restarts. Queue: pages of
two and a cap of four, a queue of up to six records, so that a walk can end by a
short page, by the total, by the cap, and be overtaken. Downloads: two goroutines,
a file of three blocks, so that a hole can be in front of what has been written and
behind it; five inodes are never used up.

Runs of the second kind state what a comment of the repository says, and TLC
finds the code doing something else:

| Run | Says | The code |
|---|---|---|
| `dead_torrent` | a grab does not stay active for ever; `realdebrid.go:57` lists `error` among the statuses | takes it for "still downloading" (`grabber.go:198`) |
| `panic` | a missing grab ends its goroutine quietly (`grabber.go:125-128`) | the second `Get` drops `ok` and follows nil (`grabber.go:166`) |
| `empty_season` | ready: "files are present under ContentPath" (`grabber.go:10`) | a season re-registered after its sibling chose files has none selected, and is marked ready empty |
| `readd` | the real upstream magnet is handed to Real-Debrid (`shim.go:188-191`) | a deleted season added again goes through with its synthetic magnet |
| `demotion` | a search does not reset a queued grab (`shim.go:405-406`) | checks with `Get` and writes with `Put`, with nothing held in between |
| `registered` | a registered grab is not touched (`store.go:26`) | only `tick` looks at the state; a grab deleted and registered again after the tick is added to Real-Debrid (`grabber.go:125-132`) |
| `feed_alias` | each season's result carries its own infohash (`proxy.go:364-367`) | all of them share the enclosure and attributes the last one wrote |

Deadlock is not checked: when the environment's bounds are used up and every grab
is settled, the system rests. `GrabSettles` is what shows that nobody waits
for ever before that.

### Fairness

`FairSpec` has weak fairness on `RunTick(k)`, each goroutine, each handler and
each torrent's own progress at Real-Debrid. The ticker fires for ever and looks
at every grab; Go runs every goroutine that can run; calls return, because the
HTTP clients have timeouts. Weak fairness is enough for the mutexes although a
lock may be taken again and again by others: a key takes the lock only while its
record has no id, and gets through or fails, so contention ends. That Real-Debrid
converts and downloads is the assumption about it, and `RDMayDie` withdraws it.
Fairness is per goroutine and not per branch: it forces no fault, no success
after a fault, no crash, and nothing of Sonarr.

`settles` has no deletes, because a delete may kill the process (`panic`), and no
dying torrents, because those hang (`dead_torrent`).

## The proofs

All theorems hold for every set of torrents, packs, files, goroutines and requests,
any season range, fault set and bound. They assume what the modules' `ASSUME`s
state: packs are torrents, the range is one (`FirstSeason < LastSeason`), no
synthetic hash is a torrent's (a collision of SHA-256 apart, splitter.go
cannot produce one), and the markers (`NoTorrent`, `NoHash`, `NoInode`, ...) are not
members of the sets they are added to. For the feed that includes the answers that
are no feed, which are not sequences of items, and the identifiers of items without
an infohash, which `synthItem` takes from their GUIDs: that these are no infohashes
and differ from item to item (`Ids`) is asked of the indexers. For names it is that a
path names its outer folders first (`FilePath`).

`SeasonSplitarrProofs`

- `TypeCorrect`: `Spec => []TypeOK`.
- `ClaimsHold`: `Spec => []OneAdvancePerGrab`.
- Both follow from the inductive invariant `ClaimInv` (`ClaimInvariant`). Types
  alone are not inductive: the steps that handle a file take one out of `todo`,
  so there has to be one (`FileAtHand`), and `RegisterPut` writes a record under
  `<<pack, season>>`, a hash only while pack and season are in range (`SearchOK`).
  Types need the claims, too: a goroutine writes under `key[w]`, which is a
  hash because busy goroutines' keys are claimed ones.

`SiblingProofs`

- `OneTorrentPerPack`: `Spec => []SiblingsShareTorrent`.
- `AddMagnetIsGuarded`: `Spec => []AddMagnetGuarded`.
- Both follow from `TorrentInv`, inductive relative to `ClaimInv`
  (`TorrentInvariant`). The difficulty is that the record behind a goroutine can be
  deleted and put again with another real hash (a passthrough grab of the same
  key) while the goroutine is inside the mutex of the old one. The invariant
  therefore says what does not depend on the record: a record's real hash is its
  key or its key's pack (`RealOK`), of which exactly one is a real torrent; an id
  in the store exists at Real-Debrid (`RDOK`); a record about a real torrent
  names no other real torrent (`HashOK`); a goroutine between lock and store holds
  the mutex of the hash it read; in `adding` nobody has that torrent; and in
  `store` it carries a torrent that all who have one share (`CarriesOK`).
  Nearly every step only removes ids, and one frame lemma covers these; the
  critical section's steps are argued one by one.

`LifeProofs`

- `BridgeImplementsLife`: `Spec => LivesAsPromised`, the refinement of `GrabLife`.
- `NothingUnasked`: `Spec => []OnlyAskedFor`.
- `ReadyStays`: `Spec => ReadyIsFinal`.
- The steps are mapped one by one (`NextLives`): what an operation of the store
  does to a record's state is a lemma, and a goroutine's step is a step of the grab
  it has claimed. That a claimed grab whose record is there is never ready needs
  an invariant, `LifeInv`; it is a fact about the abstract life alone, so it is
  proved from `GrabLife`'s actions (`LifeKeeps`) and not from the code's forty.
  `AskedInv` adds that the handlers at work and the folders belong to hashes
  Sonarr has. `BridgeInv` is these two and `ClaimInv`. `ReadyStays` then follows
  from the refinement.

`FolderProofs`

- `SeasonsAreIsolated`: `Spec => []SeasonIsolation`.
- `ReadyKeepsItsFiles`: `Spec => []ReadyHasSelected`.
- Both follow from `FolderInv`, inductive relative to `ClaimInv` and `TorrentInv`
  (`FolderInvariant`). A goroutine works from what it read of its grab long ago, and
  from a cache it shares. For a grab that is not disturbed, the invariant says that
  the record still has the real hash and season the goroutine read (`ViewOK`), that
  its torrent is the one that was probed (`ProbeOK`), and that every wanted file the
  goroutine is done with is in the folder, as a hard link or as a symlink to a file
  of the cache (`FilesOK`); of a ready grab that its torrent is downloaded and none of
  its files is missing (`ReadyOK`); and of a delete that when it is about to remove a
  cache, each record of that torrent is disturbed, because it counted no other
  (`DeleteOK`). Isolation needs less: a record under a season's hash is that
  season's, or a passthrough one that a disturbed grab has behind it (`KindOK`,
  `FolderOK`).
- Most steps keep what a lemma of frame conditions asks for (`RecordKept`,
  `TorrentKept`, `FilesKept`, `HandKept`, `DelKept`); the rest are argued one by one.

`FileProofs`

- `StoreImplementsMap`: `FileSpec => StoreIsDurable`, from `FileInv`
  (`FileInvariant`): who is past the mutex holds it; hence at the rename `path.tmp`
  is the map, and at the answer "ok" `path` is.
- `CachedFilesAreWhole`: `FetchSpec => []CachedIsWhole`, and `HolesGetFilled`:
  `FetchSpec => []HolesAreBeingFilled`, from `FetchInv` (`FetchInvariant`): the inode
  being written has no final name (`PartApart`), except after two writers have
  crossed; before that, a writer is alone with its inode and has
  written every block before its next (`AloneOK`); after it, each hole in what is
  named is one that a goroutine with that inode open is still to come to (`Covered`).

`FeedProofs`

- `FeedTypes`: `Spec => [](TypeOK /\ Loops)`. `Loops` is the loops' control: in
  particular an item that is still to be split has the enclosure and attributes it
  was parsed with (`Intact`), which is why `ih` and `magnet`, read before the first
  season writes through them, are the indexer's.
- `FirstUpstreamsWin`: `Spec => []FirstUpstreamWins`, from `MergeInv`: of the upstreams
  before the one the merge is at, and of that one before the item it is at, every
  hash is in the feed (`MergedSoFar`), once (`NoneTwice`), and by the first item that
  has it (`Firsts`).
- `PacksFanOut`, `ResultsHaveOwnGuids`, `AdvertisedIsKnown`, `RegisteredMagnetsAreReal`:
  `FansOut`, `GuidsDiffer`, `AdvertisedIsRegistered`, `OnlyRealMagnetsRegistered`, from
  `SplitInv` (`FeedInvariant`): the results so far are those before the loops' place,
  in order (`FanInv`), with GUIDs of their own (`GuidInv`), registered (`AdvertisedInv`).
  A GUID is the pair of item and season; that items differ in it needs `NoneTwice`.
- `EpisodesDecide` and `FoldersDecide`: `ParseSpec => []EpisodeNamesDecide` and
  `[]OwnFolderDecides`, for every path. `FirstFound` says which of the patterns and
  candidates the answer is from.

`QbitApiProofs`

- `RefusalsAreDeserved`: `ApiSpec => []RefusedIsGone`, and `CategoriesAreGuarded`:
  `ApiSpec => OnlySessionsChangeCategories`, from `SessionInv`: every token issued
  is in the map or dead, one that is both is expired, and each stage of a request
  knows its share of that about its own token.

`SonarrQueueProofs`

- `WalksAreBounded`: `QueueSpec => []WalkIsBounded`: a page that is not the last one
  is full (`FullPage`), so what the walk has seen counts the pages it has read.
- `MissesAreExcused`: `QueueSpec => []MissIsExcused`, from `MissInv`: as long as there is
  no excuse, a walk that reads on has a wanted record ahead of it, within the cap
  (`Ahead`). What arrives can push it further ahead and not behind
  (`InsertedBefore`), and the last page is not before it.

`ClaimInv`, `TorrentInv` and `FolderInv` were model-checked on the instances of
`lifecycle` and `faults` before they were proved.

What the proofs corrected in the model, each where an instance was too small or a
formula said less than it was meant to:

- `Disturb` had only the delete of a folder and of a record in flight. A second
  record of a key, and the grab that a delete does not count, need more requests than
  the runs have. With them `SeasonIsolation` and `ReadyHasSelected` failed before.
- `CacheFetch` took an inode from an empty set when all were in use.
- `ReadPage` was a `CASE` of conditions that are true together, which is a choice
  in TLA+, while the code tests them in order.
- `OwnFolderDecides` held only because no folder in the instance had a name like
  `3x01`, which comes before a `Season 2` nearer to the file. It excludes these now, and
  the instance has one.
- `OnlyRealMagnetsRegistered` compared a magnet's own hash. It asks now for the item
  that the magnet and the hash are from.

What stays with TLC: `GrabSettles` and `GrabCompletes`, which are liveness under
fairness and need `ENABLED`; and the runs that expect a violation, which are about
single behaviours. All other properties of the passing runs are theorems.

## What is not modelled, and why

- Failing writes of the store next to everything else: `Store` is durable at once.
  `StoreFile` shows what a failing write means, the map ahead of the file until the
  next write that succeeds, and `SeasonSplitarr` does not compose it with crashes.
- A power cut, and a file that was damaged by something else: `Open` refuses it and the
  process exits.
- The text of titles, names, XML, JSON, magnets and URLs, beyond what `Titles`,
  `SeasonParse` and `FeedSplit` say about it. `SyntheticInfohash` is a pair, which
  keeps what the digest is relied on for: it is deterministic and injective. File
  names inside a season's folder: two files with one base name share a link.
- Configuration: a pure function of the environment, read once; the other modules
  have its result as constants. Logging and the fixture indexer keep no state.
- The graceful shutdown as a step of its own. Its context cancels the calls in
  flight, which return errors that are persisted, and the process exits: a
  transient fault of each goroutine, then a crash. `settles` has exactly these.
- HTTP servers and clients: a request is served or not, a call answers or fails. The
  upstreams' client has no timeout, so `FeedSplit` promises no progress.
- A range that starts at season 0 makes that season's grab a passthrough one to
  the grabber, and it gets every file. The model has it if `FirstSeason` is 0;
  `SeasonIsolation` speaks of the other seasons.

## Plan

Done: the grab's life from search to import, around `SeasonSplitarr`, with its
abstract specification; the feed and the request around it; the store's file,
cached files, names, sessions, Sonarr's queue. Every safety invariant, action property
and refinement that a passing run checks is proved.

Left to model: the composition of a failing store write with a crash; folders and
caches that nobody removes, as eventual removal.

To prove next: the safety half of progress, that a goroutine that waits for a
torrent's mutex waits for one that holds it and is past the wait itself, so that the
mutexes cannot deadlock, and that what `completes` reaches is all it can rest in; a
refinement of `Store`'s atomic operations as the composition uses them by `StoreFile`
without failing writes, and of the downloaded file by `CacheFetch`.
