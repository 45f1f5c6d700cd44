------------------------------- MODULE Staging -------------------------------
(***************************************************************************)
(* The staging tree under DownloadsDir, which the grabber fills and the    *)
(* shim's delete handler removes:                                          *)
(*   <k>/Season NN/...    the files of grab k that Sonarr imports (saved)  *)
(*   .cache/<r>/...       the bytes, shared by all grabs of torrent r      *)
(* A saved file is a hard link to the cached file, or, when os.Link fails, *)
(* a symlink to its path: that one reads only while the cache has it.      *)
(***************************************************************************)
EXTENDS Releases

CONSTANT HardLinks   \* FALSE when the two directories are on two devices

ASSUME StagingAssumption == HardLinks \in BOOLEAN

VARIABLES saved, cache

NoSaved == [dir |-> FALSE, hard |-> {}, soft |-> {}]
NoCache == [dir |-> FALSE, files |-> {}, part |-> {}]

\* soft holds the link's target, <<r, f>> for .cache/<r>/<f>.
Saved == [dir : BOOLEAN, hard : SUBSET Files, soft : SUBSET (Hashes \X Files)]
Cache == [dir : BOOLEAN, files : SUBSET Files, part : SUBSET Files]

StagingInit ==
  /\ saved = [k \in Hashes |-> NoSaved]
  /\ cache = [r \in Hashes |-> NoCache]

\* The files Sonarr can read under grab k's folder.
Readable(k) ==
  saved[k].hard \union
    {f \in Files : \E r \in Hashes : <<r, f>> \in saved[k].soft /\ f \in cache[r].files}

\* The two MkdirAll that open materialise.
MakeDirs(k, r) ==
  /\ saved' = [saved EXCEPT ![k].dir = TRUE]
  /\ cache' = [cache EXCEPT ![r].dir = TRUE]

\* os.Create(dst + ".part") and DownloadFile into it.
CreatePart(r, f) == cache' = [cache EXCEPT ![r].part = @ \union {f}]

\* os.Remove(dst + ".part"), whoever made it.
RemovePart(r, f) == cache' = [cache EXCEPT ![r].part = @ \ {f}]

\* os.Rename(tmp, dst).
RenamePart(r, f) ==
  cache' = [cache EXCEPT ![r].part = @ \ {f}, ![r].files = @ \union {f}]

\* os.Remove(linkPath), then os.Link, then os.Symlink if that failed: a
\* missing source makes Link fail and Symlink succeed on a dangling path.
LinkFile(k, r, f) ==
  IF HardLinks /\ f \in cache[r].files
  THEN saved' = [saved EXCEPT ![k].hard = @ \union {f},
                              ![k].soft = {t \in @ : t[2] # f}]
  ELSE saved' = [saved EXCEPT ![k].hard = @ \ {f},
                              ![k].soft = {t \in @ : t[2] # f} \union {<<r, f>>}]

RemoveSaved(k) == saved' = [saved EXCEPT ![k] = NoSaved]
RemoveCache(r) == cache' = [cache EXCEPT ![r] = NoCache]

StagingTypeOK ==
  /\ saved \in [Hashes -> Saved]
  /\ cache \in [Hashes -> Cache]
===============================================================================
