------------------------------ MODULE FileProofs ------------------------------
(***************************************************************************)
(* The two files that come into being under another name and are renamed:  *)
(* the store file keeps what DurableMap promises, and a cached download    *)
(* never shows half a file, for every number of callers and of fetches.    *)
(***************************************************************************)
EXTENDS StoreFile, CacheFetch, TLAPS

FileTypeOK ==
  /\ memory \in FileMaps
  /\ file \in FileMaps \union {Missing}
  /\ holder \in Callers \union {Nobody}
  /\ stage \in [Callers -> FileStages]
  /\ reply \in [Callers -> Outcomes \union {"none"}]
  /\ up \in BOOLEAN

(***************************************************************************)
(* What makes it work: whoever is past LockStore holds the mutex, so that  *)
(* nobody changes the map or path.tmp between his WriteTmp, his RenameTmp  *)
(* and his Unlock; and a process that is not up runs nobody.               *)
(***************************************************************************)
FileInv ==
  /\ FileTypeOK
  /\ \A c \in Callers : stage[c] \notin {"idle", "lock"} => holder = c
  /\ \A c \in Callers : stage[c] = "rename" => tmp = memory
  /\ \A c \in Callers : stage[c] = "ok" => file = memory
  /\ ~up => \A c \in Callers : stage[c] = "idle"

LEMMA EmptyMapIsMap == EmptyMap \in FileMaps
BY DEF EmptyMap, FileMaps

LEMMA MapContents == ASSUME NEW m \in FileMaps PROVE Contents(m) = m
BY FileAssumption DEF Contents

LEMMA ContentsIsMap ==
  ASSUME NEW f \in FileMaps \union {Missing} PROVE Contents(f) \in FileMaps
BY EmptyMapIsMap DEF Contents

\* The file is never Torn, by its type.
LEMMA NeverTorn == ASSUME FileTypeOK PROVE file # Torn
BY FileAssumption DEF FileTypeOK

LEMMA FileInitInv == FileInit => FileInv
BY EmptyMapIsMap DEF FileInit, FileInv, FileTypeOK, FileStages, Outcomes

LEMMA FileStepInv == FileInv /\ [FileNext]_fileVars => FileInv'
<1>. SUFFICES ASSUME FileInv, [FileNext]_fileVars PROVE FileInv'
  OBVIOUS
<1>. USE DEF At, FileStages, Outcomes
<1>1. ASSUME NEW c \in Callers, Call(c) PROVE FileInv'
  BY <1>1 DEF FileInv, FileTypeOK, Call
<1>2. ASSUME NEW c \in Callers, LockStore(c) PROVE FileInv'
  BY <1>2, FileAssumption DEF FileInv, FileTypeOK, LockStore
<1>3. ASSUME NEW c \in Callers, ChangeEntry(c) PROVE FileInv'
  <2>1. memory' \in FileMaps
    BY <1>3 DEF ChangeEntry, FileInv, FileTypeOK, FileMaps
  <2>. QED
    BY <1>3, <2>1 DEF FileInv, FileTypeOK, ChangeEntry
<1>4. ASSUME NEW c \in Callers, UpdateMissing(c) PROVE FileInv'
  BY <1>4 DEF FileInv, FileTypeOK, UpdateMissing
<1>5. ASSUME NEW c \in Callers, CreateTmp(c) PROVE FileInv'
  BY <1>5 DEF FileInv, FileTypeOK, CreateTmp
<1>6. ASSUME NEW c \in Callers, WriteTmp(c) PROVE FileInv'
  BY <1>6 DEF FileInv, FileTypeOK, WriteTmp
<1>7. ASSUME NEW c \in Callers, RenameTmp(c) PROVE FileInv'
  BY <1>7 DEF FileInv, FileTypeOK, RenameTmp
<1>8. ASSUME NEW c \in Callers, Unlock(c) PROVE FileInv'
  BY <1>8 DEF FileInv, FileTypeOK, Unlock
<1>9. CASE ProcessDies
  BY <1>9, EmptyMapIsMap DEF FileInv, FileTypeOK, ProcessDies
<1>10. CASE Open
  <2>1. memory' \in FileMaps
    BY <1>10, ContentsIsMap DEF Open, FileInv, FileTypeOK
  <2>. QED
    BY <1>10, <2>1 DEF FileInv, FileTypeOK, Open
<1>11. CASE UNCHANGED fileVars
  BY <1>11 DEF FileInv, FileTypeOK, fileVars
<1>. QED
  BY <1>1, <1>2, <1>3, <1>4, <1>5, <1>6, <1>7, <1>8, <1>9, <1>10, <1>11 DEF FileNext

-------------------------------------------------------------------------------
LEMMA FileInitMaps == FileInit => Promised!Init
BY FileAssumption DEF FileInit, Promised!Init, Promised!Empty, Promised!Unanswered, EmptyMap, Contents

\* The mapped variables, for the steps that leave them alone.
mapped == <<IF up THEN memory ELSE Contents(file), Contents(file), reply>>

LEMMA FileStepMaps ==
  ASSUME FileInv, [FileNext]_fileVars
  PROVE  Promised!Next \/ UNCHANGED mapped
<1>. USE DEF At
<1>1. ASSUME NEW c \in Callers, Call(c) PROVE Promised!Ask(c)
  BY <1>1 DEF Call, Promised!Ask
<1>2. ASSUME NEW c \in Callers, LockStore(c) \/ UpdateMissing(c) \/ CreateTmp(c) \/ WriteTmp(c)
      PROVE UNCHANGED mapped
  BY <1>2 DEF LockStore, UpdateMissing, CreateTmp, WriteTmp, mapped
<1>3. ASSUME NEW c \in Callers, ChangeEntry(c) PROVE Promised!Change
  <2>1. up /\ up'
    BY <1>3 DEF ChangeEntry, FileInv, FileTypeOK
  <2>. QED
    BY <1>3, <2>1 DEF ChangeEntry, Promised!Change
<1>4. ASSUME NEW c \in Callers, RenameTmp(c) PROVE Promised!Save \/ UNCHANGED mapped
  <2>1. CASE At(c, "rename", "ok") /\ file' = tmp
    <3>1. up /\ up' /\ tmp = memory /\ memory' = memory /\ reply' = reply
      BY <1>4, <2>1 DEF RenameTmp, FileInv, FileTypeOK
    <3>2. Contents(file') = memory
      BY <2>1, <3>1, MapContents DEF FileInv, FileTypeOK
    <3>. QED
      BY <3>1, <3>2 DEF Promised!Save
  <2>2. CASE UNCHANGED file
    BY <1>4, <2>2 DEF RenameTmp, mapped
  <2>. QED
    BY <1>4, <2>1, <2>2 DEF RenameTmp
<1>5. ASSUME NEW c \in Callers, Unlock(c) PROVE Promised!Answer(c)
  <2>1. up /\ UNCHANGED <<up, memory, file>> /\ reply' = [reply EXCEPT ![c] = stage[c]]
    BY <1>5 DEF Unlock, FileInv, FileTypeOK, Outcomes
  <2>2. stage[c] = "ok" => Contents(file) = memory
    BY MapContents DEF FileInv, FileTypeOK
  <2>3. stage[c] \in {"ok", "error", "missing"}
    BY <1>5 DEF Unlock, Outcomes
  <2>. QED
    BY <2>1, <2>2, <2>3 DEF Promised!Answer
<1>6. ProcessDies => Promised!Recover
  BY DEF ProcessDies, Promised!Recover, Promised!Unanswered, Contents
<1>7. CASE Open
  BY <1>7 DEF Open, mapped
<1>8. CASE UNCHANGED fileVars
  BY <1>8 DEF fileVars, mapped
<1>. QED
  BY <1>1, <1>2, <1>3, <1>4, <1>5, <1>6, <1>7, <1>8 DEF FileNext, Promised!Next

(***************************************************************************)
(* FileInv holds throughout: under it every step of the store file is a    *)
(* step of the map its callers rely on, or none they can see.              *)
(***************************************************************************)
THEOREM FileInvariant == FileSpec => []FileInv
BY FileInitInv, FileStepInv, PTL DEF FileSpec

(***************************************************************************)
(* StoreIsDurable, with any number of callers, of failed writes and of     *)
(* process deaths: the file and its mutex implement DurableMap.            *)
(***************************************************************************)
THEOREM StoreImplementsMap == FileSpec => StoreIsDurable
<1>1. FileInv /\ [FileNext]_fileVars
        => [Promised!Next]_<<IF up THEN memory ELSE Contents(file), Contents(file), reply>>
  BY FileStepMaps DEF mapped
<1>. QED
  BY <1>1, FileInitMaps, FileInvariant, PTL DEF FileSpec, StoreIsDurable, Promised!Spec

-------------------------------------------------------------------------------
(***************************************************************************)
(* CacheFetch.  While no two goroutines have fetched the file at a time,   *)
(* whoever writes path.part is alone with it and has written all before    *)
(* his next block.  Once two have, every hole, be it under path.part or a  *)
(* final name, is one that somebody with that inode open is still to come  *)
(* to.                                                                     *)
(***************************************************************************)
Fetch == [pc : {"idle", "create", "write", "rename", "link"},
          inode : Inodes \union {NoInode}, next : Nat \ {0}]

FetchTypeOK ==
  /\ blocks \in [Inodes -> SUBSET Whole]
  /\ part \in Inodes \union {NoInode}
  /\ final \in Inodes \union {NoInode}
  /\ fetch \in [Fetchers -> Fetch]
  /\ linked \in [Fetchers -> Inodes \union {NoInode}]
  /\ crossed \in {"no", "yes", "broken"}

\* A goroutine has an inode open from its Create to its rename, and calls
\* rename after the last block.
WriterOK(f) ==
  /\ fetch[f].pc \in {"write", "rename"} <=> Writing(f)
  /\ fetch[f].pc = "write" => fetch[f].next \in Whole
  /\ fetch[f].pc = "rename" => fetch[f].next = LastBlock + 1

\* What is still being written is not what a final name shows.
PartApart == part # NoInode => part \notin Named

AloneOK(f) ==
  /\ \A g \in Fetchers : Writing(g) => g = f
  /\ fetch[f].inode \notin Named
  /\ part \in {NoInode, fetch[f].inode}
  /\ \A b \in Holes(fetch[f].inode) : fetch[f].next <= b

Covered(i) == \A b \in Holes(i) : \E f \in Fetchers : fetch[f].inode = i /\ fetch[f].next <= b

FetchInv ==
  /\ FetchTypeOK
  /\ PartApart
  /\ \A f \in Fetchers : WriterOK(f)
  /\ crossed = "no" =>
       /\ \A i \in Named : Holes(i) = {}
       /\ \A f \in Fetchers : Writing(f) => AloneOK(f)
  /\ crossed = "yes" => \A i \in Named \union {part} : Covered(i)

LEMMA NamedInodes == ASSUME FetchTypeOK PROVE Named \subseteq Inodes \union {NoInode}
BY DEF FetchTypeOK, Named

LEMMA FreeInodeIsFree ==
  ASSUME HasInode(NoInode)
  PROVE  FreeInode \in Inodes /\ FreeInode \notin Used
BY DEF HasInode, FreeInode

\* A step that opens no inode and writes no block, and may forget names.
LEMMA NamesOnly ==
  ASSUME FetchInv, FetchTypeOK', UNCHANGED <<blocks, crossed>>,
         \A f \in Fetchers :
           \/ fetch'[f] = fetch[f]
           \/ /\ ~Writing(f) \/ fetch[f].pc = "rename"
              /\ fetch'[f].inode = NoInode /\ fetch'[f].pc \in {"idle", "create", "link"},
         part' \in {part, NoInode},
         \/ Named' \subseteq Named \union {NoInode}
         \/ part' = NoInode /\ Named' \subseteq Named \union {part}
              /\ \E f \in Fetchers : fetch[f].pc = "rename" /\ fetch'[f].inode = NoInode
  PROVE  FetchInv'
<1>. USE DEF Writing
<1>1. PartApart'
  BY DEF FetchInv, PartApart
<1>2. \A f \in Fetchers : WriterOK(f)'
  BY DEF FetchInv, WriterOK
<1>3. ASSUME NEW f \in Fetchers, fetch'[f].inode # NoInode PROVE fetch'[f] = fetch[f]
  BY <1>3
<1>4. ASSUME NEW i, i \in Inodes \union {NoInode} PROVE Holes(i)' = Holes(i)
  BY DEF Holes
<1>5. ASSUME NEW f \in Fetchers, fetch[f].pc = "rename", NEW i, NEW b \in Holes(i)
      PROVE  ~(fetch[f].next <= b)
  BY <1>5, FetchAssumption DEF FetchInv, WriterOK, Holes, Whole
<1>6. ASSUME NEW i \in Inodes \union {NoInode}, Covered(i) PROVE Covered(i)'
  <2>1. SUFFICES ASSUME NEW b \in Holes(i)
                 PROVE  \E f \in Fetchers : fetch'[f].inode = i /\ fetch'[f].next <= b
    BY <1>4 DEF Covered
  <2>2. PICK f \in Fetchers : fetch[f].inode = i /\ fetch[f].next <= b
    BY <1>6, <2>1 DEF Covered
  <2>3. i # NoInode
    BY <2>1 DEF Holes
  <2>4. fetch'[f] = fetch[f]
    BY <1>5, <2>1, <2>2, <2>3
  <2>. QED
    BY <2>2, <2>4
<1>7. ASSUME crossed = "no"
      PROVE  /\ \A i \in Named' : Holes(i)' = {}
             /\ \A f \in Fetchers : Writing(f)' => AloneOK(f)'
  <2>1. ASSUME NEW i \in Named' PROVE Holes(i)' = {}
    <3>1. CASE i \in Named \union {NoInode}
      BY <1>4, <1>7, <3>1, NamedInodes DEF FetchInv, Holes
    <3>2. CASE i = part /\ part # NoInode /\ i \notin Named
      <4>1. PICK f \in Fetchers : fetch[f].pc = "rename"
        BY <2>1, <3>2
      <4>2. Writing(f) /\ fetch[f].inode = i
        BY <1>7, <3>2, <4>1 DEF FetchInv, WriterOK, AloneOK
      <4>3. Holes(i) = {}
        BY <1>5, <1>7, <4>1, <4>2 DEF FetchInv, AloneOK
      <4>. QED
        BY <1>4, <3>2, <4>3 DEF FetchInv, FetchTypeOK
    <3>. QED
      BY <2>1, <3>1, <3>2
  <2>2. ASSUME NEW f \in Fetchers, Writing(f)' PROVE AloneOK(f)'
    <3>1. fetch'[f] = fetch[f] /\ Writing(f) /\ AloneOK(f)
      BY <1>3, <1>7, <2>2 DEF FetchInv
    <3>2. \A g \in Fetchers : Writing(g)' => g = f
      BY <1>3, <3>1 DEF AloneOK
    <3>3. fetch[f].inode \in Inodes /\ fetch[f].inode \notin Named
      BY <3>1 DEF AloneOK, FetchInv, FetchTypeOK, Fetch
    <3>4. fetch[f].inode \notin Named'
      <4>1. CASE Named' \subseteq Named \union {NoInode}
        BY <3>1, <3>3, <4>1
      <4>2. CASE \E g \in Fetchers : fetch[g].pc = "rename" /\ fetch'[g].inode = NoInode
        <5>1. PICK g \in Fetchers : fetch[g].pc = "rename" /\ fetch'[g].inode = NoInode
          BY <4>2
        <5>2. g = f
          BY <3>1, <5>1 DEF AloneOK, FetchInv, WriterOK
        <5>. QED
          BY <2>2, <5>1, <5>2
      <4>. QED
        BY <4>1, <4>2
    <3>5. Holes(fetch[f].inode)' = Holes(fetch[f].inode)
      BY <3>1 DEF Holes
    <3>. QED
      BY <3>1, <3>2, <3>4, <3>5 DEF AloneOK
  <2>. QED
    BY <2>1, <2>2
<1>8. ASSUME crossed = "yes" PROVE \A i \in Named' \union {part'} : Covered(i)'
  <2>1. Covered(NoInode)'
    BY DEF Covered, Holes
  <2>. QED
    BY <1>6, <1>8, <2>1, NamedInodes DEF FetchInv, FetchTypeOK
<1>. QED
  BY <1>1, <1>2, <1>7, <1>8 DEF FetchInv

LEMMA FetchTypes == FetchInv /\ [FetchNext]_fetchVars => FetchTypeOK'
<1>. SUFFICES ASSUME FetchInv, [FetchNext]_fetchVars PROVE FetchTypeOK'
  OBVIOUS
<1>. USE DEF FetchTypeOK, Fetch, NoFetch
<1>0. FetchTypeOK
  BY DEF FetchInv
<1>1. ASSUME NEW f \in Fetchers,
             \/ Look(f) \/ CannotCreate(f) \/ StreamBreaks(f)
             \/ LinkFinal(f) \/ RemoveFolder(f)
      PROVE  FetchTypeOK'
  BY <1>0, <1>1 DEF Look, CannotCreate, StreamBreaks, LinkFinal, RemoveFolder, BreaksOff
<1>2. ASSUME NEW f \in Fetchers, Create(f) PROVE FetchTypeOK'
  <2> DEFINE i == IF part # NoInode THEN part ELSE FreeInode
  <2>1. i \in Inodes
    BY <1>0, <1>2, FreeInodeIsFree DEF Create
  <2>2. /\ part' = i
        /\ blocks' = [blocks EXCEPT ![i] = {}]
        /\ fetch' = [fetch EXCEPT ![f] = [pc |-> "write", inode |-> i, next |-> 1]]
        /\ UNCHANGED <<final, linked>>
    BY <1>2 DEF Create
  <2>3. crossed' \in {"no", "yes", "broken"}
    BY <1>0, <1>2 DEF Create, Crosses
  <2>. HIDE DEF i
  <2>. QED
    BY <1>0, <2>1, <2>2, <2>3
<1>3. ASSUME NEW f \in Fetchers, Write(f) PROVE FetchTypeOK'
  <2>1. fetch[f].next \in Whole
    BY <1>3 DEF FetchInv, WriterOK, Write
  <2>2. blocks' \in [Inodes -> SUBSET Whole]
    BY <1>0, <1>3, <2>1 DEF Write
  <2>3. fetch' \in [Fetchers -> Fetch]
    <3>1. fetch'[f] = [pc |-> IF fetch[f].next = LastBlock THEN "rename" ELSE "write",
                       inode |-> fetch[f].inode, next |-> fetch[f].next + 1]
      BY <1>0, <1>3 DEF Write
    <3>. QED
      BY <1>0, <1>3, <3>1 DEF Write
  <2>. QED
    BY <1>0, <1>3, <2>2, <2>3 DEF Write
<1>4. ASSUME NEW f \in Fetchers, Publish(f) PROVE FetchTypeOK'
  BY <1>0, <1>4 DEF Publish
<1>5. ASSUME RemoveCacheDir PROVE FetchTypeOK'
  BY <1>0, <1>5 DEF RemoveCacheDir
<1>6. ASSUME FetchersDie PROVE FetchTypeOK'
  BY <1>0, <1>6 DEF FetchersDie, BreaksOff
<1>. QED
  BY <1>0, <1>1, <1>2, <1>3, <1>4, <1>5, <1>6 DEF FetchNext, fetchVars

\* Whoever comes to create path.part gets an inode no final name has.
LEMMA CreateKeeps == ASSUME FetchInv, NEW f \in Fetchers, Create(f) PROVE FetchInv'
<1>1. FetchTypeOK /\ FetchTypeOK'
  BY FetchTypes DEF FetchInv, FetchNext
<1>0. PICK i \in Inodes : i = IF part # NoInode THEN part ELSE FreeInode
  BY <1>1, FreeInodeIsFree DEF Create, FetchTypeOK
<1>2. i \in Inodes /\ i \notin Named /\ i # NoInode
  BY <1>0, <1>1, FreeInodeIsFree, FetchAssumption DEF Create, FetchInv, PartApart, Used, Named, FetchTypeOK
<1>3. \A g \in Fetchers : fetch[g].inode = i => part = i
  BY <1>0, FreeInodeIsFree DEF Create, Used
<1>4. /\ fetch[f].pc = "create"
      /\ part' = i
      /\ blocks' = [blocks EXCEPT ![i] = {}]
      /\ fetch' = [fetch EXCEPT ![f] = [pc |-> "write", inode |-> i, next |-> 1]]
      /\ UNCHANGED <<final, linked>>
      /\ Crosses(f)
  BY <1>0 DEF Create
<1>5. /\ fetch'[f] = [pc |-> "write", inode |-> i, next |-> 1]
      /\ \A g \in Fetchers \ {f} : fetch'[g] = fetch[g]
      /\ Named' = Named
  BY <1>1, <1>4 DEF FetchTypeOK, Named
<1>6. /\ Holes(i)' = Whole
      /\ \A j \in Inodes \union {NoInode} : j # i => Holes(j)' = Holes(j)
  BY <1>1, <1>2, <1>4 DEF FetchTypeOK, Holes
<1>7. PartApart'
  BY <1>2, <1>4, <1>5 DEF PartApart
<1>8. \A g \in Fetchers : WriterOK(g)'
  <2>1. WriterOK(f)'
    BY <1>2, <1>5, FetchAssumption DEF WriterOK, Writing, Whole
  <2>. QED
    BY <1>5, <2>1 DEF FetchInv, WriterOK, Writing
<1>9. \A b \in Whole : 1 <= b
  BY DEF Whole
<1>10. ASSUME crossed' = "no"
       PROVE  /\ \A j \in Named' : Holes(j)' = {}
              /\ \A g \in Fetchers : Writing(g)' => AloneOK(g)'
  <2>1. crossed = "no" /\ \A g \in Fetchers \ {f} : ~Writing(g)
    BY <1>4, <1>10 DEF Crosses
  <2>2. \A j \in Named : Holes(j)' = {}
    BY <1>1, <1>2, <1>6, <2>1, NamedInodes DEF FetchInv
  <2>3. \A g \in Fetchers : Writing(g)' => g = f
    BY <1>5, <2>1 DEF Writing
  <2>4. AloneOK(f)'
    BY <1>2, <1>4, <1>5, <1>6, <1>9, <2>3 DEF AloneOK
  <2>. QED
    BY <1>5, <2>2, <2>3, <2>4
<1>11. ASSUME crossed' = "yes" PROVE \A j \in Named' \union {part'} : Covered(j)'
  <2>1. Covered(i)'
    BY <1>5, <1>6, <1>9 DEF Covered
  <2>2. ASSUME NEW j \in Named, j # i PROVE Covered(j)'
    <3>1. Holes(j)' = Holes(j)
      BY <1>1, <1>6, <2>2, NamedInodes
    <3>2. CASE crossed = "no"
      BY <2>2, <3>1, <3>2 DEF FetchInv, Covered
    <3>3. CASE crossed = "yes"
      <4>1. SUFFICES ASSUME NEW b \in Holes(j)
                     PROVE  \E g \in Fetchers : fetch'[g].inode = j /\ fetch'[g].next <= b
        BY <3>1 DEF Covered
      <4>2. PICK g \in Fetchers : fetch[g].inode = j /\ fetch[g].next <= b
        BY <2>2, <3>3, <4>1 DEF FetchInv, Covered
      <4>3. j # NoInode
        BY <4>1 DEF Holes
      <4>4. g # f
        BY <1>4, <4>2, <4>3 DEF FetchInv, WriterOK, Writing
      <4>. QED
        BY <1>5, <4>2, <4>4
    <3>. QED
      BY <1>4, <1>11, <3>2, <3>3 DEF Crosses
  <2>. QED
    BY <1>2, <1>4, <1>5, <2>1, <2>2
<1>. QED
  BY <1>1, <1>7, <1>8, <1>10, <1>11 DEF FetchInv

LEMMA WriteKeeps == ASSUME FetchInv, NEW f \in Fetchers, Write(f) PROVE FetchInv'
<1>1. FetchTypeOK /\ FetchTypeOK'
  BY FetchTypes DEF FetchInv, FetchNext
<1>0. PICK i \in Inodes, n \in Nat \ {0} : i = fetch[f].inode /\ n = fetch[f].next
  BY <1>1, FetchAssumption DEF Write, FetchInv, WriterOK, Writing, FetchTypeOK, Fetch
<1>2. i \in Inodes /\ i # NoInode /\ n \in Whole /\ n \in Nat \ {0} /\ Writing(f)
  BY <1>0, <1>1, FetchAssumption DEF Write, FetchInv, WriterOK, Writing, FetchTypeOK, Fetch
<1>3. /\ fetch[f].pc = "write"
      /\ blocks' = [blocks EXCEPT ![i] = @ \union {n}]
      /\ fetch' = [fetch EXCEPT ![f].pc = IF n = LastBlock THEN "rename" ELSE "write",
                                ![f].next = @ + 1]
      /\ UNCHANGED <<part, final, linked, crossed>>
  BY <1>0 DEF Write
<1>4. /\ fetch'[f].pc = (IF n = LastBlock THEN "rename" ELSE "write")
      /\ fetch'[f].inode = i /\ fetch'[f].next = n + 1
      /\ \A g \in Fetchers \ {f} : fetch'[g] = fetch[g]
      /\ Named' = Named
  BY <1>0, <1>1, <1>3 DEF FetchTypeOK, Fetch, Named
<1>5. /\ Holes(i)' = Holes(i) \ {n}
      /\ \A j \in Inodes \union {NoInode} : j # i => Holes(j)' = Holes(j)
  BY <1>1, <1>2, <1>3 DEF FetchTypeOK, Holes
<1>6. \A j \in Inodes \union {NoInode} : Holes(j)' \subseteq Holes(j) /\ Holes(j) \subseteq Whole
  BY <1>1, <1>5 DEF Holes, FetchTypeOK
<1>7. PartApart'
  BY <1>3, <1>4 DEF FetchInv, PartApart
<1>8. \A g \in Fetchers : WriterOK(g)'
  <2>1. WriterOK(f)'
    BY <1>2, <1>4, FetchAssumption DEF WriterOK, Writing, Whole
  <2>. QED
    BY <1>4, <2>1 DEF FetchInv, WriterOK, Writing
<1>9. ASSUME crossed' = "no"
      PROVE  /\ \A j \in Named' : Holes(j)' = {}
             /\ \A g \in Fetchers : Writing(g)' => AloneOK(g)'
  <2>1. crossed = "no"
    BY <1>3, <1>9
  <2>2. \A j \in Named : Holes(j)' = {}
    BY <1>1, <1>6, <2>1, NamedInodes DEF FetchInv
  <2>3. AloneOK(f)
    BY <1>2, <2>1 DEF FetchInv
  <2>4. \A g \in Fetchers : Writing(g)' => g = f
    BY <1>4, <2>3 DEF AloneOK, Writing
  <2>5. \A b \in Holes(i) \ {n} : n + 1 <= b
    BY <1>0, <1>2, <1>6, <2>3 DEF AloneOK, Whole
  <2>6. i \notin Named /\ part \in {NoInode, i}
    BY <1>0, <2>3 DEF AloneOK
  <2>7. AloneOK(f)'
    BY <1>3, <1>4, <1>5, <2>4, <2>5, <2>6 DEF AloneOK
  <2>. QED
    BY <1>4, <2>2, <2>4, <2>7
<1>10. ASSUME crossed' = "yes" PROVE \A j \in Named' \union {part'} : Covered(j)'
  <2>1. SUFFICES ASSUME NEW j \in Named \union {part}, NEW b \in Holes(j)'
                 PROVE  \E g \in Fetchers : fetch'[g].inode = j /\ fetch'[g].next <= b
    BY <1>3, <1>4 DEF Covered
  <2>2. j \in Inodes \union {NoInode}
    BY <1>1, NamedInodes DEF FetchTypeOK
  <2>3. b \in Holes(j) /\ b \in Whole
    BY <1>6, <2>1, <2>2
  <2>4. PICK g \in Fetchers : fetch[g].inode = j /\ fetch[g].next <= b
    BY <1>3, <1>10, <2>1, <2>3 DEF FetchInv, Covered
  <2>5. CASE g # f
    BY <1>4, <2>4, <2>5
  <2>6. CASE g = f
    <3>1. j = i /\ n <= b /\ b # n
      BY <1>0, <1>2, <1>5, <2>1, <2>4, <2>6
    <3>2. n + 1 <= b
      BY <1>2, <2>3, <3>1 DEF Whole
    <3>. QED
      BY <1>4, <3>1, <3>2
  <2>. QED
    BY <2>5, <2>6
<1>. QED
  BY <1>1, <1>7, <1>8, <1>9, <1>10 DEF FetchInv

\* Whoever breaks off leaves holes behind: harmless as long as all of them are
\* under path.part only.
LEMMA BreaksOffKeeps ==
  ASSUME FetchInv, FetchTypeOK', BreaksOff, UNCHANGED <<blocks, final, linked>>, part' \in {part, NoInode},
         \A f \in Fetchers : fetch'[f] = fetch[f] \/ fetch'[f] = NoFetch
  PROVE  FetchInv'
<1>. USE DEF Writing
<1>1. Named' = Named
  BY DEF Named
<1>2. PartApart'
  BY <1>1 DEF FetchInv, PartApart
<1>3. \A f \in Fetchers : WriterOK(f)'
  BY DEF FetchInv, WriterOK, NoFetch
<1>4. crossed' # "yes"
  BY DEF BreaksOff, FetchInv, FetchTypeOK
<1>5. ASSUME crossed' = "no"
      PROVE  /\ \A i \in Named' : Holes(i)' = {}
             /\ \A f \in Fetchers : Writing(f)' => AloneOK(f)'
  <2>1. crossed = "no"
    BY <1>5 DEF BreaksOff
  <2>2. \A i \in Named : Holes(i)' = {}
    BY <2>1 DEF FetchInv, Holes
  <2>3. ASSUME NEW f \in Fetchers, Writing(f)' PROVE AloneOK(f)'
    <3>1. fetch'[f] = fetch[f] /\ AloneOK(f)
      BY <2>1, <2>3 DEF FetchInv, NoFetch
    <3>2. \A g \in Fetchers : Writing(g)' => g = f
      BY <3>1 DEF AloneOK, NoFetch
    <3>3. Holes(fetch[f].inode)' = Holes(fetch[f].inode)
      BY <3>1 DEF Holes
    <3>. QED
      BY <1>1, <3>1, <3>2, <3>3 DEF AloneOK
  <2>. QED
    BY <1>1, <2>2, <2>3
<1>. QED
  BY <1>2, <1>3, <1>4, <1>5 DEF FetchInv

LEMMA PublishKeeps == ASSUME FetchInv, NEW f \in Fetchers, Publish(f) PROVE FetchInv'
<1>1. FetchTypeOK /\ FetchTypeOK'
  BY FetchTypes DEF FetchInv, FetchNext
<1>2. CASE part = NoInode
  <2>1. /\ \A g \in Fetchers \ {f} : fetch'[g] = fetch[g]
        /\ fetch'[f] = NoFetch
        /\ Named' = Named /\ part' = part
    BY <1>1, <1>2 DEF Publish, FetchTypeOK, Named
  <2>. QED
    BY <1>1, <2>1, NamesOnly DEF Publish, NoFetch
<1>3. CASE part # NoInode
  <2>1. /\ \A g \in Fetchers \ {f} : fetch'[g] = fetch[g]
        /\ fetch'[f].inode = NoInode /\ fetch'[f].pc = "link"
        /\ Named' \subseteq Named \union {part} /\ part' = NoInode
    BY <1>1, <1>3 DEF Publish, FetchTypeOK, Named, NoFetch
  <2>. QED
    BY <1>1, <2>1, NamesOnly DEF Publish
<1>. QED
  BY <1>2, <1>3

LEMMA NextFetch == FetchInv /\ [FetchNext]_fetchVars => FetchInv'
<1>. SUFFICES ASSUME FetchInv, [FetchNext]_fetchVars PROVE FetchInv'
  OBVIOUS
<1>1. FetchTypeOK /\ FetchTypeOK' /\ \A f \in Fetchers : WriterOK(f)
  BY FetchTypes DEF FetchInv
<1>2. ASSUME NEW f \in Fetchers, Look(f) \/ CannotCreate(f) \/ LinkFinal(f) PROVE FetchInv'
  <2>1. /\ \A g \in Fetchers \ {f} : fetch'[g] = fetch[g]
        /\ fetch'[f].inode = NoInode /\ fetch'[f].pc \in {"idle", "create", "link"}
        /\ ~Writing(f)
    BY <1>1, <1>2 DEF Look, CannotCreate, LinkFinal, FetchTypeOK, Fetch, NoFetch, WriterOK, Writing
  <2>2. Named' \subseteq Named \union {NoInode}
    BY <1>1, <1>2 DEF Look, CannotCreate, LinkFinal, FetchTypeOK, Named
  <2>. QED
    BY <1>1, <1>2, <2>1, <2>2, NamesOnly DEF Look, CannotCreate, LinkFinal
<1>3. ASSUME NEW f \in Fetchers, StreamBreaks(f) PROVE FetchInv'
  BY <1>1, <1>3, BreaksOffKeeps DEF StreamBreaks, FetchTypeOK
<1>4. ASSUME NEW f \in Fetchers, RemoveFolder(f) PROVE FetchInv'
  <2>1. Named' \subseteq Named \union {NoInode}
    BY <1>1, <1>4 DEF RemoveFolder, FetchTypeOK, Named
  <2>. QED
    BY <1>1, <1>4, <2>1, NamesOnly DEF RemoveFolder
<1>5. ASSUME RemoveCacheDir PROVE FetchInv'
  <2>1. Named' \subseteq Named \union {NoInode}
    BY <1>5 DEF RemoveCacheDir, Named
  <2>. QED
    BY <1>1, <1>5, <2>1, NamesOnly DEF RemoveCacheDir
<1>6. ASSUME FetchersDie PROVE FetchInv'
  BY <1>1, <1>6, BreaksOffKeeps DEF FetchersDie
<1>7. ASSUME UNCHANGED fetchVars PROVE FetchInv'
  BY <1>1, <1>7, NamesOnly DEF fetchVars, Named
<1>. QED
  BY <1>2, <1>3, <1>4, <1>5, <1>6, <1>7, CreateKeeps, WriteKeeps, PublishKeeps DEF FetchNext

LEMMA InitFetch == FetchInit => FetchInv
BY FetchAssumption
   DEF FetchInit, FetchInv, FetchTypeOK, Fetch, NoFetch, Whole, PartApart, WriterOK, Writing, Named,
       Holes

THEOREM FetchInvariant == FetchSpec => []FetchInv
<1>. QED
  BY InitFetch, NextFetch, PTL DEF FetchSpec

(***************************************************************************)
(* As long as no two goroutines fetched the file at a time, what a final   *)
(* name shows is the whole file.                                           *)
(***************************************************************************)
THEOREM CachedFilesAreWhole == FetchSpec => []CachedIsWhole
<1>1. FetchInv => CachedIsWhole
  BY DEF FetchInv, CachedIsWhole
<1>. QED
  BY <1>1, FetchInvariant, PTL

(***************************************************************************)
(* And whatever hole one shows when they did is still to be written.       *)
(***************************************************************************)
THEOREM HolesGetFilled == FetchSpec => []HolesAreBeingFilled
<1>1. FetchInv => HolesAreBeingFilled
  BY DEF FetchInv, HolesAreBeingFilled, Covered, FetchTypeOK
<1>. QED
  BY <1>1, FetchInvariant, PTL
===============================================================================
