------------------------------- MODULE CacheFetch -------------------------------
(***************************************************************************)
(* downloadOne and the link made of its result (internal/grabber/          *)
(* grabber.go), below the level of Staging.tla, for one cached file.  The  *)
(* grab of a season and a passthrough grab of the whole torrent have keys  *)
(* of their own but one path in the cache: two goroutines may fetch the    *)
(* same file into the same path.part at a time.                            *)
(*                                                                         *)
(* A path names an inode, and an inode has the blocks written to it.  To   *)
(* create a file that exists empties its inode; who has it open goes on    *)
(* writing where he was, which leaves a hole in front.  A rename or a      *)
(* removal changes names only.                                             *)
(***************************************************************************)
EXTENDS Naturals, FiniteSets

CONSTANTS
  Fetchers,    \* goroutines that materialise this file
  LastBlock,   \* the file has blocks 1..LastBlock
  Inodes, NoInode

ASSUME FetchAssumption ==
  /\ LastBlock \in Nat \ {0}
  /\ NoInode \notin Inodes

VARIABLES
  blocks,       \* blocks[i]: what inode i holds
  part, final,  \* the inodes path.part and path name
  fetch,        \* each goroutine: where it is, the inode it has open, its next block
  linked,       \* the inode each grab's folder has a hard link to
  crossed       \* not in the program: whether two goroutines ever had the file open
                \* at a time, and whether one broke off since

fetchVars == <<blocks, part, final, fetch, linked, crossed>>

Whole == 1..LastBlock

NoFetch == [pc |-> "idle", inode |-> NoInode, next |-> 1]

FetchInit ==
  /\ blocks = [i \in Inodes |-> {}]
  /\ part = NoInode /\ final = NoInode
  /\ fetch = [f \in Fetchers |-> NoFetch]
  /\ linked = [f \in Fetchers |-> NoInode]
  /\ crossed = "no"

Used == {part, final} \union {fetch[f].inode : f \in Fetchers} \union {linked[f] : f \in Fetchers}

\* One without a name that nobody has open, if there is any: os.Create needs
\* one where the path names none, see CannotCreate.
FreeInode == CHOOSE i \in Inodes : i \notin Used

HasInode(name) == name # NoInode \/ ~(Inodes \subseteq Used)

Writing(f) == fetch[f].inode # NoInode

Crosses(f) ==
  crossed' = IF crossed = "no" /\ \E g \in Fetchers \ {f} : Writing(g) THEN "yes" ELSE crossed

BreaksOff == crossed' = IF crossed = "yes" THEN "broken" ELSE crossed

\* os.Stat(cachePath), for a grab that is not ready yet.
Look(f) ==
  /\ fetch[f].pc = "idle"
  /\ linked[f] = NoInode
  /\ fetch' = [fetch EXCEPT ![f].pc = IF final = NoInode THEN "create" ELSE "link"]
  /\ UNCHANGED <<blocks, part, final, linked, crossed>>

\* Unrestrict or os.Create fails.
CannotCreate(f) ==
  /\ fetch[f].pc = "create"
  /\ fetch' = [fetch EXCEPT ![f] = NoFetch]
  /\ UNCHANGED <<blocks, part, final, linked, crossed>>

\* Mutant: straight to the cached path.
CreateFinal(f) ==
  /\ fetch[f].pc = "create"
  /\ HasInode(final)
  /\ LET i == IF final # NoInode THEN final ELSE FreeInode IN
       /\ final' = i
       /\ part' = i
       /\ blocks' = [blocks EXCEPT ![i] = {}]
       /\ fetch' = [fetch EXCEPT ![f] = [pc |-> "write", inode |-> i, next |-> 1]]
  /\ Crosses(f)
  /\ UNCHANGED linked

\* os.Create(tmp).
Create(f) ==
  /\ fetch[f].pc = "create"
  /\ HasInode(part)
  /\ LET i == IF part # NoInode THEN part ELSE FreeInode IN
       /\ part' = i
       /\ blocks' = [blocks EXCEPT ![i] = {}]
       /\ fetch' = [fetch EXCEPT ![f] = [pc |-> "write", inode |-> i, next |-> 1]]
  /\ Crosses(f)
  /\ UNCHANGED <<final, linked>>

\* Mutant: the last block is still in a buffer when it returns.
WriteBuffered(f) ==
  /\ fetch[f].pc = "write"
  /\ blocks' = [blocks EXCEPT ![fetch[f].inode] = @ \union ({fetch[f].next} \ {LastBlock})]
  /\ fetch' = [fetch EXCEPT ![f].pc = IF fetch[f].next = LastBlock THEN "rename" ELSE "write",
                            ![f].next = @ + 1]
  /\ UNCHANGED <<part, final, linked, crossed>>

\* DownloadFile, block by block; it returns once the last one is written.
Write(f) ==
  /\ fetch[f].pc = "write"
  /\ blocks' = [blocks EXCEPT ![fetch[f].inode] = @ \union {fetch[f].next}]
  /\ fetch' = [fetch EXCEPT ![f].pc = IF fetch[f].next = LastBlock THEN "rename" ELSE "write",
                            ![f].next = @ + 1]
  /\ UNCHANGED <<part, final, linked, crossed>>

\* The stream breaks: os.Remove(tmp), whoever's it is by now.
StreamBreaks(f) ==
  /\ fetch[f].pc = "write"
  /\ part' = NoInode
  /\ fetch' = [fetch EXCEPT ![f] = NoFetch]
  /\ BreaksOff
  /\ UNCHANGED <<blocks, final, linked>>

\* os.Rename(tmp, dst), whatever inode tmp names by now; the deferred Close.
Publish(f) ==
  /\ fetch[f].pc = "rename"
  /\ IF part = NoInode
     THEN /\ fetch' = [fetch EXCEPT ![f] = NoFetch]
          /\ UNCHANGED <<part, final>>
     ELSE /\ final' = part
          /\ part' = NoInode
          /\ fetch' = [fetch EXCEPT ![f] = [NoFetch EXCEPT !.pc = "link"]]
  /\ UNCHANGED <<blocks, linked, crossed>>

\* os.Link(cachePath, linkPath) of a cached file; see Staging for the rest.
LinkFinal(f) ==
  /\ fetch[f].pc = "link"
  /\ linked' = [linked EXCEPT ![f] = final]
  /\ fetch' = [fetch EXCEPT ![f] = NoFetch]
  /\ UNCHANGED <<blocks, part, final, crossed>>

\* A delete removes the cache directory, or a grab's folder with its link.  The
\* MkdirAll of a grab that starts later may have made the directory again when
\* another comes to create its file there.
RemoveCacheDir ==
  /\ part' = NoInode /\ final' = NoInode
  /\ UNCHANGED <<blocks, fetch, linked, crossed>>

RemoveFolder(f) ==
  /\ linked' = [linked EXCEPT ![f] = NoInode]
  /\ UNCHANGED <<blocks, part, final, fetch, crossed>>

\* The process dies: names and inodes stay, nobody has one open.
FetchersDie ==
  /\ fetch' = [f \in Fetchers |-> NoFetch]
  /\ BreaksOff
  /\ UNCHANGED <<blocks, part, final, linked>>

FetchNext ==
  \/ \E f \in Fetchers :
       \/ Look(f)         \/ Create(f)  \/ Write(f)
       \/ StreamBreaks(f) \/ Publish(f) \/ LinkFinal(f)
       \/ CannotCreate(f) \/ RemoveFolder(f)
  \/ RemoveCacheDir
  \/ FetchersDie

FetchSpec == FetchInit /\ [][FetchNext]_fetchVars

-------------------------------------------------------------------------------
Holes(i) == IF i = NoInode THEN {} ELSE Whole \ blocks[i]

Named == {final} \union {linked[f] : f \in Fetchers}

(***************************************************************************)
(* What the cache and Sonarr's folders show under a final name is the      *)
(* whole file, although a fetch may break, be killed and started again     *)
(* over what it left: unless two goroutines ever fetched it at a time.     *)
(***************************************************************************)
CachedIsWhole == crossed = "no" => \A i \in Named : Holes(i) = {}

(***************************************************************************)
(* And when they did, none of it is lost: a hole under a final name, which *)
(* Sonarr may already import, is one that a goroutine with that inode open *)
(* has yet to write, as long as every goroutine gets to its end.           *)
(***************************************************************************)
HolesAreBeingFilled ==
  crossed # "broken" =>
    \A i \in Named : \A b \in Holes(i) :
      \E f \in Fetchers : fetch[f].inode = i /\ fetch[f].next <= b
===============================================================================
