------------------------------ MODULE SeasonParse ------------------------------
(***************************************************************************)
(* internal/seasonparse: the season of a file, from its path inside the    *)
(* torrent.  A path is the mentions of a season it makes, in their order,  *)
(* each with how far up it is: 0 in the file's own name, 1 in the name of  *)
(* the folder it is in, and so on; what else a name says is left out.  A   *)
(* mention has the number it gives and the patterns that match it:         *)
(*   1  S01E02    2  1x02    3  Season 1    4  Series 1    5  S01 alone    *)
(* "S01.E02" matches 1 and 5, the "S01" of a range "S01-S05" only 5, and a *)
(* mention that is part of another word none.                              *)
(*                                                                         *)
(* Releases.SeasonOf is FromFilename, given as a constant there.           *)
(***************************************************************************)
EXTENDS Integers, Sequences

CONSTANT FilePaths   \* the paths looked at

SeasonPatterns == 1..5

Mention == [up : Nat, n : 0..99, patterns : SUBSET SeasonPatterns]

FilePath == {p \in Seq(Mention) : \A i, j \in DOMAIN p : i < j => p[i].up >= p[j].up}

ASSUME PathsAssumption == \A p \in FilePaths : p \in FilePath

VARIABLES
  path,
  answer    \* what FromFilename returns for it

parseVars == <<path, answer>>

NoAnswer == -1

\* filepath.Base(path).
Base(p) == {i \in DOMAIN p : p[i].up = 0}

\* filepath.Base(filepath.Dir(path)), "." for a file at the top.
Parent(p) == {i \in DOMAIN p : p[i].up = 1}

\* Mutant: the folder's name is asked first.
FolderFirst(p) == <<Parent(p), Base(p), DOMAIN p>>

\* Mutant: the whole path is asked before the folder.
FolderLast(p) == <<Base(p), DOMAIN p, Parent(p)>>

Candidates(p) == <<Base(p), Parent(p), DOMAIN p>>

(***************************************************************************)
(* FindStringSubmatch answers the first match only; a zero there is as if  *)
(* there were none, and the next candidate is tried.                       *)
(***************************************************************************)
Found(p, name, pattern) ==
  LET at == {i \in name : pattern \in p[i].patterns}
  IN IF at = {} THEN 0 ELSE p[CHOOSE i \in at : \A j \in at : i <= j].n

\* The first pattern that finds a number, in the first candidate it does.
FromFilename(p) ==
  LET hits == {h \in SeasonPatterns \X (1..3) : Found(p, Candidates(p)[h[2]], h[1]) # 0}
      first == CHOOSE h \in hits :
                 \A g \in hits : h[1] < g[1] \/ (h[1] = g[1] /\ h[2] <= g[2])
  IN IF hits = {} THEN 0 ELSE Found(p, Candidates(p)[first[2]], first[1])

ParseInit == path \in FilePaths /\ answer = NoAnswer

Parse == answer = NoAnswer /\ answer' = FromFilename(path) /\ UNCHANGED path

ParseSpec == ParseInit /\ [][Parse]_parseVars

-------------------------------------------------------------------------------
(***************************************************************************)
(* A file with an episode's name is of that episode's season, wherever in  *)
(* the torrent it lies: no season, range or episode that a folder mentions *)
(* and nothing else in its name comes before it.                           *)
(***************************************************************************)
EpisodeNamesDecide ==
  LET told == Found(path, Base(path), 1)
  IN answer # NoAnswer /\ told # 0 => answer = told

(***************************************************************************)
(* "RD packs commonly use Season folders": a file that says nothing itself *)
(* is of the season its own folder is named after, whatever seasons and    *)
(* ranges the folders further out are named after, unless one has the name *)
(* of an episode.                                                          *)
(***************************************************************************)
OwnFolderDecides ==
  LET own == Found(path, Parent(path), 3)
  IN /\ answer # NoAnswer
     /\ Base(path) = {}
     /\ own # 0
     /\ \A i \in DOMAIN path : path[i].patterns \intersect {1, 2} = {}
     => answer = own
===============================================================================
