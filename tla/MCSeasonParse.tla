----------------------------- MODULE MCSeasonParse -----------------------------
(***************************************************************************)
(* Files of a pack, up to two folders deep: folders named after a season,  *)
(* a range of seasons or an episode, files named after an episode, a       *)
(* special, a season or nothing.                                           *)
(***************************************************************************)
EXTENDS SeasonParse

Says(n, patterns) == [n |-> n, patterns |-> patterns]

MCFolders ==
  { <<>>,                              \* Show
    <<Says(2, {3})>>,                  \* Season 2
    <<Says(4, {3})>>,                  \* Season 4
    <<Says(1, {5}), Says(5, {5})>>,    \* S01-S05
    <<Says(3, {1, 5})>>,               \* S03.E01
    <<Says(3, {2})>>,                  \* 3x01
    <<Says(0, {3})>> }                 \* Season 0

MCNames ==
  MCFolders \union
    { <<Says(1, {1})>>,                \* S01E02
      <<Says(0, {1})>>,                \* S00E02
      <<Says(4, {1}), Says(2, {1})>>,  \* S04E02 S02E07
      <<Says(2, {2})>>,                \* 2x07
      <<Says(3, {4}), Says(1, {1})>> } \* Series 3 S01E02

Placed(up, name) ==
  [i \in DOMAIN name |-> [up |-> up, n |-> name[i].n, patterns |-> name[i].patterns]]

MCFilePaths ==
  {Placed(2, x) \o Placed(1, y) \o Placed(0, z) : x \in MCFolders, y \in MCFolders, z \in MCNames}
===============================================================================
