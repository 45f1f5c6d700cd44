-------------------------------- MODULE Titles --------------------------------
(***************************************************************************)
(* internal/torznab/splitter.go: reading a season range from the title of  *)
(* a release.  A title is the range mentions it makes, in their order; a   *)
(* mention has the number (1 to 7) of the one pattern that matches it, as  *)
(* in S01-S05, S01-05, S01 to S05, Seasons 1-5, Seasons 1 to 5, Series 1-5 *)
(* and Series 1 to 5.                                                      *)
(***************************************************************************)
EXTENDS Naturals, Sequences

RangePatterns == 1..7

RangeMention == [pattern : RangePatterns, lo : 0..99, hi : 0..99]

Title == Seq(RangeMention)

NoRange == [lo |-> 0, hi |-> 0]

\* Detect's filter; a range may start at 0 and spans 31 seasons at most.
Plausible(m) == m.lo < m.hi /\ m.hi - m.lo <= 30

\* FindStringSubmatch answers a pattern's first match.
FirstOfPattern(title, i) == \A j \in DOMAIN title : title[j].pattern = title[i].pattern => i <= j

\* The first pattern whose first match is plausible; an implausible one hides
\* what else that pattern would match.
Detect(title) ==
  LET hits == {i \in DOMAIN title : FirstOfPattern(title, i) /\ Plausible(title[i])}
      best == CHOOSE i \in hits : \A j \in hits : title[i].pattern <= title[j].pattern
  IN IF hits = {} THEN NoRange ELSE [lo |-> title[best].lo, hi |-> title[best].hi]
===============================================================================
