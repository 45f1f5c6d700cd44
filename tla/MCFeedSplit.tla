----------------------------- MODULE MCFeedSplit -----------------------------
(***************************************************************************)
(* Two upstreams, each of which may fail or answer one or two of these     *)
(* items: packs of two and three seasons, one of them with its infohash in *)
(* the attribute and the guid only, one with none, and a title whose range *)
(* is too wide to be a pack's.                                             *)
(***************************************************************************)
EXTENDS FeedSplit

CONSTANTS a, b, base32

MCInfohashes == {a, b, base32}

Between(p, lo, hi) == [pattern |-> p, lo |-> lo, hi |-> hi]

Magnet(h, title, size) ==
  [title |-> title, size |-> size, guid |-> NoHash, link |-> NoHash, enclosure |-> h, attr |-> h]

MCItems ==
  { Magnet(a, <<Between(1, 1, 2)>>, 9),
    [Magnet(b, <<Between(1, 3, 1), Between(4, 0, 2)>>, 8) EXCEPT !.enclosure = NoHash, !.link = b],
    [Magnet(base32, <<Between(2, 1, 3)>>, 8) EXCEPT !.enclosure = NoHash, !.guid = base32],
    [Magnet(a, <<Between(4, 1, 2)>>, 0) EXCEPT !.enclosure = NoHash, !.attr = NoHash],
    Magnet(a, <<Between(2, 1, 40)>>, 3) }

MCBodies ==
  {NoBody, BadBody, <<>>} \union {<<x>> : x \in MCItems} \union {<<x, y>> : x \in MCItems, y \in MCItems}
===============================================================================
