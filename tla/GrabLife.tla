------------------------------- MODULE GrabLife -------------------------------
(***************************************************************************)
(* What Sonarr relies on, with no goroutine, lock, torrent or file in it:  *)
(* the life of each grab.  A search may offer a grab, Sonarr asks for it,  *)
(* somebody claims it and alone decides how it ends; a grab that is ready  *)
(* is out of his hands, and a process death takes nothing but the claims.  *)
(***************************************************************************)
CONSTANTS
  Grabs,
  Offered   \* those a search may offer

VARIABLES
  life,     \* where each grab is
  claimed,  \* the grabs somebody works on
  asked     \* the grabs Sonarr has ever asked for

Init == life = [k \in Grabs |-> "absent"] /\ claimed = {} /\ asked = {}

Becomes(k, stage) == life' = [life EXCEPT ![k] = stage]

InHand(k) == k \in claimed /\ life[k] \notin {"absent", "ready"}

\* Whatever the grab is by now: finding demotion is an Offer.
Offer(k) == k \in Offered /\ Becomes(k, "registered") /\ UNCHANGED <<claimed, asked>>

Ask(k) == asked' = asked \union {k} /\ UNCHANGED <<life, claimed>>

Queue(k) == k \in asked /\ Becomes(k, "queued") /\ UNCHANGED <<claimed, asked>>

Claim(k) ==
  /\ k \notin claimed
  /\ life[k] \in {"queued", "downloading"}
  /\ claimed' = claimed \union {k}
  /\ UNCHANGED <<life, asked>>

Begin(k) == InHand(k) /\ Becomes(k, "downloading") /\ UNCHANGED <<claimed, asked>>

Deliver(k) ==
  /\ InHand(k)
  /\ Becomes(k, "ready")
  /\ claimed' = claimed \ {k}
  /\ UNCHANGED asked

\* For good, or to tell Sonarr about it first.
Fail(k) ==
  /\ InHand(k)
  /\ Becomes(k, "error")
  /\ claimed' \in {claimed, claimed \ {k}}
  /\ UNCHANGED asked

\* To go on another time, or because it is gone; Sonarr may have been told.
Release(k) ==
  /\ k \in claimed
  /\ claimed' = claimed \ {k}
  /\ UNCHANGED life \/ Becomes(k, "absent")
  /\ UNCHANGED asked

\* Sonarr deletes what it has asked for.
Remove(k) == k \in asked /\ Becomes(k, "absent") /\ UNCHANGED <<claimed, asked>>

Die == claimed' = {} /\ UNCHANGED <<life, asked>>

Next ==
  \/ \E k \in Grabs :
       \/ Offer(k) \/ Ask(k)     \/ Queue(k) \/ Claim(k)   \/ Begin(k)
       \/ Deliver(k) \/ Fail(k)  \/ Release(k) \/ Remove(k)
  \/ Die

Spec == Init /\ [][Next]_<<life, claimed, asked>>
===============================================================================
