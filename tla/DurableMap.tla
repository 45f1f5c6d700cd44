------------------------------ MODULE DurableMap ------------------------------
(***************************************************************************)
(* What a caller of internal/store relies on, with no file in it: a map    *)
(* that is changed one entry at a time, a saved copy of the whole map that *)
(* a restart goes back to, and "ok" only as an answer to who can know that *)
(* the two agree.                                                          *)
(***************************************************************************)
CONSTANTS Keys, Values, None, Callers

VARIABLES
  mem,      \* the map
  disk,     \* what a restart would find
  answer    \* what each caller's last call returned

Maps == [Keys -> Values \union {None}]
Empty == [k \in Keys |-> None]
Unanswered == [c \in Callers |-> "none"]

Init == mem = Empty /\ disk = Empty /\ answer = Unanswered

Ask(c) == answer' = [answer EXCEPT ![c] = "none"] /\ UNCHANGED <<mem, disk>>

Change ==
  /\ \E k \in Keys, v \in Values \union {None} : mem' = [mem EXCEPT ![k] = v]
  /\ UNCHANGED <<disk, answer>>

Save == disk' = mem /\ UNCHANGED <<mem, answer>>

\* Nothing is promised with "error", nor with "missing": Update found no grab.
Answer(c) ==
  /\ \/ disk = mem /\ answer' = [answer EXCEPT ![c] = "ok"]
     \/ answer' = [answer EXCEPT ![c] = "error"]
     \/ answer' = [answer EXCEPT ![c] = "missing"]
  /\ UNCHANGED <<mem, disk>>

Recover == mem' = disk /\ answer' = Unanswered /\ UNCHANGED disk

Next ==
  \/ \E c \in Callers : Ask(c) \/ Answer(c)
  \/ Change
  \/ Save
  \/ Recover

Spec == Init /\ [][Next]_<<mem, disk, answer>>
===============================================================================
