----------------------------- MODULE QbitApiProofs -----------------------------
(***************************************************************************)
(* Proofs about QbitApi: for any number of tokens, clients and categories, *)
(* who is refused deserves it, and who is served had a session.            *)
(***************************************************************************)
EXTENDS QbitApi, TLAPS

RequestStages == {"idle", "clock", "drop", "refuse", "serve"}

(***************************************************************************)
(* A token in the map was issued, and if it is dead that is because it     *)
(* expired: a logout and a restart take it out.                            *)
(***************************************************************************)
TokensInv ==
  /\ issued \subseteq Tokens
  /\ tokens \subseteq issued
  /\ expired \subseteq dead
  /\ dead \subseteq issued
  /\ issued \subseteq tokens \union dead
  /\ tokens \intersect dead \subseteq expired

\* What each stage of a request knows of its token.
RequestInv ==
  \A c \in Clients :
    LET q == requests[c]
    IN /\ q.pc # "idle" => q.token \in issued \union {NoToken}
       /\ q.pc = "clock" => q.token \in issued /\ (q.late => q.token \in expired)
       /\ q.pc = "drop"  => q.token \in expired
       /\ q.pc = "refuse" =>
            /\ q.token \in dead \union {NoToken}
            /\ q.token \notin tokens
       /\ q.pc = "serve" => ~q.late

RequestsOK ==
  requests \in [Clients -> [pc : RequestStages, token : Tokens \union {NoToken}, late : BOOLEAN]]

SessionInv == RequestsOK /\ TokensInv /\ RequestInv

LEMMA InitSession == ApiInit => SessionInv
BY DEF ApiInit, SessionInv, RequestsOK, TokensInv, RequestInv, NoRequest, RequestStages

LEMMA NextSession == SessionInv /\ [ApiNext]_apiVars => SessionInv'
<1>. SUFFICES ASSUME SessionInv, [ApiNext]_apiVars PROVE SessionInv'
  OBVIOUS
<1>. USE ApiAssumption DEF SessionInv, RequestsOK, TokensInv, RequestInv, RequestStages
<1>1. CASE Login
  BY <1>1 DEF Login
<1>2. ASSUME NEW t \in issued, Logout(t) PROVE SessionInv'
  BY <1>2 DEF Logout
<1>3. ASSUME NEW t \in issued, Expire(t) PROVE SessionInv'
  BY <1>3 DEF Expire
<1>4. ASSUME NEW c \in Clients, NEW t \in issued \union {NoToken}, Present(c, t) PROVE SessionInv'
  BY <1>4 DEF Present
<1>5. ASSUME NEW c \in Clients, CompareClock(c) PROVE SessionInv'
  BY <1>5 DEF CompareClock
<1>6. ASSUME NEW c \in Clients, DropExpired(c) PROVE SessionInv'
  BY <1>6 DEF DropExpired
<1>7. ASSUME NEW c \in Clients, Refuse(c) PROVE SessionInv'
  BY <1>7 DEF Refuse, NoRequest
<1>8. ASSUME NEW c \in Clients, Serve(c) PROVE SessionInv'
  <2>1. requests' = [requests EXCEPT ![c] = NoRequest] \/ UNCHANGED requests
    BY <1>8 DEF Serve
  <2>2. UNCHANGED <<issued, tokens, expired, dead>>
    BY <1>8 DEF Serve
  <2>3. CASE requests' = [requests EXCEPT ![c] = NoRequest]
    BY <2>2, <2>3 DEF NoRequest
  <2>4. CASE UNCHANGED requests
    BY <2>2, <2>4
  <2>. QED
    BY <2>1, <2>3, <2>4
<1>9. CASE ApiRestart
  BY <1>9 DEF ApiRestart, NoRequest
<1>10. CASE UNCHANGED apiVars
  BY <1>10 DEF apiVars
<1>. QED
  BY <1>1, <1>2, <1>3, <1>4, <1>5, <1>6, <1>7, <1>8, <1>9, <1>10 DEF ApiNext

\* The inductive invariant of the sessions.
THEOREM SessionInvariant == ApiSpec => []SessionInv
BY InitSession, NextSession, PTL DEF ApiSpec

(***************************************************************************)
(* A request is only refused for a session that is dead and forgotten.     *)
(***************************************************************************)
THEOREM RefusalsAreDeserved == ApiSpec => []RefusedIsGone
<1>1. SessionInv => RefusedIsGone
  BY DEF SessionInv, RequestInv, RefusedIsGone
<1>. QED
  BY <1>1, SessionInvariant, PTL

(***************************************************************************)
(* Categories change for requests that came in with a living session only. *)
(***************************************************************************)
THEOREM CategoriesAreGuarded == ApiSpec => OnlySessionsChangeCategories
<1>1. ASSUME SessionInv, ApiNext, cats' # cats
      PROVE  \/ \E c \in Clients : requests[c].pc = "serve" /\ ~requests[c].late
             \/ cats' = NoCats /\ tokens' = {}
  <2>1. ASSUME NEW c \in Clients, Serve(c)
        PROVE  requests[c].pc = "serve" /\ ~requests[c].late
    BY <1>1, <2>1 DEF Serve, SessionInv, RequestInv
  <2>2. CASE ApiRestart
    BY <2>2 DEF ApiRestart
  <2>. QED
    BY <1>1, <2>1, <2>2 DEF ApiNext, Login, Logout, Expire, Present, CompareClock, DropExpired, Refuse
<1>2. SessionInv /\ [ApiNext]_apiVars =>
        [cats' # cats =>
           \/ \E c \in Clients : requests[c].pc = "serve" /\ ~requests[c].late
           \/ cats' = NoCats /\ tokens' = {}]_apiVars
  BY <1>1
<1>. QED
  BY <1>2, SessionInvariant, PTL DEF ApiSpec, OnlySessionsChangeCategories
===============================================================================
