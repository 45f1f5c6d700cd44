-------------------------------- MODULE QbitApi --------------------------------
(***************************************************************************)
(* The surface of the shim that Store does not know of: session.go's SID   *)
(* cookies, which guard every handler but login and logout, and the        *)
(* categories, which the guarded handlers of shim.go keep.  Both live in   *)
(* memory: a restart forgets them, and Sonarr logs in again.               *)
(*                                                                         *)
(* A request's cookie is looked up under a read lock and its expiry is     *)
(* compared with the clock later, so a logout, an expiry or another        *)
(* request may come in between.  A token is 16 random bytes: it is never   *)
(* issued twice.  Time is what it does to a token: past its ttl it is in   *)
(* expired.                                                                *)
(***************************************************************************)
EXTENDS FiniteSets

CONSTANTS
  Tokens,               \* SID values
  NoToken,              \* no cookie, or one that was never issued
  Clients,              \* requests being served at a time
  Categories, Paths,    \* names and save paths
  DefaultPath,          \* DefaultPath[n]: DownloadsDir/n
  NoPath                \* the category is not there

ASSUME ApiAssumption ==
  /\ NoToken \notin Tokens
  /\ NoPath \notin Paths
  /\ DefaultPath \in [Categories -> Paths]

VARIABLES
  issued,    \* tokens that have ever been handed out
  tokens,    \* session.tokens
  expired,   \* those whose expiry lies in the past
  dead,      \* not in the program: revoked, expired, or of an earlier process
  cats,      \* Shim.cats
  requests   \* each request: where it is, its cookie, whether that was dead then

apiVars == <<issued, tokens, expired, dead, cats, requests>>

NoRequest == [pc |-> "idle", token |-> NoToken, late |-> FALSE]

NoCats == [n \in Categories |-> NoPath]

ApiInit ==
  /\ issued = {} /\ tokens = {} /\ expired = {} /\ dead = {}
  /\ cats = NoCats
  /\ requests = [c \in Clients |-> NoRequest]

\* Mutant: one session at a time.
LoginAlone ==
  /\ \E t \in Tokens \ issued : issued' = issued \union {t} /\ tokens' = {t}
  /\ UNCHANGED <<expired, dead, cats, requests>>

\* handleLogin with the right credentials, and issue.
Login ==
  /\ \E t \in Tokens \ issued :
       /\ issued' = issued \union {t}
       /\ tokens' = tokens \union {t}
  /\ UNCHANGED <<expired, dead, cats, requests>>

\* handleLogout revokes whatever its cookie names.
Logout(t) ==
  /\ tokens' = tokens \ {t}
  /\ dead' = dead \union {t}
  /\ UNCHANGED <<issued, expired, cats, requests>>

\* The ttl of a token runs out.
Expire(t) ==
  /\ expired' = expired \union {t}
  /\ dead' = dead \union {t}
  /\ UNCHANGED <<issued, tokens, cats, requests>>

\* check, up to RUnlock.
Present(c, t) ==
  /\ requests[c].pc = "idle"
  /\ requests' = [requests EXCEPT ![c] =
       [pc |-> IF t \in tokens THEN "clock" ELSE "refuse", token |-> t,
        late |-> t = NoToken \/ t \in dead]]
  /\ UNCHANGED <<issued, tokens, expired, dead, cats>>

\* Mutant: the expiry is not looked at.
PassClock(c) ==
  /\ requests[c].pc = "clock"
  /\ requests' = [requests EXCEPT ![c].pc = "serve"]
  /\ UNCHANGED <<issued, tokens, expired, dead, cats>>

\* time.Now().After(exp).
CompareClock(c) ==
  /\ requests[c].pc = "clock"
  /\ requests' = [requests EXCEPT ![c].pc = IF requests[c].token \in expired THEN "drop" ELSE "serve"]
  /\ UNCHANGED <<issued, tokens, expired, dead, cats>>

DropExpired(c) ==
  /\ requests[c].pc = "drop"
  /\ tokens' = tokens \ {requests[c].token}
  /\ requests' = [requests EXCEPT ![c].pc = "refuse"]
  /\ UNCHANGED <<issued, expired, dead, cats>>

\* 403.
Refuse(c) ==
  /\ requests[c].pc = "refuse"
  /\ requests' = [requests EXCEPT ![c] = NoRequest]
  /\ UNCHANGED <<issued, tokens, expired, dead, cats>>

-------------------------------------------------------------------------------
\* create and edit overwrite, with the default for an empty savePath.
CreateCategory(n) == \E p \in Paths : cats' = [cats EXCEPT ![n] = p]

\* setCategory only fills in what is missing.
SetCategory(n) == cats' = [cats EXCEPT ![n] = IF @ = NoPath THEN DefaultPath[n] ELSE @]

RemoveCategory(n) == cats' = [cats EXCEPT ![n] = NoPath]

\* One guarded handler; those that change no category are its UNCHANGED.  The
\* request that removes several does so a name at a time and may go on.
Serve(c) ==
  /\ requests[c].pc = "serve"
  /\ \/ /\ \/ \E n \in Categories : CreateCategory(n) \/ SetCategory(n) \/ RemoveCategory(n)
           \/ UNCHANGED cats
        /\ requests' = [requests EXCEPT ![c] = NoRequest]
     \/ \E n \in Categories : RemoveCategory(n) /\ UNCHANGED requests
  /\ UNCHANGED <<issued, tokens, expired, dead>>

\* Mutant: tokens are kept over a restart.
RestartKeeping ==
  /\ dead' = dead \union issued
  /\ cats' = NoCats
  /\ requests' = [c \in Clients |-> NoRequest]
  /\ UNCHANGED <<issued, tokens, expired>>

ApiRestart ==
  /\ tokens' = {}
  /\ dead' = dead \union issued
  /\ cats' = NoCats
  /\ requests' = [c \in Clients |-> NoRequest]
  /\ UNCHANGED <<issued, expired>>

ApiNext ==
  \/ Login
  \/ \E t \in issued : Logout(t) \/ Expire(t)
  \/ \E c \in Clients, t \in issued \union {NoToken} : Present(c, t)
  \/ \E c \in Clients : CompareClock(c) \/ DropExpired(c) \/ Refuse(c) \/ Serve(c)
  \/ ApiRestart

ApiSpec == ApiInit /\ [][ApiNext]_apiVars

-------------------------------------------------------------------------------
(***************************************************************************)
(* "Everything else requires the cookie": categories only ever change for  *)
(* a request whose session was alive when it came in, however that session *)
(* ends while the request is under way, or are lost with the process.      *)
(***************************************************************************)
OnlySessionsChangeCategories ==
  [][cats' # cats =>
       \/ \E c \in Clients : requests[c].pc = "serve" /\ ~requests[c].late
       \/ cats' = NoCats /\ tokens' = {}]_apiVars

(***************************************************************************)
(* A client is turned away for a reason: its session is dead, and is gone  *)
(* from the map, whoever else logged in, logged out or was turned away at  *)
(* the time.  So Sonarr, which logs in again on a 403, is not made to over *)
(* and over, and no expired token it still presents is kept.               *)
(***************************************************************************)
RefusedIsGone ==
  \A c \in Clients : requests[c].pc = "refuse" =>
    /\ requests[c].token \in dead \union {NoToken}
    /\ requests[c].token \notin tokens
===============================================================================
