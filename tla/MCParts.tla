-------------------------------- MODULE MCParts --------------------------------
(***************************************************************************)
(* The components that the core takes as one step or as a constant, and    *)
(* the feed, which the core takes as given: each on its own.  A behaviour  *)
(* is one of part, chosen at its start; the others stay where they began.  *)
(***************************************************************************)
EXTENDS MCFeedSplit, MCSeasonParse, StoreFile, QbitApi, SonarrQueue, CacheFetch

CONSTANTS cat, p1, p2

VARIABLE component

MCDefaultPath == [n \in {cat} |-> p1]

partVars == <<component, vars, parseVars, fileVars, apiVars, queueVars, fetchVars>>

Parts == {"feed", "parse", "file", "api", "queue", "fetch"}

QuietFeed == request = [keyed |-> FALSE, search |-> FALSE] /\ answers = [i \in 1..Upstreams |-> NoBody]

QuietPath == path = <<>>

PartsInit ==
  /\ component \in Parts
  /\ Init
  /\ component # "feed" => QuietFeed
  /\ ParseInit
  /\ component # "parse" => QuietPath
  /\ FileInit
  /\ ApiInit
  /\ QueueInit
  /\ FetchInit

Only(name) == component = name /\ UNCHANGED component

PartsNext ==
  \/ Only("feed")  /\ Next      /\ UNCHANGED <<parseVars, fileVars, apiVars, queueVars, fetchVars>>
  \/ Only("parse") /\ Parse     /\ UNCHANGED <<vars, fileVars, apiVars, queueVars, fetchVars>>
  \/ Only("file")  /\ FileNext  /\ UNCHANGED <<vars, parseVars, apiVars, queueVars, fetchVars>>
  \/ Only("api")   /\ ApiNext   /\ UNCHANGED <<vars, parseVars, fileVars, queueVars, fetchVars>>
  \/ Only("queue") /\ QueueNext /\ UNCHANGED <<vars, parseVars, fileVars, apiVars, fetchVars>>
  \/ Only("fetch") /\ FetchNext /\ UNCHANGED <<vars, parseVars, fileVars, apiVars, queueVars>>

PartsSpec == PartsInit /\ [][PartsNext]_partVars
===============================================================================
