---------------------------- MODULE IndexerClient ---------------------------
(***************************************************************************)
(* How the hub shows the indexer's trees: data_indexer_client.py with the  *)
(* pages that ask it (run pages, stations map, indexed data).  A request   *)
(* runs on the loop and gives way only while it waits for the indexer.     *)
(* What the indexer itself keeps is IndexerCache's subject: here it        *)
(* answers with the tree it has.  One data root per endpoint.              *)
(***************************************************************************)
EXTENDS Integers, Sequences, FiniteSets

CONSTANTS Requests, Endpoints,
          IndexedTrees, \* those the indexed-data page asks for, in its order
          Documents,   \* the XML the indexer serves, one after the other: sets of years of days of names
          Ttl,         \* DATA_INDEXER_CLIENT_CACHE_TTL_SEC
          Timeout,     \* how long a fetch takes at most: DATA_INDEXER_TIMEOUT_SEC bounds its steps
          EndOfTime    \* bound

VARIABLES truth,   \* the version the indexer has
          until,   \* history: the tick at which each version ceased to be the newest
          clock,
          _cache,
          asks     \* the requests

vars == <<truth, until, clock, _cache, asks>>

NoEntry == [at |-> -1, tree |-> {}]
Asleep == [pc |-> "idle"]

Init ==
    /\ truth = 1 /\ until = [v \in DOMAIN Documents |-> EndOfTime]
    /\ clock = 0
    /\ _cache = [e \in Endpoints |-> NoEntry]
    /\ asks = [r \in Requests |-> Asleep]

-----------------------------------------------------------------------------
(* The parsers leave out what has no name.  A RINEX day has a count, a      *)
(* parquet day only its name, the others have names beneath them.           *)
Leaves(e, day) ==
    CASE e = "rinex" -> Cardinality(day.names)
      [] e = "parquet" -> 0
      [] OTHER -> day.names \ {""}

ParsedDays(e, days) == {[day |-> d.day, leaves |-> Leaves(e, d)] : d \in {n \in days : n.day # ""}}

Parsed(e, document) ==
    {[year |-> y.year, days |-> ParsedDays(e, y.days)] : y \in {n \in document : n.year # ""}}

-----------------------------------------------------------------------------
_get_cache(e) ==
    IF _cache[e].at >= 0 /\ clock - _cache[e].at <= Ttl THEN _cache[e] ELSE NoEntry

Shows(r, ok, tree) ==
    [asks EXCEPT ![r].shown = [ok |-> ok, tree |-> tree, at |-> clock],
                 ![r].todo = Tail(@), ![r].pc = "asks", ![r].sent = -1, ![r].reply = {}]

(* A page that asks one tree after the other; the indexed-data page, and    *)
(* the analysis page's options, clear the cache first.                      *)
Visits(r, todo, refresh, clears) ==
    /\ asks[r].pc = "idle"
    /\ asks' = [asks EXCEPT ![r] = [pc |-> "asks", todo |-> todo, refresh |-> refresh,
                                    since |-> clock, sent |-> -1, reply |-> {},
                                    shown |-> [ok |-> FALSE, tree |-> {}, at |-> clock]]]
    /\ _cache' = IF clears THEN [e \in Endpoints |-> NoEntry] ELSE _cache
    /\ UNCHANGED <<truth, until, clock>>

Asking(r) == asks[r].pc = "asks" /\ asks[r].todo # << >>

AnswersFromCache(r) ==
    LET e == Head(asks[r].todo)
    IN /\ Asking(r)
       /\ ~asks[r].refresh /\ _get_cache(e) # NoEntry
       /\ asks' = Shows(r, TRUE, _cache[e].tree)
       /\ UNCHANGED <<truth, until, clock, _cache>>

(* An entry that is too old is dropped when it is looked at. *)
Fetches(r) ==
    LET e == Head(asks[r].todo)
    IN /\ Asking(r)
       /\ asks[r].refresh \/ _get_cache(e) = NoEntry
       /\ asks' = [asks EXCEPT ![r].pc = "fetches", ![r].sent = clock]
       /\ _cache' = IF asks[r].refresh THEN _cache ELSE [_cache EXCEPT ![e] = NoEntry]
       /\ UNCHANGED <<truth, until, clock>>

(* The indexer has read its tree and its answer is on its way. *)
IndexerReplies(r) ==
    /\ asks[r].pc = "fetches"
    /\ asks' = [asks EXCEPT ![r].pc = "waits", ![r].reply = Documents[truth]]
    /\ UNCHANGED <<truth, until, clock, _cache>>

_set_cache(e, tree) == [_cache EXCEPT ![e] = [at |-> clock, tree |-> tree]]

Arrives(r) ==
    LET e == Head(asks[r].todo)
        tree == Parsed(e, asks[r].reply)
    IN /\ asks[r].pc = "waits"
       /\ _cache' = _set_cache(e, tree)
       /\ asks' = Shows(r, TRUE, tree)
       /\ UNCHANGED <<truth, until, clock>>

FetchFailsStored(r) ==      \* mutant: a failed fetch is remembered as an empty tree
    LET e == Head(asks[r].todo)
    IN /\ asks[r].pc \in {"fetches", "waits"}
       /\ _cache' = _set_cache(e, {})
       /\ asks' = Shows(r, FALSE, {})
       /\ UNCHANGED <<truth, until, clock>>

(* No answer in time, a status of 400 and up, or no XML: the page has an    *)
(* empty tree, without a word that it is not the indexer's.                 *)
FetchFails(r) ==
    /\ asks[r].pc \in {"fetches", "waits"}
    /\ asks' = Shows(r, FALSE, {})
    /\ UNCHANGED <<truth, until, clock, _cache>>

Renders(r) ==
    /\ asks[r].pc = "asks" /\ asks[r].todo = << >>
    /\ asks' = [asks EXCEPT ![r] = Asleep]
    /\ UNCHANGED <<truth, until, clock, _cache>>

-----------------------------------------------------------------------------
(* The archive changes, or the indexer gets to see it. *)
TreeChanges ==
    /\ truth < Len(Documents)
    /\ truth' = truth + 1
    /\ until' = [until EXCEPT ![truth] = clock]
    /\ UNCHANGED <<clock, _cache, asks>>

(* Time passes, but a fetch is given up in time. *)
Ticks ==
    /\ clock < EndOfTime
    /\ \A r \in Requests : asks[r].pc \in {"fetches", "waits"} => clock - asks[r].sent < Timeout
    /\ clock' = clock + 1
    /\ UNCHANGED <<truth, until, _cache, asks>>

Restarts ==
    /\ _cache' = [e \in Endpoints |-> NoEntry]
    /\ asks' = [r \in Requests |-> Asleep]
    /\ UNCHANGED <<truth, until, clock>>

Next ==
    \/ \E r \in Requests, e \in Endpoints, refresh \in BOOLEAN : Visits(r, <<e>>, refresh, FALSE)
    \/ \E r \in Requests, refresh \in BOOLEAN : Visits(r, IndexedTrees, refresh, TRUE)
    \/ \E r \in Requests :
          AnswersFromCache(r) \/ Fetches(r) \/ IndexerReplies(r) \/ Arrives(r) \/ FetchFails(r) \/ Renders(r)
    \/ TreeChanges \/ Ticks \/ Restarts

Spec == Init /\ [][Next]_vars

-----------------------------------------------------------------------------
(* The folders of a document that have a name, at both levels. *)
FoldersIn(document) ==
    UNION {{<<y.year, d.day>> : d \in {n \in y.days : n.day # ""}} :
           y \in {n \in document : n.year # ""}}

(* Whatever a page shows as the indexer's answer was the indexer's tree not *)
(* longer ago than the cache keeps an entry and a fetch may take; on a page *)
(* that asks for a refresh (as after a removal), not before the page was    *)
(* asked for, although fetches that began earlier end in between and store  *)
(* what they got.  A failed fetch is never shown later as an empty tree.    *)
ShownWasTrueLately ==
    \A r \in Requests : asks[r].pc # "idle" =>
        LET s == asks[r].shown
        IN s.ok => \E v \in 1..truth :
              /\ FoldersIn(s.tree) = FoldersIn(Documents[v])
              /\ until[v] >= IF asks[r].refresh THEN asks[r].since ELSE s.at - Ttl - Timeout
=============================================================================
