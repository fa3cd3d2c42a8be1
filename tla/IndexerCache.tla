---------------------------- MODULE IndexerCache ----------------------------
(***************************************************************************)
(* The data-indexer's listings: data-indexer/data_indexer.py, from         *)
(* _ensure_watcher to _trigger_background_refresh, and the cache table.    *)
(*                                                                         *)
(* Every request is answered in a thread of its own, every background      *)
(* refresh is another, and each watched root has an observer thread.  They *)
(* share the caches and the generations without a lock; a walk of the      *)
(* archive takes minutes, during which the archive changes.                *)
(*                                                                         *)
(* An archive is what has been changed in it: change n is the n-th, and a  *)
(* listing is the set of the changes it shows.  A walk shows every change  *)
(* made before it began and any of those made while it went on.            *)
(***************************************************************************)
EXTENDS Integers, FiniteSets

CONSTANTS Types,            \* "rinex", "tecsuite", "abstec", "parquet", "parquet_sat"
          Roots,            \* the data directories
          Requests,         \* threads that answer a request
          Refreshers,       \* threads that refresh in the background
          None,
          WatchersEnabled,  \* DATA_INDEXER_WATCHERS_ENABLED, and watchdog installed
          MaxChanges,       \* bound: changes made to one archive
          MaxRestarts       \* bound: restarts of the service

Threads == Requests \cup Refreshers
Keys    == Types \X Roots
Type(k) == k[1]
Root(k) == k[2]

ASSUME IndexerAssumption ==
    /\ WatchersEnabled \in BOOLEAN
    /\ MaxChanges \in Nat /\ MaxRestarts \in Nat
    /\ Requests \cap Refreshers = {}
    /\ None \notin Threads \cup Keys

VARIABLES
    world,       \* by root: how many changes have been made
    events,      \* by root: changes its observer has yet to handle
    told,        \* history, by root: changes its observer has handled
    watcher,     \* by root: _observers and _watcher_disabled
    generation,  \* _root_generation
    scanned,     \* _scanned_generation
    cache,       \* the five cache dicts
    table,       \* the cache table; its primary key is the root alone
    thread,      \* where each thread is
    refreshing,  \* _refresh_in_progress
    active,      \* _active_scans: the scan whose start is on record
    lapped,      \* history, by key: two scans were under way at once
    restarts

shared == <<generation, scanned, cache, table, refreshing, active, lapped>>
vars == <<world, events, told, watcher, shared, thread, restarts>>

-----------------------------------------------------------------------------
Changes == 1..MaxChanges
Listing == [type : Types, shows : SUBSET Changes, fresh : BOOLEAN]

Pc == {"idle", "asked", "spawned", "scanning", "storing", "marking", "saving", "leaving"}
Thread == [pc : Pc, key : Keys \cup {None}, refresh : BOOLEAN,
           generation : 0..MaxChanges, from : 0..MaxChanges, found : SUBSET Changes]

Idle == [pc |-> "idle", key |-> None, refresh |-> FALSE,
         generation |-> 0, from |-> 0, found |-> {}]

Scanning(p, k) == thread[p].key = k /\ thread[p].pc \in {"scanning", "storing", "marking", "saving"}

TypeOK ==
    /\ world \in [Roots -> 0..MaxChanges]
    /\ events \in [Roots -> SUBSET Changes]
    /\ told \in [Roots -> SUBSET Changes]
    /\ watcher \in [Roots -> {"off", "on", "disabled"}]
    /\ generation \in [Roots -> 0..MaxChanges]
    /\ scanned \in [Keys -> 0..MaxChanges]
    /\ cache \in [Keys -> Listing \cup {None}]
    /\ table \in [Roots -> Listing \cup {None}]
    /\ thread \in [Threads -> Thread]
    /\ refreshing \in SUBSET Keys
    /\ active \in [Keys -> Threads \cup {None}]
    /\ lapped \in [Keys -> BOOLEAN]
    /\ restarts \in 0..MaxRestarts

(* The first start: no table yet, and archives that hold something. *)
Init ==
    /\ world = [r \in Roots |-> 0]
    /\ events = [r \in Roots |-> {}]
    /\ told = [r \in Roots |-> {}]
    /\ watcher = [r \in Roots |-> "off"]
    /\ generation = [r \in Roots |-> 0]
    /\ scanned = [k \in Keys |-> 0]
    /\ cache = [k \in Keys |-> None]
    /\ table = [r \in Roots |-> None]
    /\ thread = [p \in Threads |-> Idle]
    /\ refreshing = {}
    /\ active = [k \in Keys |-> None]
    /\ lapped = [k \in Keys |-> FALSE]
    /\ restarts = 0

-----------------------------------------------------------------------------
(***************************************************************************)
(* The archive, its observer, and the clock.                               *)
(***************************************************************************)
ArchiveChanges(r) ==
    /\ world[r] < MaxChanges
    /\ world' = [world EXCEPT ![r] = @ + 1]
    /\ events' = IF watcher[r] = "on" THEN [events EXCEPT ![r] = @ \cup {world[r] + 1}]
                 ELSE events
    /\ UNCHANGED <<told, watcher, shared, thread, restarts>>

(* _RootChangeHandler.on_any_event, of one structural event.  Only the     *)
(* root's own observer writes its generation.                              *)
on_any_event(r) ==
    \E n \in events[r] :
        /\ \A m \in events[r] : n <= m
        /\ events' = [events EXCEPT ![r] = @ \ {n}]
        /\ told' = [told EXCEPT ![r] = @ \cup {n}]
        /\ generation' = [generation EXCEPT ![r] = @ + 1]
        /\ UNCHANGED <<world, watcher, scanned, cache, table, refreshing, active,
                       lapped, thread, restarts>>

Aged(l) == IF l = None THEN None ELSE [l EXCEPT !.fresh = FALSE]

(* The listing is older than _CACHE_TTL_SEC from now on; its copy in the   *)
(* table has the same timestamp.                                           *)
Expires(k) ==
    /\ cache[k] # None /\ cache[k].fresh
    /\ cache' = [cache EXCEPT ![k] = Aged(@)]
    /\ table' = IF table[Root(k)] # None /\ table[Root(k)].type = Type(k)
                THEN [table EXCEPT ![Root(k)] = Aged(@)] ELSE table
    /\ UNCHANGED <<world, events, told, watcher, generation, scanned, refreshing,
                   active, lapped, thread, restarts>>

-----------------------------------------------------------------------------
(***************************************************************************)
(* _scan_and_store.  The generation is read before the walk; cache,        *)
(* generation and table are written after it, one after the other and      *)
(* without a lock.                                                         *)
(***************************************************************************)
Begin(p, k) ==
    /\ thread' = [thread EXCEPT ![p] = [Idle EXCEPT !.pc = "scanning", !.key = k,
                     !.generation = generation[Root(k)], !.from = world[Root(k)]]]
    /\ active' = [active EXCEPT ![k] = p]
    /\ lapped' = [lapped EXCEPT ![k] = @ \/ \E q \in Threads : Scanning(q, k)]

(* The `finally` under _active_scans_lock. *)
NoLongerListedAny(p) ==          \* mutant: whoever's start is on record
    active' = [active EXCEPT ![thread[p].key] = None]

NoLongerListed(p) ==
    active' = [active EXCEPT ![thread[p].key] = IF @ = p THEN None ELSE @]

(* A request is answered; a refresher goes on to its own `finally`. *)
Ends(p) ==
    thread' = [thread EXCEPT ![p] = IF p \in Requests THEN Idle
                                    ELSE [Idle EXCEPT !.pc = "leaving",
                                                      !.key = thread[p].key]]

ScanEnds(p) ==
    /\ thread[p].pc = "scanning"
    /\ \E found \in SUBSET (1..world[Root(thread[p].key)]) :
          /\ 1..thread[p].from \subseteq found
          /\ thread' = [thread EXCEPT ![p].pc = "storing", ![p].found = found, ![p].from = 0]
    /\ NoLongerListed(p)
    /\ UNCHANGED <<world, events, told, watcher, generation, scanned, cache, table,
                   refreshing, lapped, restarts>>

(* The walk raises: nothing is stored. *)
ScanFailsListed(p) ==            \* mutant: no `finally` around the walk
    /\ thread[p].pc = "scanning"
    /\ Ends(p)
    /\ UNCHANGED <<world, events, told, watcher, generation, scanned, cache, table,
                   refreshing, active, lapped, restarts>>

ScanFails(p) ==
    /\ thread[p].pc = "scanning"
    /\ NoLongerListed(p)
    /\ Ends(p)
    /\ UNCHANGED <<world, events, told, watcher, generation, scanned, cache, table,
                   refreshing, lapped, restarts>>

Found(p) == [type |-> Type(thread[p].key), shows |-> thread[p].found, fresh |-> TRUE]

StoresListing(p) ==
    /\ thread[p].pc = "storing"
    /\ cache' = [cache EXCEPT ![thread[p].key] = Found(p)]
    /\ thread' = [thread EXCEPT ![p].pc = "marking"]
    /\ UNCHANGED <<world, events, told, watcher, generation, scanned, table,
                   refreshing, active, lapped, restarts>>

MarksGenerationLate(p) ==        \* mutant: the generation is read after the walk
    /\ thread[p].pc = "marking"
    /\ scanned' = [scanned EXCEPT ![thread[p].key] = generation[Root(thread[p].key)]]
    /\ thread' = [thread EXCEPT ![p].pc = "saving", ![p].generation = 0]
    /\ UNCHANGED <<world, events, told, watcher, generation, cache, table,
                   refreshing, active, lapped, restarts>>

MarksGenerationNext(p) ==        \* mutant: one ahead
    /\ thread[p].pc = "marking"
    /\ scanned' = [scanned EXCEPT ![thread[p].key] = thread[p].generation + 1]
    /\ thread' = [thread EXCEPT ![p].pc = "saving", ![p].generation = 0]
    /\ UNCHANGED <<world, events, told, watcher, generation, cache, table,
                   refreshing, active, lapped, restarts>>

MarksGeneration(p) ==
    /\ thread[p].pc = "marking"
    /\ scanned' = [scanned EXCEPT ![thread[p].key] = thread[p].generation]
    /\ thread' = [thread EXCEPT ![p].pc = "saving", ![p].generation = 0]
    /\ UNCHANGED <<world, events, told, watcher, generation, cache, table,
                   refreshing, active, lapped, restarts>>

(* _save_cache_to_db; a database error is printed and nothing else. *)
SavesListing(p) ==
    /\ thread[p].pc = "saving"
    /\ \/ table' = [table EXCEPT ![Root(thread[p].key)] = Found(p)]
       \/ table' = table
    /\ Ends(p)
    /\ UNCHANGED <<world, events, told, watcher, generation, scanned, cache,
                   refreshing, active, lapped, restarts>>

ScanStep(p) == ScanEnds(p) \/ StoresListing(p) \/ MarksGeneration(p) \/ SavesListing(p)

-----------------------------------------------------------------------------
(***************************************************************************)
(* _cached_listing.                                                        *)
(***************************************************************************)
_ensure_watcher(r) ==
    \E w \in {"on", "disabled"} :        \* "disabled": the observer did not start
        watcher' = IF WatchersEnabled /\ watcher[r] = "off"
                   THEN [watcher EXCEPT ![r] = w] ELSE watcher

Asks(p, k, refresh) ==
    /\ thread[p] = Idle
    /\ _ensure_watcher(Root(k))
    /\ thread' = [thread EXCEPT ![p] = [Idle EXCEPT !.pc = "asked", !.key = k,
                                                    !.refresh = refresh]]
    /\ UNCHANGED <<world, events, told, shared, restarts>>

_cache_is_invalidated(k) == scanned[k] < generation[Root(k)]

(* Forced, invalidated or missing: walked now, while the request waits. *)
ScansNow(p) ==
    LET k == thread[p].key
    IN /\ thread[p].pc = "asked"
       /\ thread[p].refresh \/ _cache_is_invalidated(k) \/ cache[k] = None
       /\ Begin(p, k)
       /\ UNCHANGED <<world, events, told, watcher, generation, scanned, cache, table,
                      refreshing, restarts>>

AnswersFromCache(p) ==
    LET k == thread[p].key
    IN /\ thread[p].pc = "asked"
       /\ ~thread[p].refresh /\ ~_cache_is_invalidated(k) /\ cache[k] # None
       /\ cache[k].fresh
       /\ thread' = [thread EXCEPT ![p] = Idle]
       /\ UNCHANGED <<world, events, told, watcher, shared, restarts>>

(* Stale: the old listing is the answer, and a refresher is started unless *)
(* one is at work on the key already.                                      *)
TriggersAlways(p, k) ==          \* mutant: no look at _refresh_in_progress
    /\ refreshing' = refreshing \cup {k}
    /\ \E b \in Refreshers :
          /\ thread[b] = Idle
          /\ thread' = [thread EXCEPT ![p] = Idle,
                                      ![b] = [Idle EXCEPT !.pc = "spawned", !.key = k]]

_trigger_background_refresh(p, k) ==
    \/ /\ k \in refreshing
       /\ refreshing' = refreshing
       /\ thread' = [thread EXCEPT ![p] = Idle]
    \/ /\ k \notin refreshing
       /\ refreshing' = refreshing \cup {k}
       /\ \E b \in Refreshers :
             /\ thread[b] = Idle
             /\ thread' = [thread EXCEPT ![p] = Idle,
                                         ![b] = [Idle EXCEPT !.pc = "spawned", !.key = k]]

AnswersStale(p) ==
    LET k == thread[p].key
    IN /\ thread[p].pc = "asked"
       /\ ~thread[p].refresh /\ ~_cache_is_invalidated(k) /\ cache[k] # None
       /\ ~cache[k].fresh
       /\ _trigger_background_refresh(p, k)
       /\ UNCHANGED <<world, events, told, watcher, generation, scanned, cache, table,
                      active, lapped, restarts>>

RefreshBegins(b) ==
    /\ thread[b].pc = "spawned"
    /\ Begin(b, thread[b].key)
    /\ UNCHANGED <<world, events, told, watcher, generation, scanned, cache, table,
                   refreshing, restarts>>

RefreshLeavesBooked(b) ==        \* mutant: the key is not discarded
    /\ thread[b].pc = "leaving"
    /\ thread' = [thread EXCEPT ![b] = Idle]
    /\ UNCHANGED <<world, events, told, watcher, shared, restarts>>

RefreshLeaves(b) ==
    /\ thread[b].pc = "leaving"
    /\ refreshing' = refreshing \ {thread[b].key}
    /\ thread' = [thread EXCEPT ![b] = Idle]
    /\ UNCHANGED <<world, events, told, watcher, generation, scanned, cache, table,
                   active, lapped, restarts>>

-----------------------------------------------------------------------------
(* The service dies and comes back: threads, watchers and generations are  *)
(* new, _load_cache_from_db puts each row of the table in the cache of its *)
(* type.                                                                   *)
_load_cache_from_db ==
    cache' = [k \in Keys |->
                IF table[Root(k)] # None /\ table[Root(k)].type = Type(k)
                THEN table[Root(k)] ELSE None]

Restart ==
    /\ restarts < MaxRestarts
    /\ restarts' = restarts + 1
    /\ _load_cache_from_db
    /\ events' = [r \in Roots |-> {}]
    /\ told' = [r \in Roots |-> {}]
    /\ watcher' = [r \in Roots |-> "off"]
    /\ generation' = [r \in Roots |-> 0]
    /\ scanned' = [k \in Keys |-> 0]
    /\ thread' = [p \in Threads |-> Idle]
    /\ refreshing' = {}
    /\ active' = [k \in Keys |-> None]
    /\ lapped' = [k \in Keys |-> FALSE]
    /\ UNCHANGED <<world, table>>

-----------------------------------------------------------------------------
RequestStep(p) == ScansNow(p) \/ AnswersFromCache(p) \/ AnswersStale(p)
RefreshStep(b) == RefreshBegins(b) \/ RefreshLeaves(b)

Next ==
    \/ \E r \in Roots : ArchiveChanges(r) \/ on_any_event(r)
    \/ \E k \in Keys : Expires(k)
    \/ \E p \in Requests : RequestStep(p) \/ \E k \in Keys, f \in BOOLEAN : Asks(p, k, f)
    \/ \E p \in Threads : ScanStep(p) \/ ScanFails(p)
    \/ \E b \in Refreshers : RefreshStep(b)
    \/ Restart

Spec == Init /\ [][Next]_vars

-----------------------------------------------------------------------------
(***************************************************************************)
(* Safety.                                                                 *)
(***************************************************************************)

(* A request that is answered from the cache is shown every change whose   *)
(* event its root's observer had handled by then, even one that fell into  *)
(* the walk that filled the cache - unless two walks of the same listing   *)
(* were ever under way at once.                                            *)
ShowsWhatWasTold(p) ==
    LET k == thread[p].key
    IN thread[p].pc = "asked" /\ thread'[p] = Idle /\ restarts' = restarts =>
           told[Root(k)] \subseteq cache[k].shows \/ lapped[k]

AnswersShowWhatWasTold == [][\A p \in Requests : ShowsWhatWasTold(p)]_vars

(* _refresh_in_progress holds exactly the listings that a background       *)
(* thread is at work on, and no listing has two: neither a second thread,  *)
(* nor a key left behind that would bar every later refresh.               *)
RefreshIsBooked ==
    LET busy == {b \in Refreshers : thread[b] # Idle}
    IN /\ refreshing = {thread[b].key : b \in busy}
       /\ \A b, c \in busy : thread[b].key = thread[c].key => b = c

(* /status shows no scan that is over, and a scan that has no rival is     *)
(* shown.                                                                  *)
ProgressIsTrue ==
    \A k \in Keys :
        /\ active[k] # None => thread[active[k]].pc = "scanning" /\ thread[active[k]].key = k
        /\ \A p \in Threads : thread[p].pc = "scanning" /\ thread[p].key = k =>
                                 active[k] = p \/ lapped[k]

(* A scan that is shown stays until it ends or a later one takes its       *)
(* place: the end of an earlier scan does not hide it.                     *)
ProgressLasts ==
    [][\A k \in Keys : active[k] # None /\ active'[k] = None =>
          thread'[active[k]].pc # "scanning"]_vars

-----------------------------------------------------------------------------
(***************************************************************************)
(* Fairness.  Threads run; events are handled; time passes; a walk that is *)
(* tried again and again succeeds now and then; the listing is asked for   *)
(* again and again.  Without a request the indexer does nothing.           *)
(***************************************************************************)
ThreadRuns(p) ==
    \/ ScanStep(p) \/ ScanFails(p)
    \/ p \in Requests /\ RequestStep(p)
    \/ p \in Refreshers /\ RefreshStep(p)

Fairness ==
    /\ \A p \in Threads : WF_vars(ThreadRuns(p)) /\ SF_vars(ScanEnds(p))
    /\ \A r \in Roots : WF_vars(on_any_event(r))
    /\ \A k \in Keys : /\ WF_vars(Expires(k))
                        /\ SF_vars(\E p \in Requests : Asks(p, k, FALSE))

FairSpec == Spec /\ Fairness

(* Every change is in the listing at last, with the watchers off, with     *)
(* events lost in a restart, and after walks that overtook each other.     *)
ListingCatchesUp ==
    \A k \in Keys, n \in Changes :
        n <= world[Root(k)] ~> cache[k] # None /\ n \in cache[k].shows
=============================================================================
