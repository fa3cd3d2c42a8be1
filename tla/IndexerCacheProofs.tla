------------------------- MODULE IndexerCacheProofs -------------------------
(***************************************************************************)
(* What holds of IndexerCache for every set of listings, requests and      *)
(* refreshers and any number of changes and restarts.                      *)
(***************************************************************************)
EXTENDS IndexerCache, FiniteSetTheorems, TLAPS

-----------------------------------------------------------------------------
(***************************************************************************)
(* Type correctness.  A thread at work has a key; the generation of a root *)
(* is bounded because it counts the changes its observer was told of.      *)
(***************************************************************************)
ThreadsHaveKeys ==
    \A p \in Threads : IF thread[p].pc = "idle" THEN thread[p] = Idle
                                                ELSE thread[p].key \in Keys

EventsAreChanges ==
    \A r \in Roots : /\ events[r] \cup told[r] \subseteq 1..world[r]
                     /\ events[r] \cap told[r] = {}
                     /\ generation[r] = Cardinality(told[r])

TypeInv == TypeOK /\ ThreadsHaveKeys /\ EventsAreChanges

(* A key is a pair of a type and a root. *)
LEMMA KeyParts == \A k \in Keys : Type(k) \in Types /\ Root(k) \in Roots
BY DEF Keys, Type, Root

(* The thread states that the actions write. *)
LEMMA ThreadStates ==
    /\ Idle \in Thread /\ Idle.pc = "idle"
    /\ \A k \in Keys, pc \in Pc : [Idle EXCEPT !.pc = pc, !.key = k] \in Thread
<1>1. 0 \in 0..MaxChanges
  BY IndexerAssumption
<1>2. Idle \in Thread /\ Idle.pc = "idle"
  BY <1>1 DEF Idle, Thread, Pc
<1>3. ASSUME NEW k \in Keys, NEW pc \in Pc PROVE [Idle EXCEPT !.pc = pc, !.key = k] \in Thread
  BY <1>2 DEF Thread
<1> QED
  BY <1>2, <1>3

(* A listing that ages stays a listing, of the same changes. *)
LEMMA AgedType ==
    \A l \in Listing \cup {None} : /\ Aged(l) \in Listing \cup {None}
                                   /\ l # None => Aged(l).shows = l.shows
BY DEF Aged, Listing

(* What a walk found makes a listing. *)
LEMMA FoundType ==
    ASSUME TypeInv, NEW p \in Threads, thread[p].pc # "idle"
    PROVE  Found(p) \in Listing /\ Found(p).shows = thread[p].found
BY KeyParts DEF TypeInv, TypeOK, ThreadsHaveKeys, Found, Listing, Thread

(* A thread that moves to a well-typed state of its own. *)
LEMMA MoveType ==
    ASSUME TypeInv, NEW p \in Threads, NEW s \in Thread,
           IF s.pc = "idle" THEN s = Idle ELSE s.key \in Keys,
           thread' = [thread EXCEPT ![p] = s]
    PROVE  thread' \in [Threads -> Thread] /\ ThreadsHaveKeys'
<1>1. thread' \in [Threads -> Thread]
  BY DEF TypeInv, TypeOK
<1>2. \A q \in Threads : thread'[q] = IF q = p THEN s ELSE thread[q]
  BY DEF TypeInv, TypeOK
<1> QED
  BY <1>1, <1>2 DEF ThreadsHaveKeys, TypeInv

(* A walk that begins. *)
LEMMA BeginType ==
    ASSUME TypeInv, NEW p \in Threads, NEW k \in Keys, Begin(p, k)
    PROVE  /\ thread' \in [Threads -> Thread] /\ ThreadsHaveKeys'
           /\ active' \in [Keys -> Threads \cup {None}]
           /\ lapped' \in [Keys -> BOOLEAN]
<1> DEFINE s == [Idle EXCEPT !.pc = "scanning", !.key = k,
                    !.generation = generation[Root(k)], !.from = world[Root(k)]]
<1>1. generation[Root(k)] \in 0..MaxChanges /\ world[Root(k)] \in 0..MaxChanges
  BY KeyParts DEF TypeInv, TypeOK
<1>2. s \in Thread /\ s.pc = "scanning" /\ s.key = k
  BY <1>1 DEF Idle, Thread, Pc, Changes
<1>3. thread' = [thread EXCEPT ![p] = s]
  BY DEF Begin
<1>4. active' \in [Keys -> Threads \cup {None}]
  BY DEF Begin, TypeInv, TypeOK
<1>5. lapped' \in [Keys -> BOOLEAN]
  <2> DEFINE b == lapped[k] \/ \E q \in Threads : Scanning(q, k)
  <2>1. b \in BOOLEAN
    OBVIOUS
  <2>2. lapped' = [lapped EXCEPT ![k] = b] /\ lapped \in [Keys -> BOOLEAN]
    BY DEF Begin, TypeInv, TypeOK
  <2> HIDE DEF b
  <2> QED
    BY <2>1, <2>2
<1> HIDE DEF s
<1> QED
  BY <1>2, <1>3, <1>4, <1>5, MoveType

(* A thread that is through with its walk. *)
LEMMA EndsType ==
    ASSUME TypeInv, NEW p \in Threads, thread[p].pc # "idle", Ends(p)
    PROVE  thread' \in [Threads -> Thread] /\ ThreadsHaveKeys'
<1> DEFINE s == IF p \in Requests THEN Idle
                ELSE [Idle EXCEPT !.pc = "leaving", !.key = thread[p].key]
<1>1. thread[p].key \in Keys
  BY DEF TypeInv, ThreadsHaveKeys
<1>2. s \in Thread /\ IF s.pc = "idle" THEN s = Idle ELSE s.key \in Keys
  BY <1>1, ThreadStates DEF Pc, Idle
<1>3. thread' = [thread EXCEPT ![p] = s]
  BY DEF Ends
<1> HIDE DEF s
<1> QED
  BY <1>2, <1>3, MoveType

(* The entry of a walk that is over leaves the list of scans. *)
LEMMA NoLongerListedType ==
    ASSUME TypeInv, NEW p \in Threads, NoLongerListed(p)
    PROVE  active' \in [Keys -> Threads \cup {None}]
BY DEF NoLongerListed, TypeInv, TypeOK

(* The observer is told of one change more, and counts it. *)
LEMMA EventType ==
    ASSUME TypeInv, NEW r \in Roots, on_any_event(r)
    PROVE  /\ events' \in [Roots -> SUBSET Changes] /\ told' \in [Roots -> SUBSET Changes]
           /\ generation' \in [Roots -> 0..MaxChanges]
           /\ EventsAreChanges'
<1> PICK n \in events[r] : /\ events' = [events EXCEPT ![r] = @ \ {n}]
                           /\ told' = [told EXCEPT ![r] = @ \cup {n}]
                           /\ generation' = [generation EXCEPT ![r] = @ + 1]
                           /\ world' = world
  BY DEF on_any_event
<1>1. events \in [Roots -> SUBSET Changes] /\ told \in [Roots -> SUBSET Changes]
      /\ generation \in [Roots -> 0..MaxChanges] /\ n \in Changes
  BY DEF TypeInv, TypeOK
<1>2. events' \in [Roots -> SUBSET Changes] /\ told' \in [Roots -> SUBSET Changes]
  BY <1>1
<1>3. IsFiniteSet(Changes) /\ Cardinality(Changes) = MaxChanges
  BY FS_Interval, IndexerAssumption DEF Changes
<1>4. IsFiniteSet(told[r]) /\ n \notin told[r]
  <2>1. told[r] \in SUBSET Changes
    BY <1>1
  <2>2. IsFiniteSet(told[r])
    BY <2>1, <1>3, FS_Subset
  <2>3. n \notin told[r]
    BY DEF TypeInv, EventsAreChanges
  <2> QED
    BY <2>2, <2>3
<1>5. Cardinality(told'[r]) = generation[r] + 1
  <2>1. told'[r] = told[r] \cup {n}
    BY <1>1
  <2>2. Cardinality(told'[r]) = Cardinality(told[r]) + 1
    BY <2>1, <1>4, FS_AddElement
  <2> QED
    BY <2>2 DEF TypeInv, EventsAreChanges
<1>6. Cardinality(told'[r]) <= MaxChanges
  <2>1. told'[r] \in SUBSET Changes
    BY <1>2
  <2> QED
    BY <2>1, <1>3, FS_Subset
<1>7. generation' \in [Roots -> 0..MaxChanges]
  BY <1>1, <1>5, <1>6, IndexerAssumption
<1>8. EventsAreChanges'
  BY <1>1, <1>5 DEF TypeInv, EventsAreChanges
<1> QED
  BY <1>2, <1>7, <1>8

(* The initial state is well typed. *)
LEMMA InitType == Init => TypeInv
<1> SUFFICES ASSUME Init PROVE TypeInv
  OBVIOUS
<1>1. 0 \in 0..MaxChanges /\ 0 \in 0..MaxRestarts
  BY IndexerAssumption
<1>2. TypeOK
  BY <1>1, ThreadStates DEF Init, TypeOK
<1>3. ThreadsHaveKeys /\ EventsAreChanges
  BY FS_EmptySet, ThreadStates DEF Init, ThreadsHaveKeys, EventsAreChanges
<1> QED
  BY <1>2, <1>3 DEF TypeInv

(* Every action keeps the types. *)
LEMMA StepType == TypeInv /\ [Next]_vars => TypeInv'
<1> SUFFICES ASSUME TypeInv, [Next]_vars PROVE TypeInv'
  OBVIOUS
<1> USE IndexerAssumption
<1>1. ASSUME NEW r \in Roots, ArchiveChanges(r) PROVE TypeInv'
  <2>1. /\ world' \in [Roots -> 0..MaxChanges]
        /\ events' \in [Roots -> SUBSET Changes]
    BY <1>1 DEF ArchiveChanges, TypeInv, TypeOK, Changes
  <2>2. EventsAreChanges'
    <3>0. world \in [Roots -> 0..MaxChanges] /\ events \in [Roots -> SUBSET Changes]
      BY DEF TypeInv, TypeOK
    <3>1. \A q \in Roots : /\ world'[q] = IF q = r THEN world[q] + 1 ELSE world[q]
                           /\ events'[q] \in {events[q], events[q] \cup {world'[q]}}
                           /\ q # r => events'[q] = events[q]
      <4>1. world' = [world EXCEPT ![r] = world[r] + 1]
        BY <1>1 DEF ArchiveChanges
      <4>2. events' = events \/ events' = [events EXCEPT ![r] = events[r] \cup {world[r] + 1}]
        BY <1>1 DEF ArchiveChanges
      <4>3. \A q \in Roots : world'[q] = IF q = r THEN world[q] + 1 ELSE world[q]
        BY <3>0, <4>1
      <4>4. world[r] + 1 = world'[r]
        BY <4>3
      <4>5. CASE events' = events
        BY <4>3, <4>5
      <4>6. CASE events' = [events EXCEPT ![r] = events[r] \cup {world[r] + 1}]
        BY <3>0, <4>3, <4>4, <4>6
      <4> QED
        BY <4>2, <4>5, <4>6
    <3>2. \A q \in Roots : world[q] \in Nat /\ events[q] \subseteq 1..world[q]
                           /\ told[q] \subseteq 1..world[q] /\ events[q] \cap told[q] = {}
      BY DEF TypeInv, TypeOK, EventsAreChanges
    <3> QED
      BY <1>1, <3>1, <3>2 DEF ArchiveChanges, shared, TypeInv, EventsAreChanges
  <2> QED
    BY <1>1, <2>1, <2>2 DEF ArchiveChanges, shared, TypeInv, TypeOK, ThreadsHaveKeys
<1>2. ASSUME NEW r \in Roots, on_any_event(r) PROVE TypeInv'
  BY <1>2, EventType DEF on_any_event, TypeInv, TypeOK, ThreadsHaveKeys
<1>3. ASSUME NEW k \in Keys, Expires(k) PROVE TypeInv'
  <2>1. cache' \in [Keys -> Listing \cup {None}] /\ table' \in [Roots -> Listing \cup {None}]
    BY <1>3, AgedType, KeyParts DEF Expires, TypeInv, TypeOK
  <2> QED
    BY <1>3, <2>1 DEF Expires, TypeInv, TypeOK, ThreadsHaveKeys, EventsAreChanges
<1>4. ASSUME NEW p \in Requests, NEW k \in Keys, NEW f \in BOOLEAN, Asks(p, k, f) PROVE TypeInv'
  <2> DEFINE s == [Idle EXCEPT !.pc = "asked", !.key = k, !.refresh = f]
  <2>1. p \in Threads /\ s \in Thread /\ s.pc # "idle" /\ s.key \in Keys
    <3>1. [Idle EXCEPT !.pc = "asked", !.key = k] \in Thread
      BY ThreadStates DEF Pc
    <3>2. s = [[Idle EXCEPT !.pc = "asked", !.key = k] EXCEPT !.refresh = f]
      BY DEF Idle
    <3> QED
      BY <3>1, <3>2 DEF Threads, Thread, Idle
  <2>2. thread' = [thread EXCEPT ![p] = s]
    BY <1>4 DEF Asks
  <2>3. watcher' \in [Roots -> {"off", "on", "disabled"}]
    <3>1. \E w \in {"on", "disabled"} : watcher' \in {[watcher EXCEPT ![Root(k)] = w], watcher}
      BY <1>4 DEF Asks, _ensure_watcher
    <3>2. watcher \in [Roots -> {"off", "on", "disabled"}]
      BY DEF TypeInv, TypeOK
    <3> QED
      BY <3>1, <3>2
  <2> HIDE DEF s
  <2>4. thread' \in [Threads -> Thread] /\ ThreadsHaveKeys'
    BY <2>1, <2>2, MoveType
  <2> QED
    BY <1>4, <2>3, <2>4 DEF Asks, shared, TypeInv, TypeOK, EventsAreChanges
<1>5. ASSUME NEW p \in Requests, ScansNow(p) PROVE TypeInv'
  <2>1. p \in Threads /\ thread[p].key \in Keys /\ Begin(p, thread[p].key)
    BY <1>5 DEF Threads, ScansNow, TypeInv, ThreadsHaveKeys
  <2> QED
    BY <1>5, <2>1, BeginType DEF ScansNow, TypeInv, TypeOK, EventsAreChanges
<1>6. ASSUME NEW p \in Requests, AnswersFromCache(p) PROVE TypeInv'
  <2>1. p \in Threads /\ thread' = [thread EXCEPT ![p] = Idle]
    BY <1>6 DEF Threads, AnswersFromCache
  <2>2. thread' \in [Threads -> Thread] /\ ThreadsHaveKeys'
    BY <2>1, ThreadStates, MoveType
  <2> QED
    BY <1>6, <2>2 DEF AnswersFromCache, shared, TypeInv, TypeOK, EventsAreChanges
<1>7. ASSUME NEW p \in Requests, AnswersStale(p) PROVE TypeInv'
  <2> DEFINE k == thread[p].key
  <2>1. p \in Threads /\ k \in Keys
    BY <1>7 DEF Threads, AnswersStale, TypeInv, ThreadsHaveKeys
  <2>2. refreshing' \in SUBSET Keys
    BY <1>7, <2>1 DEF AnswersStale, _trigger_background_refresh, TypeInv, TypeOK
  <2>3. CASE thread' = [thread EXCEPT ![p] = Idle]
    <3>1. thread' \in [Threads -> Thread] /\ ThreadsHaveKeys'
      BY <2>1, <2>3, ThreadStates, MoveType
    <3> QED
      BY <1>7, <2>2, <3>1 DEF AnswersStale, TypeInv, TypeOK, EventsAreChanges
  <2>4. CASE \E b \in Refreshers : thread' = [thread EXCEPT ![p] = Idle,
                                       ![b] = [Idle EXCEPT !.pc = "spawned", !.key = k]]
    <3> PICK b \in Refreshers : thread' = [thread EXCEPT ![p] = Idle,
                                   ![b] = [Idle EXCEPT !.pc = "spawned", !.key = k]]
      BY <2>4
    <3> DEFINE s == [Idle EXCEPT !.pc = "spawned", !.key = k]
    <3>1. s \in Thread /\ s.pc # "idle" /\ s.key \in Keys
      BY <2>1, ThreadStates DEF Pc, Idle
    <3>2. thread' = [thread EXCEPT ![p] = Idle, ![b] = s]
      OBVIOUS
    <3> HIDE DEF s
    <3>3. thread' \in [Threads -> Thread]
      BY <3>1, <3>2, ThreadStates DEF TypeInv, TypeOK
    <3>4. \A q \in Threads : thread'[q] \in {thread[q], Idle, s}
      BY <3>2 DEF TypeInv, TypeOK
    <3>5. ThreadsHaveKeys'
      BY <3>1, <3>4, ThreadStates DEF TypeInv, ThreadsHaveKeys
    <3> QED
      BY <1>7, <2>2, <3>3, <3>5 DEF AnswersStale, TypeInv, TypeOK, EventsAreChanges
  <2> QED
    BY <1>7, <2>3, <2>4 DEF AnswersStale, _trigger_background_refresh
<1>8. ASSUME NEW p \in Threads, ScanEnds(p) PROVE TypeInv'
  <2>1. thread[p].pc = "scanning" /\ thread[p].key \in Keys /\ thread[p] \in Thread
    BY <1>8 DEF ScanEnds, TypeInv, TypeOK, ThreadsHaveKeys
  <2>2. PICK found \in SUBSET (1..world[Root(thread[p].key)]) :
           thread' = [thread EXCEPT ![p].pc = "storing", ![p].found = found, ![p].from = 0]
    BY <1>8 DEF ScanEnds
  <2>3. found \in SUBSET Changes
    BY <2>1, KeyParts DEF TypeInv, TypeOK, Changes
  <2> DEFINE s == [thread[p] EXCEPT !.pc = "storing", !.found = found, !.from = 0]
  <2>4. s \in Thread /\ s.pc # "idle" /\ s.key \in Keys
    <3>1. 0 \in 0..MaxChanges
      OBVIOUS
    <3> QED
      BY <2>1, <2>3, <3>1 DEF Thread, Pc
  <2>5. thread' = [thread EXCEPT ![p] = s]
    BY <2>2 DEF TypeInv, TypeOK
  <2> HIDE DEF s
  <2>6. thread' \in [Threads -> Thread] /\ ThreadsHaveKeys'
    BY <2>4, <2>5, MoveType
  <2> QED
    BY <1>8, <2>6, NoLongerListedType DEF ScanEnds, TypeInv, TypeOK, EventsAreChanges
<1>9. ASSUME NEW p \in Threads, ScanFails(p) PROVE TypeInv'
  <2>1. thread' \in [Threads -> Thread] /\ ThreadsHaveKeys'
    BY <1>9, EndsType DEF ScanFails
  <2> QED
    BY <1>9, <2>1, NoLongerListedType DEF ScanFails, TypeInv, TypeOK, EventsAreChanges
<1>10. ASSUME NEW p \in Threads, StoresListing(p) PROVE TypeInv'
  <2> DEFINE s == [thread[p] EXCEPT !.pc = "marking"]
  <2>1. s \in Thread /\ s.pc # "idle" /\ s.key \in Keys /\ thread[p].key \in Keys
    BY <1>10 DEF StoresListing, TypeInv, TypeOK, ThreadsHaveKeys, Thread, Pc
  <2>2. thread' = [thread EXCEPT ![p] = s]
    BY <1>10 DEF StoresListing, TypeInv, TypeOK
  <2> HIDE DEF s
  <2>3. thread' \in [Threads -> Thread] /\ ThreadsHaveKeys'
    BY <2>1, <2>2, MoveType
  <2>4. cache' \in [Keys -> Listing \cup {None}]
    BY <1>10, <2>1, FoundType DEF StoresListing, TypeInv, TypeOK
  <2> QED
    BY <1>10, <2>3, <2>4 DEF StoresListing, TypeInv, TypeOK, EventsAreChanges
<1>11. ASSUME NEW p \in Threads, MarksGeneration(p) PROVE TypeInv'
  <2> DEFINE s == [thread[p] EXCEPT !.pc = "saving", !.generation = 0]
  <2>1. thread[p] \in Thread /\ thread[p].key \in Keys /\ 0 \in 0..MaxChanges
    BY <1>11 DEF MarksGeneration, TypeInv, TypeOK, ThreadsHaveKeys
  <2>2. s \in Thread /\ s.pc # "idle" /\ s.key \in Keys
    BY <2>1 DEF Thread, Pc
  <2>3. thread' = [thread EXCEPT ![p] = s]
    BY <1>11 DEF MarksGeneration, TypeInv, TypeOK
  <2> HIDE DEF s
  <2>4. thread' \in [Threads -> Thread] /\ ThreadsHaveKeys'
    BY <2>2, <2>3, MoveType
  <2>5. scanned' \in [Keys -> 0..MaxChanges]
    BY <1>11, <2>1 DEF MarksGeneration, TypeInv, TypeOK, Thread
  <2> QED
    BY <1>11, <2>4, <2>5 DEF MarksGeneration, TypeInv, TypeOK, EventsAreChanges
<1>12. ASSUME NEW p \in Threads, SavesListing(p) PROVE TypeInv'
  <2>1. thread' \in [Threads -> Thread] /\ ThreadsHaveKeys'
    BY <1>12, EndsType DEF SavesListing
  <2>2. table' \in [Roots -> Listing \cup {None}]
    BY <1>12, FoundType DEF SavesListing, TypeInv, TypeOK
  <2> QED
    BY <1>12, <2>1, <2>2 DEF SavesListing, TypeInv, TypeOK, EventsAreChanges
<1>13. ASSUME NEW b \in Refreshers, RefreshBegins(b) PROVE TypeInv'
  <2>1. b \in Threads /\ thread[b].key \in Keys /\ Begin(b, thread[b].key)
    BY <1>13 DEF Threads, RefreshBegins, TypeInv, ThreadsHaveKeys
  <2> QED
    BY <1>13, <2>1, BeginType DEF RefreshBegins, TypeInv, TypeOK, EventsAreChanges
<1>14. ASSUME NEW b \in Refreshers, RefreshLeaves(b) PROVE TypeInv'
  <2>1. b \in Threads /\ thread' = [thread EXCEPT ![b] = Idle]
    BY <1>14 DEF Threads, RefreshLeaves
  <2>2. thread' \in [Threads -> Thread] /\ ThreadsHaveKeys'
    BY <2>1, ThreadStates, MoveType
  <2> QED
    BY <1>14, <2>2 DEF RefreshLeaves, TypeInv, TypeOK, EventsAreChanges
<1>15. ASSUME Restart PROVE TypeInv'
  <2>1. 0 \in 0..MaxChanges /\ restarts' \in 0..MaxRestarts
    BY <1>15 DEF Restart, TypeInv, TypeOK
  <2>2. cache' \in [Keys -> Listing \cup {None}]
    BY <1>15, KeyParts DEF Restart, _load_cache_from_db, TypeInv, TypeOK
  <2>3. TypeOK'
    BY <1>15, <2>1, <2>2, ThreadStates DEF Restart, TypeInv, TypeOK
  <2>4. ThreadsHaveKeys' /\ EventsAreChanges'
    BY <1>15, ThreadStates, FS_EmptySet DEF Restart, ThreadsHaveKeys, EventsAreChanges
  <2> QED
    BY <2>3, <2>4 DEF TypeInv
<1>16. CASE UNCHANGED vars
  BY <1>16 DEF vars, shared, TypeInv, TypeOK, ThreadsHaveKeys, EventsAreChanges
<1> QED
  BY <1>1, <1>2, <1>3, <1>4, <1>5, <1>6, <1>7, <1>8, <1>9, <1>10, <1>11, <1>12, <1>13, <1>14,
     <1>15, <1>16 DEF Next, RequestStep, ScanStep, RefreshStep

(* Every reachable state of the caches, threads, observers and the table   *)
(* is of its type; above all, generations are bounded by the changes.      *)
THEOREM TypeCorrect == Spec => []TypeOK
<1>1. Spec => []TypeInv
  BY InitType, StepType, PTL DEF Spec
<1>2. TypeInv => TypeOK
  BY DEF TypeInv
<1> QED
  BY <1>1, <1>2, PTL

-----------------------------------------------------------------------------
(***************************************************************************)
(* What a step does to a thread.  Every action but a restart moves one     *)
(* thread, or a request and an idle refresher, or none.                    *)
(***************************************************************************)
Key(p) == thread[p].key
AtWork(b) == thread[b].pc # "idle"

(* Busy in the sense of RefreshIsBooked is not being idle. *)
LEMMA BusyIsAtWork == TypeInv => \A p \in Threads : thread[p] # Idle <=> AtWork(p)
BY ThreadStates DEF TypeInv, ThreadsHaveKeys, AtWork

(* What the steps of a walk do to its thread and the booked refreshes. *)
LEMMA WalkMoves ==
    ASSUME TypeInv, NEW p \in Threads,
           ScanStep(p) \/ ScanFails(p) \/ (p \in Requests /\ ScansNow(p))
              \/ (p \in Refreshers /\ RefreshBegins(p))
    PROVE  /\ \A q \in Threads : q # p => thread'[q] = thread[q]
           /\ AtWork(p)
           /\ p \in Refreshers => AtWork(p)' /\ Key(p)' = Key(p)
           /\ refreshing' = refreshing
<1>1. thread \in [Threads -> Thread]
  BY DEF TypeInv, TypeOK
<1>2. p \in Refreshers => p \notin Requests
  BY IndexerAssumption
<1>3. CASE ScanEnds(p)
  <2>1. PICK found : thread' = [thread EXCEPT ![p].pc = "storing", ![p].found = found, ![p].from = 0]
    BY <1>3 DEF ScanEnds
  <2>2. thread'[p] = [thread[p] EXCEPT !.pc = "storing", !.found = found, !.from = 0]
    BY <1>1, <2>1
  <2>3. thread'[p].pc = "storing" /\ thread'[p].key = thread[p].key
    BY <1>1, <2>2 DEF Thread
  <2> QED
    BY <1>1, <1>3, <2>1, <2>3 DEF ScanEnds, AtWork, Key
<1>7. CASE StoresListing(p) \/ MarksGeneration(p)
  BY <1>1, <1>7 DEF StoresListing, MarksGeneration, AtWork, Key, Thread
<1>4. CASE SavesListing(p) \/ ScanFails(p)
  BY <1>1, <1>2, <1>4 DEF SavesListing, ScanFails, Ends, AtWork, Key, Idle
<1>5. CASE p \in Requests /\ ScansNow(p)
  BY <1>1, <1>2, <1>5 DEF ScansNow, Begin, AtWork, Key, Idle
<1>6. CASE p \in Refreshers /\ RefreshBegins(p)
  BY <1>1, <1>2, <1>6 DEF RefreshBegins, Begin, AtWork, Key, Idle
<1> QED
  BY <1>3, <1>4, <1>5, <1>6, <1>7 DEF ScanStep

(***************************************************************************)
(* One background refresh for each booked listing.                         *)
(***************************************************************************)
Booked ==
    /\ \A b \in Refreshers : AtWork(b) => Key(b) \in refreshing
    /\ \A k \in refreshing : \E b \in Refreshers : AtWork(b) /\ Key(b) = k
    /\ \A b, c \in Refreshers : AtWork(b) /\ AtWork(c) /\ Key(b) = Key(c) => b = c

(* This is the property of the run, said refresher by refresher. *)
LEMMA BookedIsRefreshIsBooked == TypeInv => (Booked <=> RefreshIsBooked)
<1> SUFFICES ASSUME TypeInv PROVE Booked <=> RefreshIsBooked
  OBVIOUS
<1>1. {b \in Refreshers : thread[b] # Idle} = {b \in Refreshers : AtWork(b)}
  BY BusyIsAtWork DEF Threads
<1>2. RefreshIsBooked <=>
         /\ refreshing = {thread[b].key : b \in {c \in Refreshers : AtWork(c)}}
         /\ \A b, c \in {d \in Refreshers : AtWork(d)} : thread[b].key = thread[c].key => b = c
  BY <1>1 DEF RefreshIsBooked
<1> QED
  BY <1>2 DEF Booked, Key

(* Threads that keep their work keep it booked. *)
LEMMA BookedStays ==
    ASSUME Booked, refreshing' = refreshing,
           \A b \in Refreshers : AtWork(b)' = AtWork(b) /\ (AtWork(b) => Key(b)' = Key(b))
    PROVE  Booked'
BY DEF Booked

(* A key is taken by the request that spawns a refresher and given up
   when this one leaves; no step takes or frees it otherwise. *)
LEMMA StepBooked == TypeInv /\ Booked /\ [Next]_vars => Booked'
<1> SUFFICES ASSUME TypeInv, Booked, [Next]_vars PROVE Booked'
  OBVIOUS
<1> USE IndexerAssumption DEF Threads
<1>0. thread \in [Threads -> Thread]
  BY DEF TypeInv, TypeOK
<1>1. ASSUME UNCHANGED <<thread, refreshing>> PROVE Booked'
  BY <1>1, BookedStays DEF AtWork, Key
<1>2. ASSUME NEW p \in Threads,
             ScanStep(p) \/ ScanFails(p) \/ (p \in Requests /\ ScansNow(p))
                \/ (p \in Refreshers /\ RefreshBegins(p))
      PROVE  Booked'
  <2>1. \A b \in Refreshers : AtWork(b)' = AtWork(b) /\ (AtWork(b) => Key(b)' = Key(b))
    BY <1>2, WalkMoves DEF AtWork, Key
  <2> QED
    BY <1>2, <2>1, WalkMoves, BookedStays
<1>3. ASSUME NEW p \in Requests, NEW s, thread' = [thread EXCEPT ![p] = s],
             refreshing' = refreshing
      PROVE  Booked'
  <2>1. \A b \in Refreshers : thread'[b] = thread[b]
    BY <1>0, <1>3
  <2> QED
    BY <1>3, <2>1, BookedStays DEF AtWork, Key
<1>4. ASSUME NEW p \in Requests, AnswersStale(p) PROVE Booked'
  <2> DEFINE k == thread[p].key
             s == [Idle EXCEPT !.pc = "spawned", !.key = k]
  <2>1. CASE k \in refreshing /\ refreshing' = refreshing /\ thread' = [thread EXCEPT ![p] = Idle]
    BY <2>1, <1>3
  <2>2. ASSUME k \notin refreshing, refreshing' = refreshing \cup {k}, NEW c \in Refreshers,
               thread[c] = Idle, thread' = [thread EXCEPT ![p] = Idle, ![c] = s]
        PROVE  Booked'
    <3>1. thread'[c] = s /\ \A b \in Refreshers : b # c => thread'[b] = thread[b]
      BY <1>0, <2>2
    <3>2. s.pc # "idle" /\ s.key = k /\ thread[c].pc = "idle"
      BY <2>2 DEF Idle
    <3> HIDE DEF s, k
    <3>3. \A b \in Refreshers : b # c => /\ AtWork(b)' = AtWork(b)
                                         /\ Key(b)' = Key(b)
      BY <3>1 DEF AtWork, Key
    <3>4. ~AtWork(c) /\ AtWork(c)' /\ Key(c)' = k
      BY <3>1, <3>2 DEF AtWork, Key
    <3>5. \A b \in Refreshers : AtWork(b) => Key(b) # k
      BY <2>2 DEF Booked
    <3> QED
      BY <2>2, <3>3, <3>4, <3>5 DEF Booked
  <2> QED
    BY <1>4, <2>1, <2>2 DEF AnswersStale, _trigger_background_refresh
<1>5. ASSUME NEW c \in Refreshers, RefreshLeaves(c) PROVE Booked'
  <2>1. /\ thread[c].pc # "idle" /\ refreshing' = refreshing \ {thread[c].key}
        /\ thread'[c].pc = "idle" /\ \A b \in Refreshers : b # c => thread'[b] = thread[b]
    BY <1>0, <1>5, ThreadStates DEF RefreshLeaves
  <2> QED
    BY <2>1 DEF Booked, AtWork, Key
<1>6. ASSUME Restart PROVE Booked'
  BY <1>6, ThreadStates DEF Restart, Booked, AtWork
<1>7. ASSUME NEW p \in Requests, NEW k \in Keys, NEW f \in BOOLEAN, Asks(p, k, f) PROVE Booked'
  BY <1>7, <1>3 DEF Asks, shared
<1>8. ASSUME NEW p \in Requests, AnswersFromCache(p) PROVE Booked'
  BY <1>8, <1>3 DEF AnswersFromCache, shared
<1>9. ASSUME NEW r \in Roots, ArchiveChanges(r) \/ on_any_event(r) PROVE Booked'
  BY <1>9, <1>1 DEF ArchiveChanges, on_any_event, shared
<1>10. ASSUME NEW k \in Keys, Expires(k) PROVE Booked'
  BY <1>10, <1>1 DEF Expires
<1>11. CASE UNCHANGED vars
  BY <1>11, <1>1 DEF vars, shared
<1>12. ASSUME NEW p \in Requests, ScansNow(p) PROVE Booked'
  <2>1. p \in Threads
    OBVIOUS
  <2> QED
    BY <1>2, <1>12, <2>1
<1>13. ASSUME NEW b \in Refreshers, RefreshBegins(b) PROVE Booked'
  <2>1. b \in Threads
    OBVIOUS
  <2> QED
    BY <1>2, <1>13, <2>1
<1>14. ASSUME NEW p \in Threads, ScanStep(p) \/ ScanFails(p) PROVE Booked'
  BY <1>2, <1>14
<1> QED
  BY <1>4, <1>5, <1>6, <1>7, <1>8, <1>9, <1>10, <1>11, <1>12, <1>13, <1>14
     DEF Next, RequestStep, RefreshStep

(* Whatever requests, failures and restarts do, _refresh_in_progress is    *)
(* the set of the listings that background threads work on, one each.      *)
THEOREM RefreshBooked == Spec => []RefreshIsBooked
<1>1. Init => TypeInv /\ Booked
  <2>1. Init => Booked
    BY ThreadStates DEF Init, Booked, AtWork, Threads
  <2> QED
    BY <2>1, InitType
<1>2. (TypeInv /\ Booked) /\ [Next]_vars => (TypeInv /\ Booked)'
  BY StepType, StepBooked
<1>3. TypeInv /\ Booked => RefreshIsBooked
  BY BookedIsRefreshIsBooked
<1> QED
  BY <1>1, <1>2, <1>3, PTL DEF Spec

-----------------------------------------------------------------------------
(***************************************************************************)
(* The list of scans.                                                      *)
(***************************************************************************)
Walks(p, k) == thread[p].pc = "scanning" /\ thread[p].key = k

Listed ==
    \A k \in Keys : /\ active[k] # None => Walks(active[k], k)
                    /\ \A p \in Threads : Walks(p, k) => active[k] = p \/ lapped[k]

(* A walk begins, ends, or all go on. *)
Begins(p, k) ==
    /\ thread[p].pc # "scanning" /\ Begin(p, k)

WalkEnds(p) ==
    /\ thread[p].pc = "scanning" /\ NoLongerListed(p) /\ lapped' = lapped
    /\ thread'[p].pc # "scanning"
    /\ \A q \in Threads : q # p => thread'[q] = thread[q]

WalksGoOn ==
    /\ active' = active /\ lapped' = lapped
    /\ \A p \in Threads : thread'[p] = thread[p]
                             \/ (thread[p].pc # "scanning" /\ thread'[p].pc # "scanning")

(* Every step begins a walk, ends one or lets them go on, but a restart. *)
LEMMA WalkCases ==
    TypeInv /\ [Next]_vars =>
        \/ \E p \in Threads, k \in Keys : Begins(p, k)
        \/ \E p \in Threads : WalkEnds(p)
        \/ WalksGoOn
        \/ Restart
<1> SUFFICES ASSUME TypeInv, [Next]_vars
             PROVE  \/ \E p \in Threads, k \in Keys : Begins(p, k)
                    \/ \E p \in Threads : WalkEnds(p)
                    \/ WalksGoOn
                    \/ Restart
  OBVIOUS
<1>0. thread \in [Threads -> Thread] /\ Requests \subseteq Threads /\ Refreshers \subseteq Threads
  BY DEF TypeInv, TypeOK, Threads
<1>1. ASSUME NEW r \in Roots, ArchiveChanges(r) \/ on_any_event(r) PROVE WalksGoOn
  BY <1>1 DEF ArchiveChanges, on_any_event, shared, WalksGoOn
<1>2. ASSUME NEW k \in Keys, Expires(k) PROVE WalksGoOn
  BY <1>2 DEF Expires, WalksGoOn
<1>3. ASSUME NEW p \in Requests, NEW k \in Keys, NEW f \in BOOLEAN, Asks(p, k, f) PROVE WalksGoOn
  BY <1>0, <1>3 DEF Asks, shared, WalksGoOn, Idle
<1>4. ASSUME NEW p \in Threads, ScansNow(p) \/ RefreshBegins(p)
      PROVE  \E k \in Keys : Begins(p, k)
  BY <1>4 DEF ScansNow, RefreshBegins, Begins, TypeInv, ThreadsHaveKeys
<1>5. ASSUME NEW p \in Requests, AnswersFromCache(p) PROVE WalksGoOn
  BY <1>0, <1>5 DEF AnswersFromCache, shared, WalksGoOn, Idle
<1>6. ASSUME NEW p \in Requests, AnswersStale(p) PROVE WalksGoOn
  <2>1. thread[p].pc # "scanning" /\ active' = active /\ lapped' = lapped
    BY <1>6 DEF AnswersStale
  <2>2. CASE thread' = [thread EXCEPT ![p] = Idle]
    BY <1>0, <2>1, <2>2 DEF WalksGoOn, Idle
  <2>3. ASSUME NEW b \in Refreshers, NEW k, thread[b] = Idle,
               thread' = [thread EXCEPT ![p] = Idle,
                                        ![b] = [Idle EXCEPT !.pc = "spawned", !.key = k]]
        PROVE  WalksGoOn
    BY <1>0, <2>1, <2>3 DEF WalksGoOn, Idle
  <2> QED
    BY <1>6, <2>2, <2>3 DEF AnswersStale, _trigger_background_refresh
<1>7. ASSUME NEW p \in Threads, ScanEnds(p) PROVE WalkEnds(p)
  <2>1. PICK found : thread' = [thread EXCEPT ![p].pc = "storing", ![p].found = found, ![p].from = 0]
    BY <1>7 DEF ScanEnds
  <2>2. thread'[p] = [thread[p] EXCEPT !.pc = "storing", !.found = found, !.from = 0]
    BY <1>0, <2>1
  <2>3. thread'[p].pc = "storing"
    BY <1>0, <2>2 DEF Thread
  <2> QED
    BY <1>0, <1>7, <2>1, <2>3 DEF ScanEnds, WalkEnds
<1>8. ASSUME NEW p \in Threads, ScanFails(p) PROVE WalkEnds(p)
  BY <1>0, <1>8 DEF ScanFails, Ends, WalkEnds, Idle
<1>9. ASSUME NEW p \in Threads, StoresListing(p) \/ MarksGeneration(p) \/ SavesListing(p)
      PROVE  WalksGoOn
  <2>1. thread[p].pc # "scanning" /\ active' = active /\ lapped' = lapped
    BY <1>9 DEF StoresListing, MarksGeneration, SavesListing
  <2>2. thread'[p].pc # "scanning"
    <3>1. CASE StoresListing(p) \/ MarksGeneration(p)
      BY <1>0, <3>1 DEF StoresListing, MarksGeneration, Thread
    <3>2. CASE SavesListing(p)
      BY <1>0, <3>2 DEF SavesListing, Ends, Idle
    <3> QED
      BY <1>9, <3>1, <3>2
  <2>3. \A q \in Threads : q # p => thread'[q] = thread[q]
    BY <1>0, <1>9 DEF StoresListing, MarksGeneration, SavesListing, Ends
  <2> QED
    BY <2>1, <2>2, <2>3 DEF WalksGoOn
<1>10. ASSUME NEW b \in Refreshers, RefreshLeaves(b) PROVE WalksGoOn
  BY <1>0, <1>10 DEF RefreshLeaves, WalksGoOn, Idle
<1>11. CASE UNCHANGED vars
  BY <1>11 DEF vars, shared, WalksGoOn
<1>12. ASSUME NEW p \in Requests, ScansNow(p) PROVE \E q \in Threads, k \in Keys : Begins(q, k)
  BY <1>0, <1>4, <1>12
<1>13. ASSUME NEW b \in Refreshers, RefreshBegins(b) PROVE \E q \in Threads, k \in Keys : Begins(q, k)
  BY <1>0, <1>4, <1>13
<1> QED
  BY <1>1, <1>2, <1>3, <1>5, <1>6, <1>7, <1>8, <1>9, <1>10, <1>11, <1>12, <1>13
     DEF Next, RequestStep, ScanStep, RefreshStep

(* No step takes a walk from the list that has it to itself. *)
LEMMA StepListed == TypeInv /\ Listed /\ [Next]_vars => Listed'
<1> SUFFICES ASSUME TypeInv, Listed, [Next]_vars PROVE Listed'
  OBVIOUS
<1>0. /\ thread \in [Threads -> Thread] /\ active \in [Keys -> Threads \cup {None}]
      /\ lapped \in [Keys -> BOOLEAN] /\ None \notin Threads
  BY IndexerAssumption DEF TypeInv, TypeOK
<1>1. ASSUME NEW p \in Threads, NEW k \in Keys, Begins(p, k) PROVE Listed'
  <2>1. /\ thread'[p].pc = "scanning" /\ thread'[p].key = k
        /\ \A q \in Threads : q # p => thread'[q] = thread[q]
    BY <1>0, <1>1 DEF Begins, Begin, Idle
  <2>2. /\ active'[k] = p /\ lapped'[k] = (lapped[k] \/ \E q \in Threads : Scanning(q, k))
        /\ \A l \in Keys : l # k => active'[l] = active[l] /\ lapped'[l] = lapped[l]
    BY <1>0, <1>1 DEF Begins, Begin
  <2>3. \A q \in Threads : Walks(q, k) => lapped'[k]
    BY <2>2 DEF Walks, Scanning
  <2>4. \A l \in Keys : active[l] # p
    BY <1>0, <1>1 DEF Listed, Walks, Begins
  <2>5. ASSUME NEW l \in Keys, active'[l] # None PROVE Walks(active[l], l)'
    <3>1. CASE l = k
      BY <2>1, <2>2, <3>1 DEF Walks
    <3>2. CASE l # k
      <4>1. active'[l] = active[l] /\ active[l] \in Threads /\ active[l] # p /\ Walks(active[l], l)
        BY <1>0, <2>2, <2>4, <2>5, <3>2 DEF Listed
      <4> QED
        BY <2>1, <4>1 DEF Walks
    <3> QED
      BY <3>1, <3>2
  <2>6. ASSUME NEW l \in Keys, NEW q \in Threads, Walks(q, l)' PROVE active'[l] = q \/ lapped'[l]
    <3>1. CASE q = p
      BY <2>1, <2>2, <2>6, <3>1 DEF Walks
    <3>2. CASE q # p
      <4>1. Walks(q, l)
        BY <2>1, <2>6, <3>2 DEF Walks
      <4> QED
        BY <2>2, <2>3, <4>1 DEF Listed
    <3> QED
      BY <3>1, <3>2
  <2> QED
    BY <2>5, <2>6 DEF Listed
<1>2. ASSUME NEW p \in Threads, WalkEnds(p) PROVE Listed'
  <2> DEFINE k == thread[p].key
  <2>1. k \in Keys /\ thread[p].pc = "scanning"
    BY <1>2 DEF WalkEnds, TypeInv, ThreadsHaveKeys
  <2>2. /\ active'[k] = IF active[k] = p THEN None ELSE active[k]
        /\ \A l \in Keys : l # k => active'[l] = active[l]
    BY <1>0, <1>2, <2>1 DEF WalkEnds, NoLongerListed
  <2>3. /\ thread'[p].pc # "scanning" /\ lapped' = lapped
        /\ \A q \in Threads : q # p => thread'[q] = thread[q]
    BY <1>2 DEF WalkEnds
  <2>4. \A l \in Keys : l # k => active[l] # p
    BY <1>0 DEF Listed, Walks
  <2>5. ASSUME NEW l \in Keys, active'[l] # None PROVE Walks(active[l], l)'
    <3>1. active'[l] = active[l] /\ active[l] \in Threads /\ active[l] # p /\ Walks(active[l], l)
      BY <1>0, <2>2, <2>4, <2>5 DEF Listed
    <3> QED
      BY <2>3, <3>1 DEF Walks
  <2>6. ASSUME NEW l \in Keys, NEW q \in Threads, Walks(q, l)' PROVE active'[l] = q \/ lapped'[l]
    <3>1. q # p /\ Walks(q, l)
      BY <2>3, <2>6 DEF Walks
    <3> QED
      BY <2>2, <2>3, <3>1 DEF Listed
  <2> QED
    BY <2>5, <2>6 DEF Listed
<1>3. CASE WalksGoOn
  <2>1. \A p \in Threads, k \in Keys : Walks(p, k)' = Walks(p, k)
    BY <1>3 DEF WalksGoOn, Walks
  <2>2. active' = active /\ lapped' = lapped
    BY <1>3 DEF WalksGoOn
  <2>3. ASSUME NEW k \in Keys, active'[k] # None PROVE Walks(active[k], k)'
    BY <1>0, <2>1, <2>2, <2>3 DEF Listed
  <2>4. ASSUME NEW k \in Keys, NEW p \in Threads, Walks(p, k)' PROVE active'[k] = p \/ lapped'[k]
    BY <2>1, <2>2, <2>4 DEF Listed
  <2> QED
    BY <2>3, <2>4 DEF Listed
<1>4. CASE Restart
  BY <1>4, ThreadStates DEF Restart, Listed, Walks
<1> QED
  BY <1>1, <1>2, <1>3, <1>4, WalkCases

(* /status shows no scan that is over, and every scan without a rival.     *)
THEOREM ProgressTrue == Spec => []ProgressIsTrue
<1>1. Init => TypeInv /\ Listed
  <2>1. Init => Listed
    BY ThreadStates DEF Init, Listed, Walks
  <2> QED
    BY <2>1, InitType
<1>2. (TypeInv /\ Listed) /\ [Next]_vars => (TypeInv /\ Listed)'
  BY StepType, StepListed
<1>3. Listed => ProgressIsTrue
  BY DEF Listed, Walks, ProgressIsTrue
<1> QED
  BY <1>1, <1>2, <1>3, PTL DEF Spec

(* The end of an earlier scan does not hide the scan that is shown.        *)
THEOREM ProgressLasting == Spec => ProgressLasts
<1> DEFINE Lasts == \A k \in Keys : active[k] # None /\ active'[k] = None =>
                                       thread'[active[k]].pc # "scanning"
<1>1. TypeInv /\ Listed /\ [Next]_vars => Lasts
  <2> SUFFICES ASSUME TypeInv, Listed, [Next]_vars, NEW k \in Keys,
                      active[k] # None, active'[k] = None
               PROVE  thread'[active[k]].pc # "scanning"
    OBVIOUS
  <2>0. /\ active \in [Keys -> Threads \cup {None}] /\ active[k] \in Threads /\ None \notin Threads
    BY IndexerAssumption DEF TypeInv, TypeOK
  <2>1. ASSUME NEW p \in Threads, NEW l \in Keys, Begins(p, l) PROVE FALSE
    BY <2>0, <2>1 DEF Begins, Begin
  <2>2. ASSUME NEW p \in Threads, WalkEnds(p) PROVE thread'[active[k]].pc # "scanning"
    BY <2>0, <2>2 DEF WalkEnds, NoLongerListed
  <2>3. CASE WalksGoOn
    BY <2>3 DEF WalksGoOn
  <2>4. CASE Restart
    BY <2>0, <2>4, ThreadStates DEF Restart
  <2> QED
    BY <2>1, <2>2, <2>3, <2>4, WalkCases
<1>2. Init => TypeInv /\ Listed
  <2>1. Init => Listed
    BY ThreadStates DEF Init, Listed, Walks
  <2> QED
    BY <2>1, InitType
<1>3. (TypeInv /\ Listed) /\ [Next]_vars => (TypeInv /\ Listed)'
  BY StepType, StepListed
<1>4. TypeInv /\ Listed /\ [Next]_vars => [Lasts]_vars
  BY <1>1
<1> QED
  BY <1>2, <1>3, <1>4, PTL DEF Spec, ProgressLasts

-----------------------------------------------------------------------------
(***************************************************************************)
(* What a cached listing shows.  As long as a listing is walked by one     *)
(* thread at a time, the generation on record for it, and the one a walk   *)
(* has read, never promise more than the data: if it is the root's present *)
(* generation, the data shows every change the observer was told of.       *)
(***************************************************************************)
Present(k) == generation[Root(k)]

Bounded ==
    /\ \A k \in Keys : scanned[k] <= Present(k)
    /\ \A p \in Threads : AtWork(p) => thread[p].generation <= Present(Key(p))

OneWalker ==
    \A k \in Keys : ~lapped[k] =>
        \A p, q \in Threads : Scanning(p, k) /\ Scanning(q, k) => p = q

Shows(k) == cache[k] # None => told[Root(k)] \subseteq cache[k].shows

CacheIsHonest ==
    \A k \in Keys : ~lapped[k] /\ scanned[k] = Present(k) => Shows(k)

(* What a walk that has read the present generation knows at each place. *)
Knows(p) ==
    LET t == thread[p]
    IN  /\ t.pc = "scanning" => told[Root(t.key)] \subseteq 1..t.from
        /\ t.pc = "storing"  => told[Root(t.key)] \subseteq t.found
        /\ t.pc = "marking"  => Shows(t.key)

WalksAreHonest ==
    \A p \in Threads :
        thread[p].pc \in {"scanning", "storing", "marking"} /\ ~lapped[thread[p].key] =>
            /\ scanned[thread[p].key] <= thread[p].generation
            /\ thread[p].generation = Present(thread[p].key) => Knows(p)

Honest == Bounded /\ OneWalker /\ CacheIsHonest /\ WalksAreHonest

(* Steps that leave the generations, what was told and what is shown; a    *)
(* thread stays where it is or leaves the walk.                            *)
Quiet ==
    /\ scanned' = scanned /\ generation' = generation /\ told' = told /\ lapped' = lapped
    /\ \A k \in Keys : \/ cache'[k] = cache[k]
                       \/ cache[k] # None /\ cache'[k].shows = cache[k].shows
    /\ \A p \in Threads : \/ thread'[p] = thread[p]
                          \/ /\ thread'[p].pc \in {"idle", "asked", "spawned", "leaving"}
                             /\ thread'[p].generation = 0

(* A step that stores nothing and tells nobody of a change keeps all honest. *)
LEMMA QuietKeepsHonest == TypeInv /\ TypeInv' /\ Honest /\ Quiet => Honest'
<1> SUFFICES ASSUME TypeInv, TypeInv', Honest, Quiet PROVE Honest'
  OBVIOUS
<1>0. /\ \A k \in Keys : Root(k) \in Roots
      /\ generation \in [Roots -> 0..MaxChanges] /\ scanned \in [Keys -> 0..MaxChanges]
      /\ \A p \in Threads : AtWork(p) => thread[p].key \in Keys
      /\ \A p \in Threads : AtWork(p)' => thread'[p].key \in Keys
  BY KeyParts DEF TypeInv, TypeOK, ThreadsHaveKeys, AtWork
<1>1. \A p \in Threads : thread'[p].pc \in {"scanning", "storing", "marking", "saving"}
                             => thread'[p] = thread[p]
  BY DEF Quiet
<1>2. \A k \in Keys : Shows(k) => Shows(k)'
  BY DEF Shows, Quiet
<1>3. \A k \in Keys : Present(k)' = Present(k)
  BY DEF Quiet, Present
<1>4. Bounded'
  <2>1. ASSUME NEW p \in Threads, AtWork(p)' PROVE thread'[p].generation <= Present(thread[p].key)'
    <3>1. CASE thread'[p] = thread[p]
      BY <1>0, <1>3, <2>1, <3>1 DEF Honest, Bounded, AtWork, Key
    <3>2. CASE thread'[p].generation = 0
      BY <1>0, <1>3, <2>1, <3>2, IndexerAssumption DEF Present
    <3> QED
      BY <3>1, <3>2 DEF Quiet
  <2>2. \A k \in Keys : scanned'[k] <= Present(k)'
    BY <1>3 DEF Honest, Bounded, Quiet
  <2> QED
    BY <2>1, <2>2 DEF Bounded, Key
<1>5. OneWalker'
  <2>1. \A p \in Threads, k \in Keys : Scanning(p, k)' => Scanning(p, k)
    BY <1>1 DEF Scanning
  <2> QED
    BY <2>1 DEF Honest, OneWalker, Quiet
<1>6. CacheIsHonest'
  BY <1>2, <1>3 DEF Honest, CacheIsHonest, Quiet
<1>7. WalksAreHonest'
  <2> SUFFICES ASSUME NEW p \in Threads, thread'[p].pc \in {"scanning", "storing", "marking"},
                      ~lapped'[thread'[p].key]
               PROVE  /\ scanned'[thread'[p].key] <= thread'[p].generation
                      /\ thread'[p].generation = Present(thread[p].key)' => Knows(p)'
    BY DEF WalksAreHonest
  <2>1. thread'[p] = thread[p] /\ thread[p].key \in Keys
    BY <1>0, <1>1 DEF AtWork
  <2>2. Knows(p) => Knows(p)'
    BY <1>2, <2>1 DEF Knows, Quiet
  <2> QED
    BY <1>3, <2>1, <2>2 DEF Honest, WalksAreHonest, Quiet
<1> QED
  BY <1>4, <1>5, <1>6, <1>7 DEF Honest

(* The steps that store nothing. *)
LEMMA QuietSteps ==
    ASSUME TypeInv,
           \/ \E r \in Roots : ArchiveChanges(r)
           \/ \E k \in Keys : Expires(k)
           \/ \E p \in Requests : AnswersFromCache(p) \/ AnswersStale(p)
           \/ \E p \in Requests, k \in Keys, f \in BOOLEAN : Asks(p, k, f)
           \/ \E p \in Threads : ScanFails(p) \/ SavesListing(p)
           \/ \E b \in Refreshers : RefreshLeaves(b)
           \/ UNCHANGED vars
    PROVE  Quiet
<1>0. thread \in [Threads -> Thread] /\ Requests \subseteq Threads /\ Refreshers \subseteq Threads
  BY DEF TypeInv, TypeOK, Threads
<1>1. ASSUME NEW r \in Roots, ArchiveChanges(r) PROVE Quiet
  BY <1>1 DEF ArchiveChanges, shared, Quiet
<1>2. ASSUME NEW k \in Keys, Expires(k) PROVE Quiet
  <2>1. cache \in [Keys -> Listing \cup {None}] /\ cache' = [cache EXCEPT ![k] = Aged(cache[k])]
    BY <1>2 DEF Expires, TypeInv, TypeOK
  <2>2. cache[k] # None /\ Aged(cache[k]).shows = cache[k].shows
    BY <1>2, <2>1, AgedType DEF Expires
  <2> QED
    BY <1>2, <2>1, <2>2 DEF Expires, Quiet
<1>3. ASSUME NEW p \in Requests, AnswersFromCache(p) PROVE Quiet
  BY <1>0, <1>3 DEF AnswersFromCache, shared, Quiet, Idle
<1>4. ASSUME NEW p \in Requests, AnswersStale(p) PROVE Quiet
  <2>1. UNCHANGED <<scanned, generation, told, lapped, cache>>
    BY <1>4 DEF AnswersStale
  <2>2. CASE thread' = [thread EXCEPT ![p] = Idle]
    BY <1>0, <2>1, <2>2 DEF Quiet, Idle
  <2>3. ASSUME NEW b \in Refreshers, NEW k,
               thread' = [thread EXCEPT ![p] = Idle,
                                        ![b] = [Idle EXCEPT !.pc = "spawned", !.key = k]]
        PROVE  Quiet
    BY <1>0, <2>1, <2>3 DEF Quiet, Idle
  <2> QED
    BY <1>4, <2>2, <2>3 DEF AnswersStale, _trigger_background_refresh
<1>5. ASSUME NEW p \in Requests, NEW k \in Keys, NEW f \in BOOLEAN, Asks(p, k, f) PROVE Quiet
  BY <1>0, <1>5 DEF Asks, shared, Quiet, Idle
<1>6. ASSUME NEW p \in Threads, ScanFails(p) \/ SavesListing(p) PROVE Quiet
  <2>1. UNCHANGED <<scanned, generation, told, lapped, cache>> /\ Ends(p)
    BY <1>6 DEF ScanFails, SavesListing
  <2> QED
    BY <1>0, <2>1 DEF Ends, Quiet, Idle
<1>7. ASSUME NEW b \in Refreshers, RefreshLeaves(b) PROVE Quiet
  BY <1>0, <1>7 DEF RefreshLeaves, Quiet, Idle
<1>8. CASE UNCHANGED vars
  BY <1>8 DEF vars, shared, Quiet
<1> QED
  BY <1>1, <1>2, <1>3, <1>4, <1>5, <1>6, <1>7, <1>8

(* An event that is handled leaves every record behind the present         *)
(* generation, so that it promises nothing.                                *)
LEMMA EventKeepsHonest ==
    ASSUME TypeInv, Honest, NEW r \in Roots, on_any_event(r)
    PROVE  Honest'
<1>0. /\ \A k \in Keys : Root(k) \in Roots
      /\ generation \in [Roots -> 0..MaxChanges] /\ scanned \in [Keys -> 0..MaxChanges]
      /\ \A p \in Threads : AtWork(p) => thread[p].key \in Keys
      /\ thread \in [Threads -> Thread]
  BY KeyParts DEF TypeInv, TypeOK, ThreadsHaveKeys, AtWork
<1>1. /\ UNCHANGED <<scanned, cache, lapped, thread>>
      /\ generation' = [generation EXCEPT ![r] = @ + 1]
      /\ \A q \in Roots : q # r => told'[q] = told[q]
  BY DEF on_any_event, TypeInv, TypeOK
<1>2. \A k \in Keys : IF Root(k) = r THEN Present(k)' = Present(k) + 1
                                      ELSE Present(k)' = Present(k) /\ told'[Root(k)] = told[Root(k)]
  BY <1>0, <1>1 DEF Present
<1>3. \A k \in Keys : Present(k) \in Nat /\ scanned[k] \in Nat
  BY <1>0, IndexerAssumption DEF Present
<1>4. \A p \in Threads : thread[p].generation \in Nat
  BY <1>0, IndexerAssumption DEF Thread
<1>5. Bounded'
  BY <1>0, <1>1, <1>2, <1>3, <1>4 DEF Honest, Bounded, AtWork, Key
<1>6. OneWalker'
  BY <1>1 DEF Honest, OneWalker, Scanning
<1>7. CacheIsHonest'
  BY <1>1, <1>2, <1>3 DEF Honest, Bounded, CacheIsHonest, Shows
<1>8. WalksAreHonest'
  <2> SUFFICES ASSUME NEW p \in Threads, thread[p].pc \in {"scanning", "storing", "marking"},
                      ~lapped[thread[p].key]
               PROVE  /\ scanned[thread[p].key] <= thread[p].generation
                      /\ thread[p].generation = Present(thread[p].key)' => Knows(p)'
    BY <1>1 DEF WalksAreHonest
  <2>1. thread[p].key \in Keys /\ thread[p].generation <= Present(thread[p].key)
    BY <1>0 DEF Honest, Bounded, AtWork, Key
  <2>2. thread[p].generation = Present(thread[p].key)' => Root(thread[p].key) # r
    BY <1>1, <1>2, <1>3, <1>4, <2>1 DEF Present
  <2>3. Root(thread[p].key) # r => (Knows(p) => Knows(p)')
    BY <1>1, <1>2, <2>1 DEF Knows, Shows
  <2> QED
    <3>1. /\ scanned[thread[p].key] <= thread[p].generation
          /\ thread[p].generation = Present(thread[p].key) => Knows(p)
      BY DEF Honest, WalksAreHonest
    <3>2. Root(thread[p].key) # r => Present(thread[p].key)' = Present(thread[p].key)
      BY <1>1, <1>2, <2>1 DEF Present
    <3> QED
      BY <2>2, <2>3, <3>1, <3>2
<1> QED
  BY <1>5, <1>6, <1>7, <1>8 DEF Honest

(* A walk that begins has read the present generation, and will find what  *)
(* the observer was told of; a rival is noted.                             *)
LEMMA BeginKeepsHonest ==
    ASSUME TypeInv, Honest, NEW p \in Threads, NEW k \in Keys, Begin(p, k),
           UNCHANGED <<told, generation, scanned, cache>>,
           thread[p].pc \in {"asked", "spawned"}
    PROVE  Honest'
<1>0. /\ Root(k) \in Roots /\ thread \in [Threads -> Thread] /\ lapped \in [Keys -> BOOLEAN]
      /\ scanned[k] <= Present(k) /\ told[Root(k)] \subseteq 1..world[Root(k)]
      /\ \A q \in Threads : AtWork(q) => thread[q].key \in Keys
      /\ Present(k) \in Int
  BY KeyParts DEF TypeInv, TypeOK, ThreadsHaveKeys, EventsAreChanges, AtWork, Honest, Bounded, Present
<1>1. /\ thread'[p].pc = "scanning" /\ thread'[p].key = k
      /\ thread'[p].generation = Present(k) /\ thread'[p].from = world[Root(k)]
      /\ \A q \in Threads : q # p => thread'[q] = thread[q]
  BY <1>0 DEF Begin, Idle, Present
<1>2. /\ lapped'[k] = (lapped[k] \/ \E q \in Threads : Scanning(q, k))
      /\ \A l \in Keys : l # k => lapped'[l] = lapped[l]
  BY <1>0 DEF Begin
<1>3. \A l \in Keys : Present(l)' = Present(l) /\ (Shows(l)' <=> Shows(l))
                     /\ (~lapped'[l] => ~lapped[l])
  BY <1>2 DEF Present, Shows
<1>4. Bounded'
  <2>1. ASSUME NEW q \in Threads, AtWork(q)' PROVE thread'[q].generation <= Present(thread[q].key)'
    <3>1. CASE q = p
      BY <1>0, <1>1, <1>3, <3>1
    <3>2. CASE q # p
      BY <1>0, <1>1, <1>3, <2>1, <3>2 DEF Honest, Bounded, AtWork, Key
    <3> QED
      BY <3>1, <3>2
  <2> QED
    BY <1>3, <2>1 DEF Honest, Bounded, Key
<1>5. OneWalker'
  <2> SUFFICES ASSUME NEW l \in Keys, ~lapped'[l], NEW q \in Threads, NEW t \in Threads,
                      Scanning(q, l)', Scanning(t, l)'
               PROVE  q = t
    BY DEF OneWalker
  <2>1. CASE l = k
    BY <1>1, <1>2, <2>1 DEF Scanning
  <2>2. CASE l # k
    BY <1>1, <1>2, <2>2 DEF Scanning, Honest, OneWalker
  <2> QED
    BY <2>1, <2>2
<1>6. CacheIsHonest'
  BY <1>3 DEF Honest, CacheIsHonest
<1>7. WalksAreHonest'
  <2> SUFFICES ASSUME NEW q \in Threads, thread'[q].pc \in {"scanning", "storing", "marking"},
                      ~lapped'[thread'[q].key]
               PROVE  /\ scanned'[thread'[q].key] <= thread'[q].generation
                      /\ thread'[q].generation = Present(thread[q].key)' => Knows(q)'
    BY DEF WalksAreHonest
  <2>1. CASE q = p
    BY <1>0, <1>1, <2>1 DEF Knows
  <2>2. CASE q # p
    <3>1. thread'[q] = thread[q] /\ thread[q].key \in Keys
      BY <1>0, <1>1, <2>2 DEF AtWork
    <3>2. Knows(q) => Knows(q)'
      BY <1>3, <3>1 DEF Knows
    <3> QED
      BY <1>3, <3>1, <3>2 DEF Honest, WalksAreHonest
  <2> QED
    BY <2>1, <2>2
<1> QED
  BY <1>4, <1>5, <1>6, <1>7 DEF Honest

(* The steps of a walk under way: what its thread p does to the records of *)
(* its listing k is all that changes, and no other thread walks k.         *)
LEMMA WalkKeepsHonest ==
    ASSUME TypeInv, TypeInv', Honest, NEW p \in Threads,
           ScanEnds(p) \/ StoresListing(p) \/ MarksGeneration(p)
    PROVE  Honest'
<1> DEFINE k == thread[p].key
<1>0. /\ thread \in [Threads -> Thread] /\ k \in Keys /\ Root(k) \in Roots
      /\ cache \in [Keys -> Listing \cup {None}] /\ scanned \in [Keys -> 0..MaxChanges]
      /\ generation \in [Roots -> 0..MaxChanges]
      /\ thread[p].pc \in {"scanning", "storing", "marking"}
      /\ \A q \in Threads : AtWork(q) => thread[q].key \in Keys
  BY KeyParts DEF TypeInv, TypeOK, ThreadsHaveKeys, AtWork, ScanEnds, StoresListing, MarksGeneration
<1>1. UNCHANGED <<told, generation, lapped>>
  BY DEF ScanEnds, StoresListing, MarksGeneration
<1>2. \A q \in Threads : q # p => thread'[q] = thread[q]
  BY <1>0 DEF ScanEnds, StoresListing, MarksGeneration
<1>3. /\ thread'[p].key = k
      /\ thread'[p].pc \in {"storing", "marking", "saving"}
      /\ thread'[p].generation = thread[p].generation \/ thread'[p].generation = 0
      /\ thread'[p].pc # "saving" => /\ thread'[p].generation = thread[p].generation
                                     /\ scanned' = scanned
  <2>1. CASE ScanEnds(p)
    <3>1. PICK found : thread' = [thread EXCEPT ![p].pc = "storing", ![p].found = found, ![p].from = 0]
      BY <2>1 DEF ScanEnds
    <3>2. thread'[p] = [thread[p] EXCEPT !.pc = "storing", !.found = found, !.from = 0]
      BY <1>0, <3>1
    <3>3. /\ thread'[p].key = k /\ thread'[p].pc = "storing"
          /\ thread'[p].generation = thread[p].generation
      BY <1>0, <3>2 DEF Thread
    <3> QED
      BY <2>1, <3>3 DEF ScanEnds
  <2>2. CASE StoresListing(p)
    BY <1>0, <2>2 DEF StoresListing, Thread
  <2>3. CASE MarksGeneration(p)
    BY <1>0, <2>3 DEF MarksGeneration, Thread
  <2> QED
    BY <2>1, <2>2, <2>3
<1>4. \A l \in Keys : l # k => cache'[l] = cache[l] /\ scanned'[l] = scanned[l]
  BY <1>0 DEF ScanEnds, StoresListing, MarksGeneration
<1>5. \A l \in Keys : Present(l)' = Present(l) /\ Present(l) \in 0..MaxChanges
  BY <1>0, <1>1, KeyParts DEF Present
<1>6. scanned'[k] \in {scanned[k], thread[p].generation}
  BY <1>0 DEF ScanEnds, StoresListing, MarksGeneration
<1>7. thread[p].generation <= Present(k) /\ scanned[k] <= Present(k)
  BY <1>0 DEF Honest, Bounded, AtWork, Key
<1>8. Bounded'
  <2>1. ASSUME NEW q \in Threads, AtWork(q)' PROVE thread'[q].generation <= Present(thread[q].key)'
    <3>1. CASE q = p
      <4>1. Present(thread[p].key)' = Present(k)
        BY <1>1, <1>3 DEF Present
      <4> QED
        BY <1>3, <1>5, <1>7, <3>1, <4>1, <1>0
    <3>2. CASE q # p
      <4>1. thread'[q] = thread[q]
        BY <1>2, <3>2
      <4>2. Present(thread[q].key)' = Present(thread[q].key)
        BY <1>1, <4>1 DEF Present
      <4> QED
        BY <2>1, <4>1, <4>2 DEF Honest, Bounded, AtWork, Key
    <3> QED
      BY <3>1, <3>2
  <2>2. \A l \in Keys : scanned'[l] <= Present(l)'
    BY <1>4, <1>5, <1>6, <1>7 DEF Honest, Bounded
  <2> QED
    BY <2>1, <2>2 DEF Bounded, Key
<1>9. OneWalker'
  <2>1. Scanning(p, k)
    BY <1>0 DEF Scanning
  <2>2. \A q \in Threads, l \in Keys : Scanning(q, l)' => Scanning(q, l)
    <3> SUFFICES ASSUME NEW q \in Threads, NEW l \in Keys, Scanning(q, l)' PROVE Scanning(q, l)
      OBVIOUS
    <3>1. CASE q = p
      BY <1>3, <2>1, <3>1 DEF Scanning
    <3>2. CASE q # p
      BY <1>2, <3>2 DEF Scanning
    <3> QED
      BY <3>1, <3>2
  <2> QED
    BY <1>1, <2>2 DEF Honest, OneWalker
<1>10. ASSUME ~lapped[k], NEW q \in Threads, q # p,
              thread[q].pc \in {"scanning", "storing", "marking", "saving"}
       PROVE  thread[q].key # k
  <2>1. Scanning(p, k)
    BY <1>0 DEF Scanning
  <2> QED
    BY <1>0, <1>10, <2>1 DEF Honest, OneWalker, Scanning
<1>11. ~lapped[k] => /\ scanned[k] <= thread[p].generation
                     /\ thread[p].generation = Present(k) => Knows(p)
  BY <1>0 DEF Honest, WalksAreHonest
<1>12. ~lapped[k] /\ thread[p].generation = Present(k) /\ thread'[p].pc # "saving" => Knows(p)'
  <2> SUFFICES ASSUME ~lapped[k], thread[p].generation = Present(k), thread'[p].pc # "saving"
               PROVE  Knows(p)'
    OBVIOUS
  <2>1. Knows(p)
    BY <1>11
  <2>2. CASE ScanEnds(p)
    <3>1. PICK found : /\ 1..thread[p].from \subseteq found
                       /\ thread' = [thread EXCEPT ![p].pc = "storing", ![p].found = found, ![p].from = 0]
      BY <2>2 DEF ScanEnds
    <3>2. thread'[p] = [thread[p] EXCEPT !.pc = "storing", !.found = found, !.from = 0]
      BY <1>0, <3>1
    <3>3. thread'[p].pc = "storing" /\ thread'[p].found = found
      BY <1>0, <3>2 DEF Thread
    <3>4. told[Root(k)] \subseteq found
      BY <2>1, <2>2, <3>1 DEF Knows, ScanEnds
    <3> QED
      BY <1>1, <1>3, <3>3, <3>4 DEF Knows
  <2>3. CASE StoresListing(p)
    <3>1. cache'[k].shows = thread[p].found /\ thread'[p].pc = "marking"
      BY <1>0, <2>3, FoundType DEF StoresListing, Thread
    <3>2. told[Root(k)] \subseteq thread[p].found
      BY <2>1, <2>3 DEF Knows, StoresListing
    <3> QED
      BY <1>1, <1>3, <3>1, <3>2 DEF Knows, Shows
  <2>4. CASE MarksGeneration(p)
    BY <1>0, <2>4 DEF MarksGeneration, Thread
  <2> QED
    BY <2>2, <2>3, <2>4
<1>13. CacheIsHonest'
  <2> SUFFICES ASSUME NEW l \in Keys, ~lapped[l], scanned'[l] = Present(l) PROVE Shows(l)'
    BY <1>1, <1>5 DEF CacheIsHonest
  <2>1. CASE l # k
    BY <1>1, <1>4, <2>1 DEF Honest, CacheIsHonest, Shows
  <2>2. CASE l = k /\ ScanEnds(p)
    BY <1>1, <2>2 DEF ScanEnds, Honest, CacheIsHonest, Shows
  <2>3. CASE l = k /\ StoresListing(p)
    <3>1. scanned[k] = Present(k)
      BY <2>2, <2>3 DEF StoresListing
    <3>2. scanned[k] <= thread[p].generation
      BY <1>11, <2>3
    <3>3. thread[p].generation = Present(k)
      <4>1. thread[p].generation \in 0..MaxChanges /\ scanned[k] \in 0..MaxChanges
        BY <1>0 DEF Thread
      <4> QED
        BY <1>5, <1>7, <3>1, <3>2, <4>1, <1>0
    <3>4. cache'[k].shows = thread[p].found
      BY <1>0, <2>3, FoundType DEF StoresListing
    <3>5. told[Root(k)] \subseteq thread[p].found
      BY <1>11, <2>3, <3>3 DEF Knows, StoresListing
    <3> QED
      BY <1>1, <2>3, <3>4, <3>5 DEF Shows
  <2>4. CASE l = k /\ MarksGeneration(p)
    <3>1. thread[p].generation = Present(k) /\ thread[p].pc = "marking" /\ cache' = cache
      BY <1>0, <2>4 DEF MarksGeneration
    <3>2. Shows(k)
      BY <1>11, <2>4, <3>1 DEF Knows
    <3> QED
      BY <1>1, <2>4, <3>1, <3>2 DEF Shows
  <2> QED
    BY <2>1, <2>2, <2>3, <2>4
<1>14. WalksAreHonest'
  <2> SUFFICES ASSUME NEW q \in Threads, thread'[q].pc \in {"scanning", "storing", "marking"},
                      ~lapped[thread'[q].key]
               PROVE  /\ scanned'[thread'[q].key] <= thread'[q].generation
                      /\ thread'[q].generation = generation[Root(thread'[q].key)] => Knows(q)'
    BY <1>1 DEF WalksAreHonest, Present
  <2>1. CASE q = p
    BY <1>3, <1>11, <1>12, <2>1 DEF Present
  <2>2. CASE q # p
    <3>1. thread'[q] = thread[q] /\ thread[q].key \in Keys
      BY <1>0, <1>2, <2>2 DEF AtWork
    <3>2. thread[q].key # k
      BY <1>10, <2>2, <3>1
    <3>3. Knows(q) => Knows(q)'
      BY <1>1, <1>4, <3>1, <3>2 DEF Knows, Shows
    <3> QED
      BY <1>4, <3>1, <3>2, <3>3 DEF Honest, WalksAreHonest, Present
  <2> QED
    BY <2>1, <2>2
<1> QED
  BY <1>8, <1>9, <1>13, <1>14 DEF Honest

(* The others store what a walk has read since it knew. *)
LEMMA StepHonest == TypeInv /\ Honest /\ [Next]_vars => Honest'
<1> SUFFICES ASSUME TypeInv, Honest, [Next]_vars PROVE Honest'
  OBVIOUS
<1>0. TypeInv' /\ Requests \subseteq Threads /\ Refreshers \subseteq Threads
  BY StepType DEF Threads
<1>1. ASSUME Quiet PROVE Honest'
  BY <1>0, <1>1, QuietKeepsHonest
<1>2. ASSUME NEW p \in Threads, ScanEnds(p) \/ StoresListing(p) \/ MarksGeneration(p) PROVE Honest'
  BY <1>0, <1>2, WalkKeepsHonest
<1>3. ASSUME NEW p \in Threads, ScansNow(p) \/ RefreshBegins(p) PROVE Honest'
  <2>1. /\ thread[p].pc \in {"asked", "spawned"} /\ Begin(p, thread[p].key)
        /\ UNCHANGED <<told, generation, scanned, cache>>
    BY <1>3 DEF ScansNow, RefreshBegins
  <2>2. thread[p].key \in Keys
    BY <2>1 DEF TypeInv, ThreadsHaveKeys
  <2> QED
    BY <2>1, <2>2, BeginKeepsHonest
<1>4. ASSUME Restart PROVE Honest'
  <2>1. /\ \A r \in Roots : told'[r] = {} /\ generation'[r] = 0
        /\ \A k \in Keys : scanned'[k] = 0
        /\ \A p \in Threads : thread'[p].pc = "idle"
    BY <1>4, ThreadStates DEF Restart
  <2> QED
    BY <2>1, KeyParts DEF Honest, Bounded, OneWalker, CacheIsHonest, WalksAreHonest, Present,
                          Shows, AtWork, Scanning
<1>5. ASSUME NEW r \in Roots, on_any_event(r) PROVE Honest'
  BY <1>5, EventKeepsHonest
<1>6. ASSUME NEW r \in Roots, ArchiveChanges(r) PROVE Honest'
  BY <1>1, <1>6, QuietSteps
<1>7. ASSUME NEW k \in Keys, Expires(k) PROVE Honest'
  BY <1>1, <1>7, QuietSteps
<1>8. ASSUME NEW p \in Requests, AnswersFromCache(p) \/ AnswersStale(p) PROVE Honest'
  BY <1>1, <1>8, QuietSteps
<1>9. ASSUME NEW p \in Requests, NEW k \in Keys, NEW f \in BOOLEAN, Asks(p, k, f) PROVE Honest'
  BY <1>1, <1>9, QuietSteps
<1>10. ASSUME NEW p \in Threads, ScanFails(p) \/ SavesListing(p) PROVE Honest'
  BY <1>1, <1>10, QuietSteps
<1>11. ASSUME NEW b \in Refreshers, RefreshLeaves(b) PROVE Honest'
  BY <1>1, <1>11, QuietSteps
<1>12. CASE UNCHANGED vars
  BY <1>1, <1>12, QuietSteps
<1>13. ASSUME NEW p \in Requests, ScansNow(p) PROVE Honest'
  BY <1>0, <1>3, <1>13
<1>14. ASSUME NEW b \in Refreshers, RefreshBegins(b) PROVE Honest'
  BY <1>0, <1>3, <1>14
<1> QED
  BY <1>2, <1>4, <1>5, <1>6, <1>7, <1>8, <1>9, <1>10, <1>11, <1>12, <1>13, <1>14
     DEF Next, RequestStep, ScanStep, RefreshStep

(* A request leaves the cache's door only by a decision on its listing.    *)
LEMMA AnswerSteps ==
    ASSUME TypeInv, [Next]_vars, NEW p \in Requests, thread[p].pc = "asked", thread'[p] = Idle,
           restarts' = restarts
    PROVE  AnswersFromCache(p) \/ AnswersStale(p)
<1>0. thread \in [Threads -> Thread] /\ p \in Threads /\ p \notin Refreshers /\ thread'[p] # thread[p]
  BY IndexerAssumption, ThreadStates DEF TypeInv, TypeOK, Threads
<1>1. ASSUME UNCHANGED thread PROVE FALSE
  BY <1>0, <1>1
<1>2. ASSUME NEW q \in Threads, ScanStep(q) \/ ScanFails(q) PROVE FALSE
  <2>1. AtWork(q) /\ q # p
    BY <1>2 DEF ScanStep, ScanEnds, StoresListing, MarksGeneration, SavesListing, ScanFails, AtWork
  <2>2. thread'[p] = thread[p]
    BY <1>2, <2>1, <1>0, WalkMoves
  <2> QED
    BY <1>0, <2>2
<1>3. ASSUME NEW b \in Refreshers, RefreshStep(b) PROVE FALSE
  BY <1>0, <1>3 DEF RefreshStep, RefreshBegins, RefreshLeaves, Begin
<1>4. ASSUME NEW q \in Requests, q # p, RequestStep(q) PROVE FALSE
  <2>1. q \in Threads
    BY <1>4 DEF Threads
  <2>2. thread'[p] = thread[p]
    <3>1. CASE ScansNow(q) \/ AnswersFromCache(q)
      BY <1>0, <1>4, <2>1, <3>1 DEF ScansNow, AnswersFromCache, Begin
    <3>2. CASE AnswersStale(q)
      BY <1>0, <1>4, <2>1, <3>2 DEF AnswersStale, _trigger_background_refresh
    <3> QED
      BY <1>4, <3>1, <3>2 DEF RequestStep
  <2> QED
    BY <1>0, <2>2
<1>5. ASSUME NEW q \in Requests, NEW k \in Keys, NEW f \in BOOLEAN, Asks(q, k, f) PROVE FALSE
  <2>1. q # p /\ q \in Threads
    BY <1>5, ThreadStates DEF Asks, Threads
  <2> QED
    BY <1>0, <1>5, <2>1 DEF Asks
<1>6. ASSUME ScansNow(p) PROVE FALSE
  BY <1>0, <1>6 DEF ScansNow, Begin, Idle
<1>7. ASSUME Restart PROVE FALSE
  BY <1>7, IndexerAssumption DEF Restart, TypeInv, TypeOK
<1>8. ASSUME NEW r \in Roots, ArchiveChanges(r) \/ on_any_event(r) PROVE FALSE
  BY <1>1, <1>8 DEF ArchiveChanges, on_any_event
<1>9. ASSUME NEW k \in Keys, Expires(k) PROVE FALSE
  BY <1>1, <1>9 DEF Expires
<1>10. CASE UNCHANGED vars
  BY <1>1, <1>10 DEF vars
<1> QED
  BY <1>2, <1>3, <1>4, <1>5, <1>6, <1>7, <1>8, <1>9, <1>10 DEF Next, RequestStep

(* A request answered from the cache is shown every change whose event was *)
(* handled by then, unless walks of the listing overlapped.                *)
THEOREM AnswersTold == Spec => AnswersShowWhatWasTold
<1> DEFINE Told == \A p \in Requests : ShowsWhatWasTold(p)
<1>1. TypeInv /\ Honest /\ [Next]_vars => Told
  <2> SUFFICES ASSUME TypeInv, Honest, [Next]_vars, NEW p \in Requests,
                      thread[p].pc = "asked", thread'[p] = Idle, restarts' = restarts
               PROVE  told[Root(thread[p].key)] \subseteq cache[thread[p].key].shows
                         \/ lapped[thread[p].key]
    BY DEF ShowsWhatWasTold
  <2> DEFINE k == thread[p].key
  <2>1. ~_cache_is_invalidated(k) /\ cache[k] # None
    BY AnswerSteps DEF AnswersFromCache, AnswersStale
  <2>2. k \in Keys /\ Root(k) \in Roots
    BY KeyParts DEF TypeInv, ThreadsHaveKeys, Threads
  <2>3. scanned[k] = Present(k)
    BY <2>1, <2>2, IndexerAssumption
       DEF _cache_is_invalidated, Present, Honest, Bounded, TypeInv, TypeOK
  <2> QED
    BY <2>1, <2>2, <2>3 DEF Honest, CacheIsHonest, Shows
<1>2. Init => TypeInv /\ Honest
  <2>1. ASSUME Init PROVE Honest
    <3>1. /\ \A r \in Roots : told[r] = {} /\ generation[r] = 0
          /\ \A k \in Keys : scanned[k] = 0
          /\ \A p \in Threads : thread[p].pc = "idle"
      BY <2>1, ThreadStates DEF Init
    <3> QED
      BY <3>1, KeyParts DEF Honest, Bounded, OneWalker, CacheIsHonest, WalksAreHonest, Present,
                            Shows, AtWork, Scanning
  <2> QED
    BY <2>1, InitType
<1>3. (TypeInv /\ Honest) /\ [Next]_vars => (TypeInv /\ Honest)'
  BY StepType, StepHonest
<1>4. TypeInv /\ Honest /\ [Next]_vars => [Told]_vars
  BY <1>1
<1> QED
  BY <1>2, <1>3, <1>4, PTL DEF Spec, AnswersShowWhatWasTold
=============================================================================
