-------------------------- MODULE JobEventLogProofs --------------------------
(***************************************************************************)
(* What holds of JobEventLog for every number of lines, every tail, page   *)
(* size and pruning rhythm, and any number of lost connections and dead    *)
(* producers.                                                              *)
(***************************************************************************)
EXTENDS JobEventLog, FiniteSetTheorems, WellFoundedInduction, TLAPS

-----------------------------------------------------------------------------
(***************************************************************************)
(* The highest id of a set of events.                                      *)
(***************************************************************************)
Event == [id : Nat \ {0}, kind : {"log", "done", "job_error"}, line : Nat]

Top(S, n) ==
    /\ n \in Nat /\ S \subseteq Event
    /\ \A e \in S : e.id <= n
    /\ n = 0 \/ \E e \in S : e.id = n

(* The highest of numbers that have one. *)
LEMMA HighestIs ==
    ASSUME NEW S, NEW n \in S, S \subseteq Int, \A i \in S : i <= n
    PROVE  Max(S) = n
<1>1. \E x \in S : \A y \in S : x >= y
  OBVIOUS
<1>2. Max(S) \in S /\ \A y \in S : Max(S) >= y
  BY <1>1 DEF Max
<1>3. Max(S) \in Int /\ n \in Int /\ Max(S) <= n /\ Max(S) >= n
  BY <1>2
<1> QED
  BY <1>3

(* A set of natural numbers has a least one. *)
LEMMA LeastExists ==
    ASSUME NEW S, S \subseteq Nat, S # {}
    PROVE  Min(S) \in S /\ \A y \in S : Min(S) <= y
<1>1. \A x, y \in Nat : <<y, x>> \in OpToRel(<, Nat) <=> y < x
  BY DEF OpToRel
<1>2. \E R : IsWellFoundedOn(R, Nat) /\ \A x, y \in Nat : <<y, x>> \in R <=> y < x
  BY <1>1, NatLessThanWellFounded
<1>3. PICK R : IsWellFoundedOn(R, Nat) /\ \A x, y \in Nat : <<y, x>> \in R <=> y < x
  BY <1>2
<1>4. \E x \in S : \A y \in S : ~(<<y, x>> \in R)
  BY <1>3, WFMin
<1>5. \E x \in S : \A y \in S : x <= y
  <2>1. PICK x \in S : \A y \in S : ~(<<y, x>> \in R)
    BY <1>4
  <2>2. \A y \in S : ~(y < x)
    BY <1>3, <2>1
  <2>3. \A y \in S : x <= y
    BY <2>2
  <2> QED
    BY <2>3
<1> QED
  BY <1>5 DEF Min

(* A new event is above all others. *)
LEMMA StoredIs ==
    ASSUME NEW S, NEW n, Top(S, n), NEW kind \in {"log", "done", "job_error"}, NEW line \in Nat
    PROVE  /\ Stored(S, kind, line) = S \cup {[id |-> n + 1, kind |-> kind, line |-> line]}
           /\ Top(Stored(S, kind, line), n + 1)
<1> DEFINE ids == {0} \cup {e.id : e \in S}
           new == [id |-> n + 1, kind |-> kind, line |-> line]
<1>1. n \in ids /\ ids \subseteq Int /\ \A i \in ids : i <= n
  BY DEF Top, Event
<1>2. Max(ids) = n
  BY <1>1, HighestIs
<1>3. Stored(S, kind, line) = S \cup {new}
  <2> HIDE DEF ids
  <2>1. Stored(S, kind, line) = S \cup {[id |-> 1 + Max(ids), kind |-> kind, line |-> line]}
    BY DEF Stored, ids
  <2>2. 1 + Max(ids) = n + 1
    BY <1>2 DEF Top
  <2> QED
    BY <2>1, <2>2
<1>4. new \in Event /\ new.id = n + 1
  BY DEF Top, Event
<1> HIDE DEF new
<1>5. Top(S \cup {new}, n + 1)
  BY <1>4 DEF Top, Event
<1> QED
  BY <1>3, <1>5 DEF new

(* Pruning does not take the highest id away: some lines are kept, or the  *)
(* last event is no line.                                                  *)
KeepsTop(S) ==
    keep > 0 \/ \A e \in S : e.kind = "log" => \E f \in S : e.id < f.id

(* Pruning keeps the done event and the latest line, and adds nothing. *)
LEMMA PrunedIs ==
    ASSUME NEW S, NEW n, Top(S, n), IsFiniteSet(S), keep \in Nat, KeepsTop(S)
    PROVE  /\ _prune_job_log_events(S) \subseteq S /\ Top(_prune_job_log_events(S), n)
           /\ IsFiniteSet(_prune_job_log_events(S))
           /\ \A e \in S : e.kind # "log" => e \in _prune_job_log_events(S)
<1>1. /\ _prune_job_log_events(S) \in SUBSET S
      /\ \A e \in S : e.kind # "log" => e \in _prune_job_log_events(S)
  BY DEF _prune_job_log_events
<1>2. ASSUME NEW e \in S, e.id = n PROVE e \in _prune_job_log_events(S)
  <2>1. {f \in S : f.kind = "log" /\ f.id > e.id} = {}
    BY <1>2 DEF Top, Event
  <2>2. CASE keep > 0
    <3>1. Cardinality({f \in S : f.kind = "log" /\ f.id > e.id}) < keep
      BY <2>1, <2>2, FS_EmptySet
    <3> QED
      BY <3>1 DEF _prune_job_log_events
  <2>3. CASE ~(keep > 0)
    <3>1. e.kind # "log"
      BY <1>2, <2>3 DEF KeepsTop, Top, Event
    <3> QED
      BY <1>1, <3>1
  <2> QED
    BY <2>2, <2>3
<1>3. Top(_prune_job_log_events(S), n)
  BY <1>1, <1>2 DEF Top
<1> QED
  BY <1>1, <1>3, FS_Subset

(* A stored log as it should be: ids are unique, lines are in order. *)
Good(S, n) ==
    /\ Top(S, n) /\ IsFiniteSet(S)
    /\ \A e, f \in S : e.id = f.id => e = f
    /\ \A e, f \in S : e.kind = "log" /\ f.kind = "log" /\ e.line # 0 /\ f.line # 0 /\ e.id < f.id
                          => e.line < f.line

(* A job that is over has one done event, one that runs has none. *)
DoneWith(S, r) ==
    /\ r = "running" => \A e \in S : e.kind # "done"
    /\ r = "over" => \E d \in S : d.kind = "done" /\ \A e \in S : e.kind = "done" => e = d

(* Storing an event keeps a log good. *)
StoresWell(S, n, kind, line) ==
    /\ Stored(S, kind, line) = S \cup {[id |-> n + 1, kind |-> kind, line |-> line]}
    /\ Good(Stored(S, kind, line), n + 1)

LEMMA StoredGood ==
    ASSUME NEW S, NEW n, Good(S, n), NEW kind \in {"log", "done", "job_error"}, NEW line \in Nat,
           kind = "log" /\ line # 0 => \A e \in S : e.kind = "log" => e.line < line
    PROVE  StoresWell(S, n, kind, line)
<1> DEFINE new == [id |-> n + 1, kind |-> kind, line |-> line]
<1>1. Stored(S, kind, line) = S \cup {new} /\ Top(Stored(S, kind, line), n + 1)
  <2>1. Top(S, n)
    BY DEF Good
  <2>2. Stored(S, kind, line) = S \cup {new}
    BY <2>1, StoredIs
  <2>3. Top(Stored(S, kind, line), n + 1)
    BY <2>1, StoredIs
  <2> QED
    BY <2>2, <2>3
<1>2. n \in Nat /\ S \subseteq Event /\ \A e \in S : e.id <= n
  BY DEF Good, Top
<1>3. new.id = n + 1 /\ new.kind = kind /\ new.line = line
  OBVIOUS
<1> HIDE DEF new
<1>4. IsFiniteSet(S \cup {new})
  BY FS_AddElement DEF Good
<1>5. \A e \in S : e.id \in Nat /\ e.id < new.id /\ e.line \in Nat
  BY <1>2, <1>3 DEF Event
<1>6. \A e, f \in S \cup {new} : e.id = f.id => e = f
  BY <1>2, <1>3, <1>5 DEF Good
<1>7. ASSUME NEW e \in S \cup {new}, NEW f \in S \cup {new},
             e.kind = "log", f.kind = "log", e.line # 0, f.line # 0, e.id < f.id
      PROVE  e.line < f.line
  <2>1. CASE f = new
    <3>1. e \in S
      BY <1>2, <1>3, <1>7, <2>1
    <3> QED
      BY <1>3, <1>7, <2>1, <3>1
  <2>2. CASE f # new
    <3>1. e # new
      BY <1>2, <1>3, <1>5, <1>7, <2>2
    <3> QED
      BY <1>7, <2>2, <3>1 DEF Good
  <2> QED
    BY <2>1, <2>2
<1>8. Good(S \cup {new}, n + 1)
  BY <1>1, <1>4, <1>6, <1>7 DEF Good
<1> QED
  BY <1>1, <1>8 DEF new, StoresWell

(* So does pruning it. *)
LEMMA PrunedGood ==
    ASSUME NEW S, NEW n, Good(S, n), keep \in Nat, KeepsTop(S)
    PROVE  /\ Good(_prune_job_log_events(S), n)
           /\ _prune_job_log_events(S) \subseteq S
           /\ \A e \in S : e.kind # "log" => e \in _prune_job_log_events(S)
           /\ \A r : DoneWith(S, r) => DoneWith(_prune_job_log_events(S), r)
<1>1. /\ _prune_job_log_events(S) \subseteq S /\ Top(_prune_job_log_events(S), n)
      /\ IsFiniteSet(_prune_job_log_events(S))
      /\ \A e \in S : e.kind # "log" => e \in _prune_job_log_events(S)
  BY PrunedIs DEF Good
<1>2. Good(_prune_job_log_events(S), n)
  BY <1>1 DEF Good
<1>3. \A r : DoneWith(S, r) => DoneWith(_prune_job_log_events(S), r)
  BY <1>1 DEF DoneWith
<1> QED
  BY <1>1, <1>2, <1>3

-----------------------------------------------------------------------------
(***************************************************************************)
(* The stored log and its producer.                                        *)
(***************************************************************************)
ProducerOk ==
    /\ producer \in [pc : {"off", "following", "storing", "failing"}, next : Nat \ {0}, unpruned : Nat]
    /\ producer.next <= printed + 1
    /\ producer.pc = "storing" => producer.next <= printed /\ keep > 0
    /\ producer.pc # "off" => \A e \in LogEvents : e.line < producer.next
    /\ /\ row = "over"
       /\ producer.pc \in {"storing", "failing"} \/ (keep = 0 /\ producer.pc # "off")
       => \A d, e \in events : d.kind = "done" => e.id <= d.id

LogInv ==
    /\ keep \in Nat /\ printed \in 0..MaxLines /\ row \in {"running", "over"}
    /\ \E n : Good(events, n)
    /\ \A e \in events : e.line <= printed
    /\ DoneWith(events, row)
    /\ ProducerOk
    /\ LateEvents

(* What a step leaves of the stored log: nothing comes in below what was   *)
(* stored, a done event stays, and the highest id is not given up.         *)
LogGrows ==
    /\ \A f \in events' : f \in events \/ \A e \in events : e.id < f.id
    /\ \A d \in events : d.kind = "done" => d \in events'
    /\ \A e \in events : \E f \in events' : e.id <= f.id
    /\ row = "over" => row' = "over" /\ \A d \in events' : d.kind = "done" => d \in events

(* The stored log with one more event, and perhaps pruned. *)
OneMore(rows, kind, line) ==
    \E n : /\ Good(rows, n)
           /\ n \in Nat \ {0}
           /\ \A e \in events : e.id < n
           /\ \A f \in rows : f \in events \/ f = [id |-> n, kind |-> kind, line |-> line]
           /\ \A e \in events : e.kind # "log" => e \in rows
           /\ kind # "log" => [id |-> n, kind |-> kind, line |-> line] \in rows

(* A hub that keeps no lines stores none. *)
IsStored(kind) == kind = "log" => keep > 0

(* What append_job_event leaves, and the pruning after it. *)
LEMMA Appended ==
    ASSUME LogInv, NEW kind \in {"log", "done", "job_error"}, NEW line \in Nat,
           kind = "log" /\ line # 0 => \A e \in LogEvents : e.line < line,
           IsStored(kind), NEW rows, rows \in {Stored(events, kind, line), _prune_job_log_events(Stored(events, kind, line))}
    PROVE  OneMore(rows, kind, line)
<1>1. PICK n : Good(events, n)
  BY DEF LogInv
<1> DEFINE new == [id |-> n + 1, kind |-> kind, line |-> line]
           all == Stored(events, kind, line)
<1>2. all = events \cup {new} /\ Good(all, n + 1)
  <2>1. kind = "log" /\ line # 0 => \A e \in events : e.kind = "log" => e.line < line
    BY DEF LogEvents
  <2>2. /\ all = events \cup {[id |-> n + 1, kind |-> kind, line |-> line]}
        /\ Good(all, n + 1)
    <3> HIDE DEF new, all
    <3>1. StoresWell(events, n, kind, line)
      BY <1>1, <2>1, StoredGood
    <3> QED
      BY <3>1 DEF all, StoresWell
  <2> QED
    BY <2>2
<1>3. new.kind = kind
  OBVIOUS
<1>9. new.id = n + 1
  OBVIOUS
<1> HIDE DEF new, all
<1>10. keep \in Nat /\ KeepsTop(all)
  <2>1. \A e \in events : e.id < new.id
    BY <1>1, <1>9 DEF Good, Top, Event
  <2> QED
    BY <1>2, <1>3, <2>1 DEF KeepsTop, LogInv, IsStored
<1>4. /\ Good(_prune_job_log_events(all), n + 1) /\ _prune_job_log_events(all) \subseteq all
      /\ \A e \in all : e.kind # "log" => e \in _prune_job_log_events(all)
  BY <1>2, <1>10, PrunedGood
<1>5. n + 1 \in Nat \ {0} /\ \A e \in events : e.id < n + 1
  BY <1>1 DEF Good, Top, Event
<1>6. rows = all \/ rows = _prune_job_log_events(all)
  BY DEF all
<1>7. /\ Good(rows, n + 1) /\ rows \subseteq events \cup {new}
      /\ \A e \in events \cup {new} : e.kind # "log" => e \in rows
  BY <1>2, <1>4, <1>6
<1>8. /\ Good(rows, n + 1) /\ n + 1 \in Nat \ {0}
      /\ \A e \in events : e.id < n + 1
      /\ \A f \in rows : f \in events \/ f = [id |-> n + 1, kind |-> kind, line |-> line]
      /\ \A e \in events : e.kind # "log" => e \in rows
      /\ kind # "log" => [id |-> n + 1, kind |-> kind, line |-> line] \in rows
  BY <1>3, <1>5, <1>7 DEF new
<1> QED
  BY <1>8 DEF OneMore

(* Nothing is stored at first. *)
LEMMA InitLog == Init => LogInv
<1> SUFFICES ASSUME Init PROVE LogInv
  OBVIOUS
<1>1. events = {} /\ printed = 0 /\ row = "running"
      /\ producer = [pc |-> "off", next |-> 1, unpruned |-> 0]
  BY DEF Init
<1>2. Good(events, 0)
  BY <1>1, FS_EmptySet DEF Good, Top
<1>3. DoneWith(events, row) /\ ProducerOk
  BY <1>1 DEF DoneWith, ProducerOk
<1>4. LateEvents
  BY <1>1 DEF LateEvents, DoneIds
<1>5. printed \in 0..MaxLines /\ keep \in Nat
  BY <1>1, EventLogAssumption DEF Init
<1> QED
  BY <1>1, <1>2, <1>3, <1>4, <1>5 DEF LogInv

(* The types of the numbers. *)
LEMMA LogTypes ==
    ASSUME LogInv
    PROVE  /\ printed \in Nat /\ printed <= MaxLines
           /\ events \subseteq Event /\ IsFiniteSet(events)
           /\ \A e \in events : e.id \in Nat \ {0} /\ e.line \in Nat /\ e.line <= printed
<1>1. printed \in Nat /\ printed <= MaxLines
  BY EventLogAssumption DEF LogInv
<1>2. events \subseteq Event /\ IsFiniteSet(events)
  BY DEF LogInv, Good, Top
<1>3. \A e \in events : e.id \in Nat \ {0} /\ e.line \in Nat
  BY <1>2 DEF Event
<1> QED
  BY <1>1, <1>2, <1>3 DEF LogInv

(* Whoever closes the job, the done event comes last. *)
LEMMA Closing ==
    ASSUME LogInv, NEW S, row' = "over", printed' = printed, keep' = keep,
           producer' = producer \/ producer' = ProducerOff,
           S = Stored(events, "done", 0) \/ S = _prune_job_log_events(Stored(events, "done", 0)),
           \/ row = "running" /\ events' = S
           \/ /\ row = "over"
              /\ events' = events \/ (events' = _prune_job_log_events(events) /\ KeepsTop(events))
    PROVE  LogInv' /\ LogGrows
<1>p. /\ ProducerOk
      /\ keep' = keep /\ keep \in Nat
      /\ \/ producer' = producer
         \/ /\ producer' \in [pc : {"off", "following", "storing", "failing"}, next : Nat \ {0}, unpruned : Nat]
            /\ producer'.pc = "off" /\ producer'.next <= printed + 1
  BY LogTypes DEF LogInv, ProducerOff
<1>1. CASE row = "running"
  <2>1. PICK n : /\ Good(events', n) /\ n \in Nat \ {0}
                 /\ \A e \in events : e.id < n
                 /\ \A f \in events' : f \in events \/ f = [id |-> n, kind |-> "done", line |-> 0]
                 /\ \A e \in events : e.kind # "log" => e \in events'
                 /\ [id |-> n, kind |-> "done", line |-> 0] \in events'
    <3>1. /\ events' \in {Stored(events, "done", 0), _prune_job_log_events(Stored(events, "done", 0))}
          /\ "done" \in {"log", "done", "job_error"} /\ 0 \in Nat
          /\ "done" = "log" /\ 0 # 0 => \A e \in LogEvents : e.line < 0
          /\ "done" # "log" /\ IsStored("done")
      BY <1>1 DEF IsStored
    <3>2. OneMore(events', "done", 0)
      BY <3>1, Appended
    <3> QED
      BY <3>1, <3>2 DEF OneMore
  <2> DEFINE d == [id |-> n, kind |-> "done", line |-> 0]
  <2>2. d.id = n /\ d.kind = "done" /\ d.line = 0
    OBVIOUS
  <2> HIDE DEF d
  <2>3. /\ \A e \in events : e.kind # "done"
        /\ \A e \in events : e.line <= printed
    BY <1>1 DEF LogInv, DoneWith
  <2>4. d \in events' /\ \A f \in events' : f \in events \/ f = d
    BY <2>1 DEF d
  <2>5. DoneWith(events', row')
    BY <2>2, <2>3, <2>4 DEF DoneWith
  <2>6. \A e \in events' : e.line <= printed'
    BY <2>2, <2>3, <2>4, LogTypes
  <2>7. LateEvents'
    <3>1. ASSUME NEW i \in DoneIds' PROVE {e \in events' : e.id > i} = {}
      <4>1. i = n
        BY <2>2, <2>3, <2>4 DEF DoneIds
      <4>2. \A e \in events' : ~(e.id > n)
        BY <2>1, <2>2, <2>4, LogTypes
      <4> QED
        BY <4>1, <4>2
    <3> QED
      BY <3>1, FS_EmptySet DEF LateEvents
  <2>8. LogGrows
    <3>1. \A f \in events' : f \in events \/ \A e \in events : e.id < f.id
      BY <2>1, <2>2, <2>4
    <3>2. \A e \in events : \E f \in events' : e.id <= f.id
      BY <2>1, <2>2, <2>4, LogTypes
    <3> QED
      BY <1>1, <2>3, <3>1, <3>2 DEF LogGrows
  <2>11. ProducerOk'
    <3>1. \A d1, e \in events' : d1.kind = "done" => e.id <= d1.id
      BY <2>1, <2>2, <2>3, <2>4, LogTypes
    <3>2. \A e \in LogEvents' : e \in LogEvents
      BY <2>2, <2>4 DEF LogEvents
    <3> QED
      BY <1>p, <3>1, <3>2 DEF ProducerOk
  <2>9. keep' \in Nat /\ row' \in {"running", "over"} /\ printed' \in 0..MaxLines
    BY DEF LogInv
  <2>10. \E m : Good(events', m)
    BY <2>1
  <2> QED
    BY <2>5, <2>6, <2>7, <2>8, <2>9, <2>10, <2>11 DEF LogInv
<1>2. CASE row = "over"
  <2>1. PICK n : Good(events, n)
    BY DEF LogInv
  <2>2. /\ Good(events', n) /\ events' \subseteq events
        /\ \A e \in events : e.kind # "log" => e \in events'
        /\ DoneWith(events', "over")
    <3>1. CASE events' = events
      BY <1>2, <2>1, <3>1 DEF LogInv
    <3>2. CASE events' = _prune_job_log_events(events) /\ KeepsTop(events)
      BY <1>2, <1>p, <2>1, <3>2, PrunedGood DEF LogInv
    <3> QED
      BY <1>2, <3>1, <3>2
  <2>3. LogGrows
    <3>1. \A e \in events : \E f \in events' : e.id <= f.id
      <4>1. n \in Nat /\ \A e \in events : e.id \in Nat /\ e.id <= n /\ e.id > 0
        BY <2>1 DEF Good, Top, Event
      <4>2. n = 0 \/ \E f \in events' : f.id = n
        BY <2>2 DEF Good, Top
      <4> QED
        BY <4>1, <4>2
    <3> QED
      BY <1>2, <2>2, <3>1 DEF LogGrows
  <2>4. LateEvents'
    <3> SUFFICES ASSUME NEW i \in DoneIds'
                 PROVE  LET late == {e \in events' : e.id > i}
                        IN /\ Cardinality(late) <= 2
                           /\ \A e, f \in late : e.kind = "log" /\ f.kind = "log" => e = f
      BY DEF LateEvents
    <3>1. i \in DoneIds
      BY <2>2 DEF DoneIds
    <3>2. /\ Cardinality({e \in events : e.id > i}) <= 2
          /\ \A e, f \in {e \in events : e.id > i} : e.kind = "log" /\ f.kind = "log" => e = f
      BY <3>1 DEF LogInv, LateEvents
    <3>3. {e \in events' : e.id > i} \in SUBSET {e \in events : e.id > i}
          /\ {e \in events : e.id > i} \in SUBSET events
      BY <2>2
    <3>4. /\ IsFiniteSet({e \in events : e.id > i})
          /\ Cardinality({e \in events' : e.id > i}) <= Cardinality({e \in events : e.id > i})
          /\ Cardinality({e \in events' : e.id > i}) \in Nat
          /\ Cardinality({e \in events : e.id > i}) \in Nat
      BY <3>3, LogTypes, FS_Subset, FS_CardinalityType
    <3> QED
      BY <3>2, <3>3, <3>4
  <2>5. \A e \in events' : e.line <= printed'
    BY <2>2 DEF LogInv
  <2>7. ProducerOk'
    BY <1>p, <1>2, <2>2 DEF ProducerOk, LogEvents
  <2>6. keep' \in Nat /\ row' \in {"running", "over"} /\ printed' \in 0..MaxLines
    BY DEF LogInv
  <2> QED
    BY <2>2, <2>3, <2>4, <2>5, <2>6, <2>7 DEF LogInv
<1> QED
  BY <1>1, <1>2 DEF LogInv

(* The producer's turn: one line, or an error and its line, at the end.    *)
LEMMA Storing ==
    ASSUME LogInv, ProducerOk', row' = row, printed' = printed, keep' = keep,
           row = "over" => \A d, e \in events : d.kind = "done" => e.id <= d.id,
           NEW a \in Event, NEW b \in Event, NEW n, Good(events', n), n \in Nat \ {0},
           \A e \in events : e.id < n /\ e.id < a.id /\ e.id < b.id,
           \A f \in events' : f \in events \/ f = a \/ f = b,
           \A e \in events : e.kind # "log" => e \in events',
           a.kind # "done" /\ b.kind # "done", a.kind = "log" /\ b.kind = "log" => a = b,
           a.line <= printed /\ b.line <= printed
    PROVE  LogInv' /\ LogGrows
<1>1. DoneWith(events', row')
  BY DEF LogInv, DoneWith
<1>2. \A e \in events' : e.line <= printed'
  BY DEF LogInv
<1>3. LateEvents'
  <2> SUFFICES ASSUME NEW i \in DoneIds'
               PROVE  LET late == {e \in events' : e.id > i}
                      IN /\ Cardinality(late) <= 2
                         /\ \A e, f \in late : e.kind = "log" /\ f.kind = "log" => e = f
    BY DEF LateEvents
  <2>1. PICK d \in events' : d.kind = "done" /\ d.id = i
    BY DEF DoneIds
  <2>2. d \in events
    BY <2>1
  <2>3. row = "over"
    BY <2>1, <2>2 DEF LogInv, DoneWith
  <2>4. \A e \in events : ~(e.id > i)
    BY <2>1, <2>2, <2>3, LogTypes
  <2>5. {e \in events' : e.id > i} \in SUBSET {a, b}
    BY <2>4
  <2>6. IsFiniteSet({a, b}) /\ Cardinality({a, b}) <= 2
    <3>1. IsFiniteSet({a}) /\ Cardinality({a}) = 1
      BY FS_Singleton
    <3>2. {a} \cup {b} = {a, b}
      OBVIOUS
    <3>3. /\ IsFiniteSet({a} \cup {b})
          /\ Cardinality({a} \cup {b}) \in {Cardinality({a}), Cardinality({a}) + 1}
      BY <3>1, FS_AddElement
    <3>4. IsFiniteSet({a, b}) /\ Cardinality({a, b}) \in {1, 1 + 1}
      BY <3>1, <3>2, <3>3, Zenon
    <3> QED
      BY <3>4
  <2>7. /\ Cardinality({e \in events' : e.id > i}) <= Cardinality({a, b})
        /\ Cardinality({e \in events' : e.id > i}) \in Nat /\ Cardinality({a, b}) \in Nat
    BY <2>5, <2>6, FS_Subset, FS_CardinalityType
  <2>8. Cardinality({e \in events' : e.id > i}) <= 2
    BY <2>6, <2>7
  <2>9. \A e, f \in {e \in events' : e.id > i} : e.kind = "log" /\ f.kind = "log" => e = f
    BY <2>5
  <2> QED
    BY <2>8, <2>9
<1>4. LogGrows
  <2>1. \A f \in events' : f \in events \/ \A e \in events : e.id < f.id
    OBVIOUS
  <2>2. \A d \in events' : d.kind = "done" => d \in events
    OBVIOUS
  <2>3. \A e \in events : \E f \in events' : e.id <= f.id
    <3>1. PICK f \in events' : f.id = n
      BY DEF Good, Top
    <3> QED
      BY <3>1, LogTypes
  <2> QED
    BY <2>1, <2>2, <2>3 DEF LogGrows
<1>5. keep' \in Nat /\ row' \in {"running", "over"} /\ printed' \in 0..MaxLines
  BY DEF LogInv
<1> QED
  BY <1>1, <1>2, <1>3, <1>4, <1>5 DEF LogInv

(* Nothing is stored. *)
LEMMA LogStays ==
    ASSUME LogInv, ProducerOk', UNCHANGED <<keep, row, events>>,
           printed' = printed \/ (printed < MaxLines /\ printed' = printed + 1)
    PROVE  LogInv' /\ LogGrows
<1>1. printed' \in 0..MaxLines /\ printed' >= printed /\ printed \in Nat /\ printed' \in Nat
  BY LogTypes, EventLogAssumption
<1>2. \A e \in events' : e.line <= printed'
  BY <1>1, LogTypes
<1>3. LateEvents'
  BY DEF LogInv, LateEvents, DoneIds
<1>4. LogGrows
  BY LogTypes DEF LogGrows
<1> QED
  BY <1>1, <1>2, <1>3, <1>4 DEF LogInv

(* What each step does to the stored log. *)
LEMMA LogStep ==
    ASSUME LogInv, [Next]_vars
    PROVE  LogInv' /\ LogGrows
<1>0. /\ printed \in Nat /\ keep \in Nat /\ ProducerOk
      /\ producer.next \in Nat \ {0} /\ producer.unpruned \in Nat /\ producer.next <= printed + 1
  BY LogTypes DEF LogInv, ProducerOk
<1>1. CASE Prints
  <2>1. printed' = printed + 1 /\ printed < MaxLines /\ UNCHANGED <<keep, row, events, producer>>
    BY <1>1 DEF Prints
  <2>2. ProducerOk'
    BY <1>0, <2>1 DEF ProducerOk, LogEvents
  <2> QED
    BY <2>1, <2>2, LogStays
<1>2. CASE CloseRow \/ DirectEnds
  <2>1. persist_job_finished /\ UNCHANGED <<keep, printed, producer>>
    BY <1>2 DEF CloseRow, DirectEnds
  <2>2. /\ row' = "over"
        /\ \/ row = "running" /\ events' = Stored(events, "done", 0)
           \/ row = "over" /\ events' = events
    BY <2>1 DEF persist_job_finished, LogInv
  <2> QED
    BY <2>1, <2>2, Closing
<1>3. CASE ProducerFinishes
  <2>1. /\ row' = "over" /\ printed' = printed /\ keep' = keep /\ producer' = ProducerOff
        /\ \/ row = "running" /\ events' = _prune_job_log_events(Stored(events, "done", 0))
           \/ row = "over" /\ (events' = events \/ events' = _prune_job_log_events(events))
    BY <1>3 DEF ProducerFinishes, LogInv
  <2>2. CASE row = "running"
    BY <2>1, <2>2, Closing
  <2>3. CASE row = "over"
    <3>1. PICK d \in events : d.kind = "done"
      BY <2>3 DEF LogInv, DoneWith
    <3>2. keep = 0 => \A e \in events : e.id <= d.id
      BY <1>0, <1>3, <2>3, <3>1 DEF ProducerOk, ProducerFinishes
    <3>3. \A e \in events : e.id \in Nat /\ (e.id = d.id => e = d)
      BY LogTypes DEF LogInv, Good
    <3>4. KeepsTop(events)
      BY <1>0, <3>1, <3>2, <3>3 DEF KeepsTop
    <3> QED
      BY <2>1, <2>3, <3>4, Closing
  <2> QED
    BY <2>2, <2>3 DEF LogInv
<1>4. CASE ProducerStores
  <2> DEFINE rows == Stored(events, "log", producer.next)
  <2>1. /\ producer.pc = "storing"
        /\ events' \in {rows, _prune_job_log_events(rows)}
        /\ producer'.pc = "following" /\ producer'.next = producer.next + 1
        /\ producer' \in [pc : {"off", "following", "storing", "failing"}, next : Nat \ {0}, unpruned : Nat]
        /\ UNCHANGED <<keep, printed, row>>
    BY <1>0, <1>4 DEF ProducerStores
  <2>2. /\ producer.next <= printed /\ keep > 0
        /\ \A e \in LogEvents : e.line < producer.next
        /\ row = "over" => \A d, e \in events : d.kind = "done" => e.id <= d.id
    BY <1>0, <2>1 DEF ProducerOk
  <2>3. OneMore(events', "log", producer.next)
    <3>1. IsStored("log")
      BY <2>2 DEF IsStored
    <3> QED
      BY <1>0, <2>1, <2>2, <3>1, Appended
  <2>4. PICK n : /\ Good(events', n) /\ n \in Nat \ {0}
                 /\ \A e \in events : e.id < n
                 /\ \A f \in events' : f \in events \/ f = [id |-> n, kind |-> "log", line |-> producer.next]
                 /\ \A e \in events : e.kind # "log" => e \in events'
    BY <2>3 DEF OneMore
  <2> DEFINE a == [id |-> n, kind |-> "log", line |-> producer.next]
  <2>5. a \in Event /\ a.id = n /\ a.kind = "log" /\ a.line = producer.next
    BY <1>0, <2>4 DEF Event
  <2>6. \A f \in events' : f \in events \/ f = a
    BY <2>4
  <2> HIDE DEF a, rows
  <2>7. ProducerOk'
    <3>1. \A e \in LogEvents' : e.line < producer'.next
      BY <1>0, <2>1, <2>2, <2>5, <2>6, LogTypes DEF LogEvents
    <3> QED
      BY <1>0, <2>1, <2>2, <3>1 DEF ProducerOk
  <2> QED
    BY <2>1, <2>2, <2>4, <2>5, <2>6, <2>7, Storing
<1>5. CASE ProducerStoresError
  <2> DEFINE rows == Stored(events, "job_error", 0)
  <2>1. /\ producer.pc = "failing" /\ events' = Stored(rows, "log", 0) /\ producer' = ProducerOff
        /\ UNCHANGED <<keep, printed, row>>
    BY <1>5 DEF ProducerStoresError
  <2>2. row = "over" => \A d, e \in events : d.kind = "done" => e.id <= d.id
    BY <1>0, <2>1 DEF ProducerOk
  <2>3. PICK n : Good(events, n)
    BY DEF LogInv
  <2> DEFINE a == [id |-> n + 1, kind |-> "job_error", line |-> 0]
             b == [id |-> n + 1 + 1, kind |-> "log", line |-> 0]
  <2>4. rows = events \cup {a} /\ Good(rows, n + 1)
    <3>1. StoresWell(events, n, "job_error", 0)
      BY <2>3, StoredGood
    <3> QED
      BY <3>1 DEF StoresWell
  <2> HIDE DEF rows
  <2>5. events' = rows \cup {b} /\ Good(events', n + 1 + 1)
    <3>1. StoresWell(rows, n + 1, "log", 0)
      BY <2>4, StoredGood
    <3> QED
      BY <2>1, <3>1 DEF StoresWell
  <2>6. n \in Nat /\ \A e \in events : e.id \in Nat /\ e.id <= n
    BY <2>3, LogTypes DEF Good, Top
  <2>7. /\ a \in Event /\ a.id = n + 1 /\ a.kind = "job_error" /\ a.line = 0
        /\ b \in Event /\ b.id = n + 1 + 1 /\ b.kind = "log" /\ b.line = 0
    BY <2>6 DEF Event
  <2>8. /\ \A f \in events' : f \in events \/ f = a \/ f = b
        /\ \A e \in events : e \in events'
    BY <2>4, <2>5
  <2> HIDE DEF a, b
  <2>9. ProducerOk'
    BY <1>0, <2>1 DEF ProducerOk, ProducerOff
  <2>10. \A e \in events : e.id < n + 1 + 1 /\ e.id < a.id /\ e.id < b.id
    BY <2>6, <2>7
  <2>11. n + 1 + 1 \in Nat \ {0} /\ a.line <= printed /\ b.line <= printed
    BY <1>0, <2>6, <2>7
  <2> QED
    BY <2>1, <2>2, <2>5, <2>7, <2>8, <2>9, <2>10, <2>11, Storing
<1>6. CASE ProducerAttaches
  <2>1. /\ row = "running" /\ UNCHANGED <<keep, row, events, printed>>
        /\ producer' \in [pc : {"off", "following", "storing", "failing"}, next : Nat \ {0}, unpruned : Nat]
        /\ producer'.pc = "following"
        /\ producer'.next = IF events = {} THEN 1 ELSE printed + 1
    BY <1>0, <1>6 DEF ProducerAttaches, job
  <2>2. \A e \in LogEvents' : e.line < producer'.next
    BY <1>0, <2>1, LogTypes DEF LogEvents
  <2>3. ProducerOk'
    BY <1>0, <2>1, <2>2 DEF ProducerOk
  <2> QED
    BY <2>1, <2>3, LogStays
<1>7. CASE ProducerReads \/ ProducerReadsError \/ ProducerDies
  <2>1. /\ UNCHANGED <<keep, row, events, printed>>
        /\ \/ /\ producer' = [producer EXCEPT !.pc = "storing"] /\ producer.pc = "following"
              /\ producer.next <= printed /\ row = "running" /\ keep # 0
           \/ /\ producer' = [producer EXCEPT !.next = @ + 1] /\ producer.pc = "following"
              /\ producer.next <= printed /\ row = "running"
           \/ producer' = [producer EXCEPT !.pc = "failing"] /\ producer.pc = "following" /\ row = "running"
           \/ producer' = ProducerOff
    BY <1>7 DEF ProducerReads, TakesLine, ProducerReadsError, ProducerDies, job
  <2>2. ProducerOk'
    <3>1. \A e \in LogEvents : e.line \in Nat
      BY LogTypes DEF LogEvents
    <3> QED
      BY <1>0, <2>1, <3>1 DEF ProducerOk, ProducerOff, LogEvents
  <2> QED
    BY <2>1, <2>2, LogStays
<1>8. CASE UNCHANGED <<keep, row, events, printed, producer>>
  <2>1. ProducerOk'
    BY <1>0, <1>8 DEF ProducerOk, LogEvents
  <2> QED
    BY <1>8, <2>1, LogStays
<1>9. CASE \/ Exits \/ (StreamStep /\ ~DirectEnds) \/ FallsBack \/ PanelStep \/ Drops \/ IsRefused
           \/ UNCHANGED vars
  <2>1. UNCHANGED <<keep, row, events, printed, producer>>
    BY <1>9 DEF Exits, StreamStep, FetchesPage, FetchesNothing, SendsEvent, Sleeps, SendsEnd, SendsLine,
                FallsBack, PanelStep, Connects, Reopens, Drops, IsRefused, vars, job
  <2> QED
    BY <1>8, <2>1
<1> QED
  BY <1>1, <1>2, <1>3, <1>4, <1>5, <1>6, <1>7, <1>9 DEF Next, ProducerStep, StreamStep

-----------------------------------------------------------------------------
(***************************************************************************)
(* The panel and its stream.                                               *)
(***************************************************************************)

(* A position: every stored line up to it, from where the panel began, has *)
(* been shown, and what is stored later comes after it.                    *)
Position(S, from, lines, x) ==
    /\ x \in Nat /\ (x = 0 \/ \E e \in S : x <= e.id)
    /\ \A e \in S : e.kind = "log" /\ from < e.id /\ e.id <= x => e.line \in lines \cup {0}

PanelOk ==
    /\ panel \in [es : {"connecting", "open", "closed", "over"}, tail : 0..AllLines,
                  url : Nat, last : Nat, mem : Nat]
    /\ since \in Nat /\ top \in Nat
    /\ Position(events, since, shown, panel.url)
    /\ Position(events, since, shown, panel.last)
    /\ Position(events, since, shown, panel.mem)
    /\ panel.url # 0 => panel.mem # 0
    /\ panel.url = 0 => panel.last = panel.mem /\ (panel.es # "over" => top = panel.last)
    /\ panel.es = "over" => row = "over" /\ stream.pc = "none"

(* A page that was fetched holds all there is between the cursor and any   *)
(* of its events.                                                          *)
PageOk(S, page, cursor) ==
    /\ page # {} /\ page \subseteq Event
    /\ \A e, f \in page : e.id = f.id => e = f
    /\ \A e \in page : /\ cursor < e.id
                       /\ \E f \in S : e.id <= f.id
                       /\ \A f \in S : cursor < f.id /\ f.id <= e.id => f \in page
                       /\ e.kind = "done" => e \in S

StreamOk ==
    /\ stream \in [pc : {"none", "polling", "paging", "resting", "direct", "deaf"}, cursor : Nat,
                   saw : BOOLEAN, pending : SUBSET Event, next : Int]
    /\ stream.pc # "none" => panel.es = "open"
    /\ stream.pc \in {"polling", "paging", "resting"} =>
          /\ Position(events, since, shown, stream.cursor)
          /\ panel.url = 0 => top <= stream.cursor
    /\ stream.pc = "paging" => PageOk(events, stream.pending, stream.cursor)
    /\ stream.pc = "direct" =>
          /\ direct # "no" /\ stream.next \in Int
          /\ panel.tail = AllLines => \A i \in Nat \ {0} : i < stream.next => i \in shown

PanelInv == PanelOk /\ StreamOk /\ PanelMissesNothing

(* A position stays one while the log grows. *)
LEMMA PositionStays ==
    ASSUME LogInv, LogInv', LogGrows, NEW from \in Nat, NEW lines, NEW x, Position(events, from, lines, x)
    PROVE  Position(events', from, lines, x)
<1>1. /\ \A e \in events : e.id \in Nat \ {0}
      /\ \A e \in events' : e.id \in Nat \ {0}
  BY LogTypes DEF LogInv, Good, Top, Event
<1>2. x \in Nat /\ (x = 0 \/ \E e \in events : x <= e.id)
  BY DEF Position
<1>3. x = 0 \/ \E e \in events' : x <= e.id
  <2>1. ASSUME NEW e \in events, x <= e.id PROVE \E f \in events' : x <= f.id
    <3>1. PICK f \in events' : e.id <= f.id
      BY DEF LogGrows
    <3> QED
      BY <1>1, <1>2, <2>1, <3>1
  <2> QED
    BY <1>2, <2>1
<1>4. ASSUME NEW e \in events', e.kind = "log", from < e.id, e.id <= x PROVE e.line \in lines \cup {0}
  <2>1. e \in events
    <3>1. CASE \A f \in events : f.id < e.id
      BY <1>1, <1>2, <1>4, <3>1
    <3> QED
      BY <3>1 DEF LogGrows
  <2> QED
    BY <1>4, <2>1 DEF Position
<1> QED
  BY <1>2, <1>3, <1>4 DEF Position

(* So does a page. *)
LEMMA PageStays ==
    ASSUME LogInv, LogInv', LogGrows, NEW page, NEW cursor, PageOk(events, page, cursor)
    PROVE  PageOk(events', page, cursor)
<1>1. /\ \A e \in events : e.id \in Nat \ {0}
      /\ \A e \in events' : e.id \in Nat \ {0}
      /\ \A e \in page : e.id \in Nat \ {0}
  BY LogTypes DEF LogInv, Good, Top, Event, PageOk
<1> SUFFICES ASSUME NEW e \in page
             PROVE  /\ cursor < e.id
                    /\ \E f \in events' : e.id <= f.id
                    /\ \A f \in events' : cursor < f.id /\ f.id <= e.id => f \in page
                    /\ e.kind = "done" => e \in events'
  BY DEF PageOk
<1>2. /\ cursor < e.id
      /\ \A f \in events : cursor < f.id /\ f.id <= e.id => f \in page
      /\ e.kind = "done" => e \in events
  BY DEF PageOk
<1>3. PICK g \in events : e.id <= g.id
  BY DEF PageOk
<1>4. PICK h \in events' : g.id <= h.id
  BY DEF LogGrows
<1>5. e.id <= h.id
  BY <1>1, <1>3, <1>4
<1>6. \A f \in events' : f.id <= e.id => f \in events
  <2> SUFFICES ASSUME NEW f \in events', f.id <= e.id, \A k \in events : k.id < f.id
               PROVE  FALSE
    BY DEF LogGrows
  <2> QED
    BY <1>1, <1>3
<1> QED
  BY <1>2, <1>5, <1>6 DEF LogGrows

(* A panel that is over stays complete while late events are stored. *)
LEMMA CompleteStays ==
    ASSUME LogInv, LogInv', LogGrows, PanelMissesNothing, row = "over", UNCHANGED board
    PROVE  PanelMissesNothing'
<1>1. /\ \A e \in events : e.id \in Nat \ {0}
      /\ \A e \in events' : e.id \in Nat \ {0}
  BY LogTypes DEF LogInv, Good, Top, Event
<1> SUFFICES ASSUME panel.es = "over", direct = "no" \/ panel.tail = AllLines,
                    NEW e \in events', e.kind = "log", NEW d \in events', d.kind = "done",
                    since < e.id, e.id < d.id
             PROVE  e.line \in shown \cup {0}
  BY DEF PanelMissesNothing, LogEvents, DoneIds, board
<1>2. d \in events
  BY DEF LogGrows
<1>3. e \in events
  <2>1. CASE \A k \in events : k.id < e.id
    BY <1>1, <1>2, <2>1
  <2> QED
    BY <2>1 DEF LogGrows
<1> QED
  BY <1>2, <1>3 DEF PanelMissesNothing, LogEvents, DoneIds

(* What the producer and other writers do leaves the panel as it is. *)
LEMMA PanelStays ==
    ASSUME LogInv, LogInv', LogGrows, PanelInv, UNCHANGED <<stream, board>>
    PROVE  PanelInv'
<1>1. UNCHANGED <<stream, panel, shown, top, repeated, since, direct>>
  BY DEF board
<1>2. PanelOk'
  <2>1. /\ Position(events', since, shown, panel.url)
        /\ Position(events', since, shown, panel.last)
        /\ Position(events', since, shown, panel.mem)
    BY PositionStays DEF PanelInv, PanelOk
  <2>2. row = "over" => row' = "over"
    BY DEF LogGrows
  <2> QED
    BY <1>1, <2>1, <2>2 DEF PanelInv, PanelOk
<1>3. StreamOk'
  <2>1. stream.pc \in {"polling", "paging", "resting"} => Position(events', since, shown, stream.cursor)
    BY PositionStays DEF PanelInv, PanelOk, StreamOk
  <2>2. stream.pc = "paging" => PageOk(events', stream.pending, stream.cursor)
    BY PageStays DEF PanelInv, StreamOk
  <2> QED
    BY <1>1, <2>1, <2>2 DEF PanelInv, StreamOk
<1>4. PanelMissesNothing'
  <2>1. CASE panel.es = "over"
    BY <2>1, CompleteStays DEF PanelInv, PanelOk
  <2>2. CASE panel.es # "over"
    BY <1>1, <2>2 DEF PanelMissesNothing
  <2> QED
    BY <2>1, <2>2
<1> QED
  BY <1>2, <1>3, <1>4 DEF PanelInv

(* A panel that is not over misses nothing yet. *)
LEMMA NotOver ==
    ASSUME panel'.es # "over"
    PROVE  PanelMissesNothing'
BY DEF PanelMissesNothing

(* Before the first connection. *)
LEMMA InitPanel == Init => PanelInv
<1> SUFFICES ASSUME Init PROVE PanelInv
  OBVIOUS
<1>1. PICK tail \in Tails : panel = NewPanel(tail)
  BY DEF Init
<1>2. tail \in 0..AllLines
  BY EventLogAssumption
<1>3. /\ panel \in [es : {"connecting", "open", "closed", "over"}, tail : 0..AllLines,
                    url : Nat, last : Nat, mem : Nat]
      /\ panel.es = "connecting" /\ panel.url = 0 /\ panel.last = 0 /\ panel.mem = 0
  BY <1>1, <1>2 DEF NewPanel
<1>4. /\ events = {} /\ since = 0 /\ top = 0 /\ stream.pc = "none"
      /\ stream \in [pc : {"none", "polling", "paging", "resting", "direct", "deaf"}, cursor : Nat,
                     saw : BOOLEAN, pending : SUBSET Event, next : Int]
  BY DEF Init, NoStream
<1>5. PanelOk
  BY <1>3, <1>4 DEF PanelOk, Position
<1>6. StreamOk
  BY <1>4 DEF StreamOk
<1>7. PanelMissesNothing
  BY <1>3 DEF PanelMissesNothing
<1> QED
  BY <1>5, <1>6, <1>7 DEF PanelInv

(* The first events behind the cursor. *)
FirstPage == {e \in PendingEvents : Cardinality({f \in PendingEvents : f.id < e.id}) < PageSize}

(* A page has no gap: nothing between the cursor and one of its events is
   missing. *)
LEMMA FirstPageOk ==
    ASSUME LogInv, PendingEvents # {}
    PROVE  PageOk(events, FirstPage, stream.cursor)
<1>1. /\ IsFiniteSet(events) /\ PendingEvents \in SUBSET events /\ events \subseteq Event
      /\ \A e \in events : e.id \in Nat
  BY LogTypes DEF PendingEvents
<1>2. \A e \in PendingEvents : /\ IsFiniteSet({f \in PendingEvents : f.id < e.id})
                               /\ Cardinality({f \in PendingEvents : f.id < e.id}) \in Nat
  <2>1. IsFiniteSet(PendingEvents)
    BY <1>1, FS_Subset
  <2>2. \A e \in PendingEvents : {f \in PendingEvents : f.id < e.id} \in SUBSET PendingEvents
    OBVIOUS
  <2> QED
    BY <2>1, <2>2, FS_Subset, FS_CardinalityType
<1>3. FirstPage # {}
  <2> DEFINE ids == {e.id : e \in PendingEvents}
  <2>1. ids \subseteq Nat /\ ids # {}
    BY <1>1
  <2>2. Min(ids) \in ids /\ \A y \in ids : Min(ids) <= y
    <3> HIDE DEF ids
    <3> QED
      BY <2>1, LeastExists
  <2>3. PICK e \in PendingEvents : \A f \in PendingEvents : e.id <= f.id
    BY <2>2
  <2>4. {f \in PendingEvents : f.id < e.id} = {}
    BY <1>1, <2>3
  <2>5. Cardinality({f \in PendingEvents : f.id < e.id}) < PageSize
    BY <2>4, FS_EmptySet, EventLogAssumption
  <2> QED
    BY <2>3, <2>5 DEF FirstPage
<1>4. ASSUME NEW e \in FirstPage, NEW f \in PendingEvents, f.id <= e.id PROVE f \in FirstPage
  <2>1. e \in PendingEvents /\ Cardinality({g \in PendingEvents : g.id < e.id}) < PageSize
    BY DEF FirstPage
  <2>2. {g \in PendingEvents : g.id < f.id} \in SUBSET {g \in PendingEvents : g.id < e.id}
    BY <1>1, <1>4, <2>1
  <2>3. Cardinality({g \in PendingEvents : g.id < f.id}) <= Cardinality({g \in PendingEvents : g.id < e.id})
    BY <1>2, <2>1, <2>2, FS_Subset
  <2>4. Cardinality({g \in PendingEvents : g.id < f.id}) < PageSize
    <3>1. PageSize \in Nat
      BY EventLogAssumption
    <3> DEFINE before(g) == Cardinality({h \in PendingEvents : h.id < g.id})
    <3>2. before(f) \in Nat /\ before(e) \in Nat
      BY <1>2, <2>1
    <3>3. before(f) <= before(e) /\ before(e) < PageSize
      BY <2>1, <2>3
    <3> HIDE DEF before
    <3>4. before(f) < PageSize
      BY <3>1, <3>2, <3>3
    <3> QED
      BY <3>4 DEF before
  <2> QED
    BY <2>4 DEF FirstPage
<1>5. FirstPage \subseteq PendingEvents
  BY DEF FirstPage
<1>6. \A e, f \in events : e.id = f.id => e = f
  BY DEF LogInv, Good
<1>7. ASSUME NEW e \in FirstPage
      PROVE  /\ stream.cursor < e.id
             /\ \E f \in events : e.id <= f.id
             /\ \A f \in events : stream.cursor < f.id /\ f.id <= e.id => f \in FirstPage
             /\ e.kind = "done" => e \in events
  <2>1. e \in events /\ stream.cursor < e.id
    BY <1>5 DEF PendingEvents
  <2>2. e.id <= e.id
    BY <1>1, <2>1
  <2>3. \A f \in events : stream.cursor < f.id => f \in PendingEvents
    BY <1>1, <2>1 DEF PendingEvents
  <2> QED
    BY <1>4, <2>1, <2>2, <2>3
<1> QED
  BY <1>1, <1>3, <1>5, <1>6, <1>7 DEF PageOk

(* The stream fetches a page, rests or sleeps; the panel stays. *)
LEMMA StreamMoves ==
    ASSUME LogInv, PanelInv, UNCHANGED <<job, board>>,
           \/ FetchesPage \/ FetchesNothing \/ Sleeps
           \/ SendsEnd /\ stream' = [stream EXCEPT !.pc = "polling"]
    PROVE  PanelInv'
<1>0. UNCHANGED <<events, row, panel, shown, top, repeated, since, direct>>
  BY DEF job, board
<1>1. /\ stream' \in [pc : {"none", "polling", "paging", "resting", "direct", "deaf"}, cursor : Nat,
                      saw : BOOLEAN, pending : SUBSET Event, next : Int]
      /\ stream'.cursor = stream.cursor
      /\ stream.pc \in {"polling", "resting"}
      /\ stream'.pc \in {"polling", "paging", "resting"}
      /\ stream'.pc = "paging" => stream'.pending = FirstPage /\ PendingEvents # {}
  <2>1. FirstPage \subseteq Event
    BY LogTypes DEF FirstPage, PendingEvents
  <2> QED
    BY <2>1 DEF FetchesPage, FetchesNothing, Sleeps, SendsEnd, PanelInv, StreamOk, FirstPage
<1>2. PanelOk'
  BY <1>0, <1>1 DEF PanelInv, PanelOk, StreamOk
<1>3. StreamOk'
  <2>1. stream'.pc = "paging" => PageOk(events', stream'.pending, stream'.cursor)
    BY <1>0, <1>1, FirstPageOk
  <2>2. /\ Position(events', since', shown', stream'.cursor)
        /\ panel'.url = 0 => top' <= stream'.cursor
        /\ panel'.es = "open"
    BY <1>0, <1>1 DEF PanelInv, StreamOk
  <2> QED
    BY <1>1, <2>1, <2>2 DEF StreamOk
<1>4. PanelMissesNothing'
  BY <1>0, <1>1, NotOver DEF PanelInv, StreamOk
<1> QED
  BY <1>2, <1>3, <1>4 DEF PanelInv

(* The connection goes: no stream, and the panel connects or is closed. *)
LEMMA StreamGoes ==
    ASSUME LogInv, PanelInv, UNCHANGED job, Drops \/ IsRefused \/ Reopens
    PROVE  PanelInv'
<1>0. UNCHANGED <<events, row, shown, top, repeated, since>>
  BY DEF job, Drops, IsRefused, Reopens
<1>1. /\ panel.es # "over" /\ stream'.pc = "none"
      /\ stream' \in [pc : {"none", "polling", "paging", "resting", "direct", "deaf"}, cursor : Nat,
                      saw : BOOLEAN, pending : SUBSET Event, next : Int]
  <2>1. CASE Drops
    BY <2>1 DEF Drops, NoStream
  <2>2. CASE IsRefused \/ Reopens
    BY <2>2 DEF IsRefused, Reopens, PanelInv, StreamOk
  <2> QED
    BY <2>1, <2>2
<1>2. PanelOk'
  <2>1. CASE Drops \/ IsRefused
    <3>1. /\ panel' \in [es : {"connecting", "open", "closed", "over"}, tail : 0..AllLines,
                         url : Nat, last : Nat, mem : Nat]
          /\ panel'.es # "over" /\ panel'.url = panel.url /\ panel'.last = panel.last
          /\ panel'.mem = panel.mem
      BY <2>1 DEF Drops, IsRefused, PanelInv, PanelOk
    <3> QED
      BY <1>0, <1>1, <3>1 DEF PanelInv, PanelOk
  <2>2. CASE Reopens
    <3>1. /\ panel' \in [es : {"connecting", "open", "closed", "over"}, tail : 0..AllLines,
                         url : Nat, last : Nat, mem : Nat]
          /\ panel'.es # "over" /\ panel'.url = panel.mem /\ panel'.last = 0
          /\ panel'.mem = panel.mem
      BY <2>2 DEF Reopens, PanelInv, PanelOk
    <3>2. Position(events, since, shown, 0)
      <4>1. \A e \in events : e.id \in Nat \ {0}
        BY LogTypes
      <4> QED
        BY <4>1 DEF Position
    <3>3. panel.mem = 0 => panel.url = 0 /\ panel.last = 0
      BY DEF PanelInv, PanelOk
    <3> QED
      BY <1>0, <1>1, <3>1, <3>2, <3>3 DEF PanelInv, PanelOk
  <2> QED
    BY <2>1, <2>2
<1>3. StreamOk'
  BY <1>1 DEF StreamOk
<1>4. panel'.es # "over"
  BY DEF Drops, IsRefused, Reopens, PanelInv, PanelOk
<1> QED
  BY <1>2, <1>3, <1>4, NotOver DEF PanelInv

(* Where a connection begins: at an id there is, or from the start. *)
LEMMA CursorIs ==
    ASSUME LogInv, PanelInv
    PROVE  Cursor \in Nat /\ (Cursor = 0 \/ \E e \in events : Cursor <= e.id)
<1>1. \A e \in events : e.id \in Nat \ {0}
  BY LogTypes
<1>2. CASE panel.url # 0 \/ panel.last # 0
  BY <1>2 DEF Cursor, PanelInv, PanelOk, Position
<1>3. CASE panel.url = 0 /\ panel.last = 0
  <2> DEFINE ids    == {e.id : e \in events}
             recent == {i \in ids : Cardinality({n \in ids : n > i}) < panel.tail}
  <2>1. /\ panel.tail \in Nat
        /\ Cursor = CASE ids = {} \/ panel.tail = AllLines -> 0
                      [] ids # {} /\ panel.tail = 0        -> Max(ids)
                      [] OTHER                             -> Min(recent) - 1
    BY <1>3, EventLogAssumption DEF Cursor, TailCursor, PanelInv, PanelOk
  <2>2. /\ \A i \in ids : i \in Nat \ {0}
        /\ \A i \in ids : \E e \in events : i = e.id
    BY <1>1
  <2>3. ASSUME ids # {} PROVE \E n \in ids : \A i \in ids : i <= n
    <3>1. PICK n : Good(events, n)
      BY DEF LogInv
    <3>2. n \in ids /\ \A i \in ids : i <= n
      BY <2>2, <2>3, <3>1 DEF Good, Top
    <3> QED
      BY <3>2
  <2>4. ASSUME ids # {} PROVE Max(ids) \in ids
    <3>1. PICK n \in ids : \A i \in ids : i <= n
      BY <2>3, <2>4
    <3> HIDE DEF ids
    <3>2. ids \subseteq Int
      BY <2>2
    <3> QED
      BY <3>1, <3>2, HighestIs
  <2>5. ASSUME ids # {}, panel.tail # 0 PROVE Min(recent) \in ids
    <3>1. PICK n \in ids : \A i \in ids : i <= n
      BY <2>3, <2>5
    <3>2. {m \in ids : m > n} = {}
      <4> HIDE DEF ids
      <4> QED
        BY <2>2, <3>1
    <3>3. Cardinality({m \in ids : m > n}) < panel.tail
      <4>1. Cardinality({}) = 0 /\ 0 < panel.tail
        BY <2>1, <2>5, FS_EmptySet
      <4> HIDE DEF ids
      <4> QED
        BY <3>2, <4>1
    <3>4. n \in recent
      BY <3>3
    <3>5. recent \subseteq ids
      OBVIOUS
    <3> HIDE DEF ids, recent
    <3>6. recent \subseteq Nat /\ recent # {}
      BY <2>2, <3>4, <3>5
    <3> QED
      BY <3>5, <3>6, LeastExists
  <2>6. CASE ids = {} \/ panel.tail = AllLines
    <3> HIDE DEF ids, recent
    <3>1. AllLines # 0
      BY EventLogAssumption
    <3> QED
      BY <2>1, <2>6, <3>1
  <2>7. CASE ids # {} /\ panel.tail # AllLines /\ panel.tail = 0
    <3>1. Cursor = Max(ids) /\ Max(ids) \in ids
      BY <2>1, <2>4, <2>7
    <3> HIDE DEF ids
    <3> QED
      BY <1>1, <2>2, <3>1
  <2>8. CASE ids # {} /\ panel.tail # AllLines /\ panel.tail # 0
    <3>1. Cursor = Min(recent) - 1 /\ Min(recent) \in ids
      BY <2>1, <2>5, <2>8
    <3> HIDE DEF ids, recent
    <3> QED
      BY <1>1, <2>2, <3>1
  <2> QED
    BY <2>6, <2>7, <2>8
<1> QED
  BY <1>2, <1>3

(* The panel connects. *)
LEMMA PanelConnects ==
    ASSUME LogInv, PanelInv, UNCHANGED job, Connects
    PROVE  PanelInv'
<1>0. /\ UNCHANGED <<events, row, shown, top, repeated, direct>>
      /\ panel.es = "connecting"
      /\ panel' = [panel EXCEPT !.es = "open"]
      /\ stream' = [NoStream EXCEPT !.pc = "polling", !.cursor = Cursor]
      /\ since' = IF panel.url = 0 /\ panel.last = 0 THEN Cursor ELSE since
  BY DEF Connects, job
<1>1. /\ Cursor \in Nat /\ (Cursor = 0 \/ \E e \in events : Cursor <= e.id)
      /\ \A e \in events : e.id \in Nat \ {0}
  BY CursorIs, LogTypes
<1>2. /\ panel' \in [es : {"connecting", "open", "closed", "over"}, tail : 0..AllLines,
                      url : Nat, last : Nat, mem : Nat]
      /\ panel'.es = "open" /\ panel'.url = panel.url /\ panel'.last = panel.last
      /\ panel'.mem = panel.mem
  BY <1>0 DEF PanelInv, PanelOk
<1>3. /\ stream' \in [pc : {"none", "polling", "paging", "resting", "direct", "deaf"}, cursor : Nat,
                       saw : BOOLEAN, pending : SUBSET Event, next : Int]
      /\ stream'.pc = "polling" /\ stream'.cursor = Cursor
  <2>1. stream' = [pc |-> "polling", cursor |-> Cursor, saw |-> FALSE, pending |-> {}, next |-> 0]
    BY <1>0 DEF NoStream
  <2> HIDE DEF Cursor
  <2> QED
    BY <1>1, <2>1
<1>4. CASE panel.url = 0 /\ panel.last = 0
  <2>1. /\ since' = Cursor /\ since' \in Nat /\ panel.mem = 0 /\ top = 0
    BY <1>0, <1>1, <1>4 DEF PanelInv, PanelOk
  <2>2. Position(events, since', shown, 0) /\ Position(events, since', shown, Cursor)
    BY <1>1, <2>1 DEF Position
  <2>3. PanelOk'
    BY <1>0, <1>2, <1>3, <1>4, <2>1, <2>2 DEF PanelInv, PanelOk
  <2>4. StreamOk'
    BY <1>0, <1>1, <1>2, <1>3, <2>1, <2>2 DEF StreamOk
  <2> QED
    BY <1>2, <2>3, <2>4, NotOver DEF PanelInv
<1>5. CASE ~(panel.url = 0 /\ panel.last = 0)
  <2>1. /\ since' = since
        /\ Position(events, since, shown, Cursor)
        /\ panel.url = 0 => top <= Cursor
    BY <1>0, <1>5 DEF PanelInv, PanelOk, Cursor
  <2>2. PanelOk'
    BY <1>0, <1>2, <1>3, <2>1 DEF PanelInv, PanelOk
  <2>3. StreamOk'
    BY <1>0, <1>2, <1>3, <2>1 DEF StreamOk
  <2> QED
    BY <1>2, <2>2, <2>3, NotOver DEF PanelInv
<1> QED
  BY <1>4, <1>5

(* The stream sends the next event of its page. *)
LEMMA EventSent ==
    ASSUME LogInv, PanelInv, UNCHANGED job, SendsEvent
    PROVE  PanelInv'
<1>0. UNCHANGED <<events, row, since, direct>> /\ stream.pc = "paging" /\ panel.es = "open"
  BY DEF SendsEvent, Receives, job, PanelInv, StreamOk
<1>1. PICK e \in stream.pending :
          /\ \A f \in stream.pending : e.id <= f.id
          /\ Receives(e)
          /\ stream' = IF e.kind = "done" THEN NoStream
                       ELSE [stream EXCEPT !.cursor = e.id, !.pending = @ \ {e},
                               !.pc = IF stream.pending = {e} THEN "polling" ELSE "paging"]
  BY DEF SendsEvent
<1>2. /\ PageOk(events, stream.pending, stream.cursor)
      /\ Position(events, since, shown, stream.cursor)
      /\ panel.url = 0 => top <= stream.cursor
      /\ stream.cursor \in Nat /\ since \in Nat /\ top \in Nat
      /\ panel.url # 0 => panel.mem # 0
  BY <1>0 DEF PanelInv, PanelOk, StreamOk
<1>3. /\ e.id \in Nat \ {0} /\ e.kind \in {"log", "done", "job_error"} /\ e.line \in Nat
      /\ stream.cursor < e.id /\ e \in Event
      /\ \A f \in stream.pending : f.id \in Nat \ {0}
      /\ \A f \in events : f.id \in Nat \ {0}
      /\ e.kind = "done" => e \in events
  BY <1>2, LogTypes DEF PageOk, Event
<1>4. Position(events, since, shown', e.id)
  <2>1. \E f \in events : e.id <= f.id
    BY <1>2 DEF PageOk
  <2>2. shown' = shown \cup ({e.line} \ {0})
    BY <1>1 DEF Receives
  <2>3. ASSUME NEW f \in events, f.kind = "log", since < f.id, f.id <= e.id
        PROVE  f.line \in shown' \cup {0}
    <3>1. CASE f.id <= stream.cursor
      BY <1>2, <2>2, <2>3, <3>1 DEF Position
    <3>2. CASE stream.cursor < f.id
      <4>1. f \in stream.pending
        BY <1>2, <2>3, <3>2 DEF PageOk
      <4>2. f = e
        <5>1. f.id = e.id
          BY <1>1, <1>3, <2>3, <4>1
        <5> QED
          BY <1>2, <4>1, <5>1 DEF PageOk
      <4> QED
        BY <2>2, <4>2
    <3> QED
      BY <1>2, <1>3, <3>1, <3>2
  <2> QED
    BY <1>3, <2>1, <2>3 DEF Position
<1>5. /\ panel' \in [es : {"connecting", "open", "closed", "over"}, tail : 0..AllLines,
                      url : Nat, last : Nat, mem : Nat]
      /\ panel'.es = IF e.kind = "done" THEN "over" ELSE "open"
      /\ panel'.url = panel.url /\ panel'.last = e.id /\ panel'.mem = e.id
  BY <1>0, <1>1, <1>3 DEF Receives, PanelInv, PanelOk
<1>6. Position(events, since, shown', panel.url)
  BY <1>1 DEF Receives, PanelInv, PanelOk, Position
<1>7. /\ top' \in Nat
      /\ panel.url = 0 => top' = e.id
  <2>1. top' = Max({top, e.id})
    BY <1>1 DEF Receives
  <2>2. CASE top <= e.id
    <3>1. {top, e.id} \subseteq Int /\ \A i \in {top, e.id} : i <= e.id
      BY <1>2, <1>3, <2>2
    <3>2. Max({top, e.id}) = e.id
      BY <3>1, HighestIs
    <3> QED
      BY <1>3, <2>1, <3>2
  <2>3. CASE e.id <= top
    <3>1. top' = top
      <4>1. {top, e.id} \subseteq Int /\ \A i \in {top, e.id} : i <= top
        BY <1>2, <1>3, <2>3
      <4>2. Max({top, e.id}) = top
        BY <4>1, HighestIs
      <4> QED
        BY <2>1, <4>2
    <3> QED
      BY <1>2, <1>3, <2>1, <2>3, <3>1
  <2> QED
    BY <1>2, <1>3, <2>2, <2>3
<1>8. CASE e.kind = "done"
  <2>1. stream' = NoStream /\ panel'.es = "over"
    BY <1>1, <1>5, <1>8
  <2>2. row = "over"
    BY <1>3, <1>8 DEF LogInv, DoneWith
  <2>3. PanelOk'
    BY <1>0, <1>2, <1>3, <1>4, <1>5, <1>6, <1>7, <2>1, <2>2 DEF PanelOk, NoStream
  <2>4. StreamOk'
    BY <2>1 DEF StreamOk, NoStream
  <2>5. \A d \in events : d.kind = "done" => d = e
    BY <1>3, <1>8, <2>2 DEF LogInv, DoneWith
  <2>6. PanelMissesNothing'
    <3> SUFFICES ASSUME NEW f \in events, f.kind = "log", NEW d \in events, d.kind = "done",
                        since < f.id, f.id < d.id
                 PROVE  f.line \in shown' \cup {0}
      BY <1>0 DEF PanelMissesNothing, LogEvents, DoneIds
    <3>1. f.id <= e.id
      BY <1>3, <2>5
    <3> QED
      BY <1>4, <3>1 DEF Position
  <2> QED
    BY <2>3, <2>4, <2>6 DEF PanelInv
<1>9. CASE e.kind # "done"
  <2>1. /\ stream' = [stream EXCEPT !.cursor = e.id, !.pending = @ \ {e},
                         !.pc = IF stream.pending = {e} THEN "polling" ELSE "paging"]
        /\ panel'.es = "open"
    BY <1>1, <1>5, <1>9
  <2>2. PanelOk'
    BY <1>0, <1>2, <1>3, <1>4, <1>5, <1>6, <1>7, <2>1 DEF PanelOk
  <2>3. /\ stream' \in [pc : {"none", "polling", "paging", "resting", "direct", "deaf"}, cursor : Nat,
                         saw : BOOLEAN, pending : SUBSET Event, next : Int]
        /\ stream'.cursor = e.id /\ stream'.pending = stream.pending \ {e}
        /\ stream'.pc = IF stream.pending = {e} THEN "polling" ELSE "paging"
    BY <1>0, <1>3, <2>1 DEF PanelInv, StreamOk
  <2>4. stream.pending # {e} => PageOk(events, stream.pending \ {e}, e.id)
    <3> SUFFICES ASSUME stream.pending # {e} PROVE PageOk(events, stream.pending \ {e}, e.id)
      OBVIOUS
    <3>1. stream.pending \ {e} # {} /\ stream.pending \ {e} \subseteq Event
      BY <1>2 DEF PageOk
    <3>2. ASSUME NEW f \in stream.pending \ {e}
          PROVE  /\ e.id < f.id
                 /\ \E g \in events : f.id <= g.id
                 /\ \A g \in events : e.id < g.id /\ g.id <= f.id => g \in stream.pending \ {e}
                 /\ f.kind = "done" => f \in events
      <4>1. e.id <= f.id /\ e.id # f.id
        BY <1>1, <1>2 DEF PageOk
      <4>2. /\ \E g \in events : f.id <= g.id
            /\ f.kind = "done" => f \in events
            /\ \A g \in events : stream.cursor < g.id /\ g.id <= f.id => g \in stream.pending
        BY <1>2 DEF PageOk
      <4>3. ASSUME NEW g \in events, e.id < g.id, g.id <= f.id PROVE g \in stream.pending \ {e}
        BY <1>2, <1>3, <4>2, <4>3
      <4> QED
        BY <1>3, <4>1, <4>2, <4>3
    <3> QED
      BY <1>2, <3>1, <3>2 DEF PageOk
  <2>5. StreamOk'
    <3>1. Position(events', since', shown', stream'.cursor)
      BY <1>0, <1>4, <2>3
    <3>2. panel'.url = 0 => top' <= stream'.cursor
      BY <1>3, <1>5, <1>7, <2>3
    <3>3. stream'.pc = "paging" => PageOk(events', stream'.pending, stream'.cursor)
      BY <1>0, <2>3, <2>4
    <3>4. stream'.pc \in {"polling", "paging"}
      BY <2>3
    <3> QED
      BY <2>1, <2>3, <3>1, <3>2, <3>3, <3>4 DEF StreamOk
  <2> QED
    BY <2>1, <2>2, <2>5, NotOver DEF PanelInv
<1> QED
  BY <1>8, <1>9

(* The job is over and the panel has read its log: the done event is sent. *)
LEMMA EndSent ==
    ASSUME LogInv, PanelInv, UNCHANGED job, SendsEnd, Max(DoneIds) <= stream.cursor
    PROVE  PanelInv'
<1>0. /\ UNCHANGED <<events, row, shown, top, repeated, since, direct>>
      /\ stream.pc = "resting" /\ row = "over" /\ panel.es = "open"
      /\ Position(events, since, shown, stream.cursor)
      /\ stream.cursor \in Nat
  BY DEF SendsEnd, job, PanelInv, StreamOk
<1>1. PICK d \in events : d.kind = "done" /\ \A e \in events : e.kind = "done" => e = d
  BY <1>0 DEF LogInv, DoneWith
<1>2. d.id \in Nat \ {0} /\ DoneIds = {d.id}
  BY <1>1, LogTypes DEF DoneIds
<1>3. Max(DoneIds) = d.id
  BY <1>2, HighestIs
<1>4. /\ stream' = NoStream
      /\ panel' = [panel EXCEPT !.last = d.id, !.mem = d.id, !.es = "over"]
      /\ d.id <= stream.cursor
  <2>1. d.id <= stream.cursor
    BY <1>3
  <2>2. ~(d.id > stream.cursor)
    BY <1>0, <1>2, <2>1
  <2> QED
    BY <1>3, <2>1, <2>2 DEF SendsEnd
<1>5. /\ panel' \in [es : {"connecting", "open", "closed", "over"}, tail : 0..AllLines,
                      url : Nat, last : Nat, mem : Nat]
      /\ panel'.es = "over" /\ panel'.url = panel.url /\ panel'.last = d.id /\ panel'.mem = d.id
  BY <1>2, <1>4 DEF PanelInv, PanelOk
<1>6. Position(events, since, shown, d.id)
  <2>1. \A e \in events : e.id \in Nat
    BY LogTypes
  <2>2. \A e \in events : e.id <= d.id => e.id <= stream.cursor
    BY <1>0, <1>2, <1>4, <2>1
  <2>3. d.id <= d.id
    BY <1>2
  <2> QED
    BY <1>0, <1>1, <1>2, <2>2, <2>3 DEF Position
<1>7. PanelOk'
  BY <1>0, <1>2, <1>4, <1>5, <1>6 DEF PanelInv, PanelOk, NoStream
<1>8. StreamOk'
  BY <1>4 DEF StreamOk, NoStream
<1>9. PanelMissesNothing'
  <2>1. \A e \in events : e.id \in Nat
    BY LogTypes
  <2> SUFFICES ASSUME NEW e \in events, e.kind = "log", since < e.id, e.id < d.id
               PROVE  e.line \in shown \cup {0}
    BY <1>0, <1>2 DEF PanelMissesNothing, LogEvents, DoneIds
  <2> QED
    BY <1>2, <1>6, <2>1 DEF Position
<1> QED
  BY <1>7, <1>8, <1>9 DEF PanelInv

(* The stream follows the container itself, until it has exited. *)
LEMMA DirectGoes ==
    ASSUME LogInv, LogInv', LogGrows, PanelInv, FallsBack \/ SendsLine \/ DirectEnds
    PROVE  PanelInv'
<1>0. /\ UNCHANGED <<printed, top, since>> /\ direct' # "no" /\ panel.es = "open"
      /\ printed \in Nat /\ printed <= MaxLines
      /\ panel \in [es : {"connecting", "open", "closed", "over"}, tail : 0..AllLines,
                     url : Nat, last : Nat, mem : Nat]
      /\ panel.tail \in Nat
  <2>1. CASE FallsBack
    BY <2>1, LogTypes, EventLogAssumption DEF FallsBack, job, PanelInv, PanelOk, StreamOk
  <2>2. CASE SendsLine \/ DirectEnds
    BY <2>2, LogTypes, EventLogAssumption DEF SendsLine, DirectEnds, job, PanelInv, PanelOk, StreamOk
  <2> QED
    BY <2>1, <2>2
<1>1. ASSUME NEW x, Position(events, since, shown, x), shown \subseteq shown'
      PROVE  Position(events', since', shown', x)
  <2>1. since \in Nat
    BY DEF PanelInv, PanelOk
  <2>2. Position(events', since, shown, x)
    BY <1>1, <2>1, PositionStays
  <2> QED
    BY <1>0, <1>1, <2>2 DEF Position
<1>2. CASE FallsBack
  <2> DEFINE n == Max({1, printed + 1 - panel.tail})
  <2>1. /\ panel' = panel /\ shown' = shown /\ row' = row /\ events' = events
        /\ \E pc \in {"direct", "deaf"} : stream' = [stream EXCEPT !.pc = pc, !.next = n]
    BY <1>2 DEF FallsBack, job
  <2>2. n \in Int /\ (panel.tail = AllLines => n = 1)
    <3> DEFINE S == {1, printed + 1 - panel.tail}
    <3>1. S \subseteq Int
      BY <1>0
    <3>2. CASE printed + 1 - panel.tail <= 1
      <4>1. 1 \in S /\ \A i \in S : i <= 1
        BY <3>2
      <4>2. Max(S) = 1
        BY <3>1, <4>1, HighestIs
      <4> QED
        BY <4>2
    <3>3. CASE ~(printed + 1 - panel.tail <= 1)
      <4>1. printed + 1 - panel.tail \in S /\ \A i \in S : i <= printed + 1 - panel.tail
        BY <1>0, <3>3
      <4>2. Max(S) = printed + 1 - panel.tail
        BY <3>1, <4>1, HighestIs
      <4>3. panel.tail # AllLines
        BY <1>0, <3>3, EventLogAssumption
      <4> QED
        BY <1>0, <4>2, <4>3
    <3> QED
      BY <3>2, <3>3
  <2> HIDE DEF n
  <2>3. /\ stream' \in [pc : {"none", "polling", "paging", "resting", "direct", "deaf"}, cursor : Nat,
                         saw : BOOLEAN, pending : SUBSET Event, next : Int]
        /\ stream'.pc \in {"direct", "deaf"} /\ stream'.next = n
    BY <2>1, <2>2 DEF PanelInv, StreamOk
  <2>4. PanelOk'
    BY <1>0, <1>1, <2>1, <2>3 DEF PanelInv, PanelOk
  <2>5. panel.tail = AllLines => \A i \in Nat \ {0} : i < n => i \in shown
    BY <2>2
  <2>6. StreamOk'
    BY <1>0, <2>1, <2>2, <2>3, <2>5 DEF StreamOk
  <2> QED
    BY <1>0, <2>1, <2>4, <2>6, NotOver DEF PanelInv
<1>3. CASE SendsLine
  <2>1. /\ panel' = panel /\ row' = row /\ events' = events
        /\ shown' = shown \cup {stream.next}
        /\ stream.pc = "direct" /\ stream' = [stream EXCEPT !.next = @ + 1]
    BY <1>3 DEF SendsLine, job
  <2>2. /\ stream' \in [pc : {"none", "polling", "paging", "resting", "direct", "deaf"}, cursor : Nat,
                         saw : BOOLEAN, pending : SUBSET Event, next : Int]
        /\ stream'.pc = "direct" /\ stream'.next = stream.next + 1 /\ stream.next \in Int
    BY <2>1 DEF PanelInv, StreamOk
  <2>3. PanelOk'
    BY <1>0, <1>1, <2>1, <2>2 DEF PanelInv, PanelOk
  <2>4. panel.tail = AllLines => \A i \in Nat \ {0} : i < stream.next + 1 => i \in shown'
    BY <2>1, <2>2 DEF PanelInv, StreamOk
  <2>5. StreamOk'
    BY <1>0, <2>1, <2>2, <2>4 DEF StreamOk
  <2> QED
    BY <1>0, <2>1, <2>3, <2>5, NotOver DEF PanelInv
<1>4. CASE DirectEnds
  <2>1. /\ panel' = [panel EXCEPT !.es = "over"] /\ row' = "over" /\ shown' = shown
        /\ stream.pc = "direct" /\ stream.next > printed /\ stream' = NoStream
    BY <1>4 DEF DirectEnds, persist_job_finished
  <2>2. /\ panel' \in [es : {"connecting", "open", "closed", "over"}, tail : 0..AllLines,
                        url : Nat, last : Nat, mem : Nat]
        /\ panel'.es = "over" /\ panel'.url = panel.url /\ panel'.last = panel.last
        /\ panel'.mem = panel.mem /\ panel'.tail = panel.tail
    BY <1>0, <2>1
  <2>3. PanelOk'
    BY <1>0, <1>1, <2>1, <2>2 DEF PanelInv, PanelOk, NoStream
  <2>4. StreamOk'
    BY <2>1 DEF StreamOk, NoStream
  <2>5. PanelMissesNothing'
    <3> SUFFICES ASSUME panel.tail = AllLines, NEW e \in events', e.kind = "log"
                 PROVE  e.line \in shown \cup {0}
      BY <1>0, <2>1, <2>2 DEF PanelMissesNothing, LogEvents
    <3>1. e.line \in Nat /\ e.line <= printed
      BY <1>0, LogTypes DEF LogInv, Good, Top, Event
    <3>2. /\ stream.next \in Int
          /\ \A i \in Nat \ {0} : i < stream.next => i \in shown
      BY <2>1 DEF PanelInv, StreamOk
    <3> QED
      BY <1>0, <2>1, <3>1, <3>2
  <2> QED
    BY <2>3, <2>4, <2>5 DEF PanelInv
<1> QED
  BY <1>2, <1>3, <1>4

(* Every step. *)
LEMMA PanelGoesOn ==
    ASSUME LogInv, PanelInv, [Next]_vars
    PROVE  PanelInv'
<1>0. LogInv' /\ LogGrows
  BY LogStep
<1>1. CASE UNCHANGED <<stream, board>>
  BY <1>0, <1>1, PanelStays
<1>2. CASE \/ Prints \/ Exits \/ CloseRow \/ ProducerAttaches \/ ProducerStep
           \/ ProducerReadsError \/ ProducerDies \/ UNCHANGED vars
  <2>1. UNCHANGED <<stream, board>>
    BY <1>2 DEF Prints, Exits, CloseRow, ProducerAttaches, ProducerStep, ProducerReads, ProducerStores,
                ProducerStoresError, ProducerFinishes, ProducerReadsError, ProducerDies, vars
  <2> QED
    BY <1>1, <2>1
<1>3. CASE FetchesPage \/ FetchesNothing \/ Sleeps
  <2>1. UNCHANGED <<job, board>>
    BY <1>3 DEF FetchesPage, FetchesNothing, Sleeps
  <2> QED
    BY <1>3, <2>1, StreamMoves
<1>4. CASE SendsEvent
  <2>1. UNCHANGED job
    BY <1>4 DEF SendsEvent
  <2> QED
    BY <1>4, <2>1, EventSent
<1>5. CASE SendsEnd
  <2>1. UNCHANGED job
    BY <1>5 DEF SendsEnd
  <2>2. CASE Max(DoneIds) <= stream.cursor
    BY <1>5, <2>1, <2>2, EndSent
  <2>3. CASE ~(Max(DoneIds) <= stream.cursor)
    <3>1. Max(DoneIds) \in Int /\ stream.cursor \in Int
      <4>1. row = "over" /\ stream.cursor \in Nat
        BY <1>5 DEF SendsEnd, PanelInv, StreamOk
      <4>2. PICK d \in events : d.kind = "done" /\ \A e \in events : e.kind = "done" => e = d
        BY <4>1 DEF LogInv, DoneWith
      <4>3. d.id \in Nat /\ DoneIds = {d.id}
        BY <4>2, LogTypes DEF DoneIds
      <4>4. Max(DoneIds) = d.id
        BY <4>3, HighestIs
      <4> QED
        BY <4>1, <4>3, <4>4
    <3>2. Max(DoneIds) > stream.cursor
      BY <2>3, <3>1
    <3>3. stream' = [stream EXCEPT !.pc = "polling"] /\ UNCHANGED board
      BY <1>5, <3>2 DEF SendsEnd, board
    <3> QED
      BY <1>5, <2>1, <3>3, StreamMoves
  <2> QED
    BY <2>2, <2>3
<1>6. CASE FallsBack \/ SendsLine \/ DirectEnds
  BY <1>0, <1>6, DirectGoes
<1>7. CASE Drops \/ IsRefused \/ Reopens
  <2>1. UNCHANGED job
    BY <1>7 DEF Drops, IsRefused, Reopens
  <2> QED
    BY <1>7, <2>1, StreamGoes
<1>8. CASE Connects
  <2>1. UNCHANGED job
    BY <1>8 DEF Connects
  <2> QED
    BY <1>8, <2>1, PanelConnects
<1> QED
  BY <1>2, <1>3, <1>4, <1>5, <1>6, <1>7, <1>8 DEF Next, StreamStep, PanelStep

-----------------------------------------------------------------------------
(***************************************************************************)
(* What the panel has and what it is still to get.                         *)
(***************************************************************************)

(* The events in the table or on their way. *)
Coming == events \cup stream.pending

SeenOk ==
    /\ \A l \in shown : l \in Nat \ {0} /\ l <= printed
    /\ stream.pc # "paging" => stream.pending = {}
    /\ \A e \in Coming : e.line <= printed /\ (e.kind # "log" => e.line = 0)
    /\ stream.pc = "direct" => stream.next \in Nat \ {0}

(* Lines come in order, and those the panel has not been sent come after   *)
(* all it shows, those yet to be stored included.                          *)
Ahead ==
    /\ \A e, f \in Coming : e.line # 0 /\ f.line # 0 /\ e.id < f.id => e.line < f.line
    /\ \A l \in shown, f \in Coming : f.line # 0 /\ top < f.id => l < f.line
    /\ producer.pc # "off" => /\ \A l \in shown : l < producer.next
                              /\ \A e \in stream.pending : e.line < producer.next
    /\ top = 0 \/ events = {} => shown = {}

OnceInv ==
    /\ SeenOk
    /\ panel.url = 0 /\ direct # "lost" =>
          /\ ~repeated
          /\ stream.pc = "direct" => \A l \in shown : l < stream.next
          /\ panel.es # "over" /\ stream.pc # "direct" => Ahead

(* Nothing is shown at first. *)
LEMMA InitOnce == Init => OnceInv
<1> SUFFICES ASSUME Init PROVE OnceInv
  OBVIOUS
<1>1. /\ shown = {} /\ events = {} /\ stream.pending = {} /\ stream.pc = "none"
      /\ producer.pc = "off" /\ ~repeated
  BY DEF Init, NoStream
<1>2. Coming = {}
  BY <1>1 DEF Coming
<1>3. SeenOk
  BY <1>1, <1>2 DEF SeenOk
<1>4. Ahead
  BY <1>1, <1>2 DEF Ahead
<1> QED
  BY <1>1, <1>3, <1>4 DEF OnceInv

(* The events on their way are below the highest in the table. *)
LEMMA ComingTypes ==
    ASSUME LogInv, PanelInv, SeenOk
    PROVE  /\ Coming \subseteq Event /\ events \subseteq Coming /\ stream.pending \subseteq Coming
           /\ \A e \in Coming : e.id \in Nat \ {0} /\ e.line \in Nat
           /\ \A e \in Coming : \E f \in events : e.id <= f.id
<1>1. Coming \subseteq Event /\ events \subseteq Coming /\ stream.pending \subseteq Coming
  BY LogTypes DEF Coming, PanelInv, StreamOk
<1>2. \A e \in Coming : e.id \in Nat \ {0} /\ e.line \in Nat
  BY <1>1 DEF Event
<1>3. \A e \in stream.pending : \E f \in events : e.id <= f.id
  BY DEF SeenOk, PanelInv, StreamOk, PageOk
<1>4. \A e \in events : e.id <= e.id
  BY <1>1, <1>2
<1> QED
  BY <1>1, <1>2, <1>3, <1>4 DEF Coming

(* What the other processes may do to the table and to the producer. *)
NewLine(f) ==
    /\ f.kind = "log" /\ producer.pc # "off" /\ f.line = producer.next /\ f.line <= printed
    /\ producer'.next = producer.next + 1

ProducerGoes ==
    /\ printed' \in Nat /\ printed <= printed'
    /\ \A f \in events' : f \in events \/ f.line = 0 \/ NewLine(f)
    /\ producer'.pc # "off" =>
          \/ producer.pc # "off" /\ producer.next <= producer'.next
          \/ events' = events /\ (events = {} \/ producer'.next = printed + 1)

LEMMA ProducerMoves ==
    ASSUME LogInv,
           \/ Prints \/ Exits \/ CloseRow \/ DirectEnds \/ ProducerAttaches \/ ProducerStep
           \/ ProducerReadsError \/ ProducerDies \/ UNCHANGED <<events, printed, producer>>
    PROVE  ProducerGoes
<1>0. /\ printed \in Nat /\ producer.next \in Nat /\ printed <= printed
      /\ producer.next <= producer.next /\ producer.next <= producer.next + 1
  BY LogTypes DEF LogInv, ProducerOk
<1>1. ASSUME NEW S, NEW k, NEW l, NEW f \in Stored(S, k, l) PROVE f \in S \/ (f.line = l /\ f.kind = k)
  BY DEF Stored
<1>2. \A S : _prune_job_log_events(S) \subseteq S
  BY DEF _prune_job_log_events
<1>3. CASE Prints \/ Exits \/ UNCHANGED <<events, printed, producer>>
  BY <1>0, <1>3 DEF Prints, Exits, ProducerGoes
<1>4. CASE CloseRow \/ DirectEnds
  <2>1. UNCHANGED <<printed, producer>> /\ events' \in {events, Stored(events, "done", 0)}
    BY <1>4 DEF CloseRow, DirectEnds, persist_job_finished
  <2> QED
    BY <1>0, <1>1, <2>1 DEF ProducerGoes
<1>5. CASE ProducerAttaches
  <2>1. UNCHANGED <<printed, events>> /\ (events = {} \/ producer'.next = printed + 1)
    BY <1>5 DEF ProducerAttaches, job
  <2> QED
    BY <1>0, <2>1 DEF ProducerGoes
<1>6. CASE ProducerStores
  <2> DEFINE rows == Stored(events, "log", producer.next)
  <2>1. /\ printed' = printed /\ events' \in {rows, _prune_job_log_events(rows)}
        /\ producer.pc = "storing" /\ producer'.next = producer.next + 1
    BY <1>6 DEF ProducerStores
  <2>2. events' \subseteq rows
    BY <1>2, <2>1
  <2>3. producer.next <= printed
    BY <2>1 DEF LogInv, ProducerOk
  <2>4. \A f \in rows : f \in events \/ (f.line = producer.next /\ f.kind = "log")
    BY <1>1
  <2> HIDE DEF rows
  <2>5. \A f \in events' : f \in events \/ NewLine(f)
    BY <2>1, <2>2, <2>3, <2>4 DEF NewLine
  <2> QED
    BY <1>0, <2>1, <2>5 DEF ProducerGoes
<1>7. CASE ProducerStoresError \/ ProducerFinishes
  <2>1. printed' = printed /\ producer'.pc = "off"
    BY <1>7 DEF ProducerStoresError, ProducerFinishes, ProducerOff
  <2>2. \A f \in events' : f \in events \/ f.line = 0
    <3>1. CASE ProducerStoresError
      <4>1. events' = Stored(Stored(events, "job_error", 0), "log", 0)
        BY <3>1 DEF ProducerStoresError
      <4> QED
        BY <1>1, <4>1
    <3>2. CASE ProducerFinishes
      <4>1. events' \in {events, _prune_job_log_events(events),
                         _prune_job_log_events(Stored(events, "done", 0))}
        BY <3>2 DEF ProducerFinishes
      <4>2. events' \subseteq events \/ events' \subseteq Stored(events, "done", 0)
        BY <1>2, <4>1
      <4> QED
        BY <1>1, <4>2
    <3> QED
      BY <1>7, <3>1, <3>2
  <2> QED
    BY <1>0, <2>1, <2>2 DEF ProducerGoes
<1>8. CASE ProducerReads \/ ProducerReadsError \/ ProducerDies
  <2>1. /\ UNCHANGED <<printed, events>>
        /\ \/ producer' = [producer EXCEPT !.pc = "storing"] /\ producer.pc = "following"
           \/ producer' = [producer EXCEPT !.next = @ + 1] /\ producer.pc = "following"
           \/ producer' = [producer EXCEPT !.pc = "failing"] /\ producer.pc = "following"
           \/ producer' = ProducerOff
    BY <1>8 DEF ProducerReads, TakesLine, ProducerReadsError, ProducerDies, job
  <2>2. producer'.pc # "off" => producer.pc # "off" /\ producer.next <= producer'.next
    BY <1>0, <2>1 DEF ProducerOff, LogInv, ProducerOk
  <2> QED
    BY <1>0, <2>1, <2>2 DEF ProducerGoes
<1> QED
  BY <1>3, <1>4, <1>5, <1>6, <1>7, <1>8 DEF ProducerStep

(* They leave the panel where it was. *)
LEMMA OnceStays ==
    ASSUME LogInv, LogInv', LogGrows, PanelInv, OnceInv, ProducerGoes, UNCHANGED <<stream, board>>
    PROVE  OnceInv'
<1>0. /\ UNCHANGED <<stream, panel, shown, top, repeated, direct>>
      /\ printed \in Nat /\ printed' \in Nat /\ printed <= printed' /\ SeenOk
      /\ producer.next \in Nat
  BY LogTypes DEF board, ProducerGoes, OnceInv, LogInv, ProducerOk
<1>1. /\ Coming \subseteq Event /\ events \subseteq Coming /\ stream.pending \subseteq Coming
      /\ \A e \in Coming : e.id \in Nat \ {0} /\ e.line \in Nat
      /\ \A e \in Coming : \E f \in events : e.id <= f.id
  BY <1>0, ComingTypes
<1>2. /\ \A f \in Coming' : f \in Coming \/ (f \in events' /\ f \notin events)
      /\ \A f \in events' : f.id \in Nat \ {0} /\ f.line \in Nat /\ f.line <= printed'
      /\ \A f \in events' : f \in events \/ f.line = 0 \/ NewLine(f)
  <2>1. \A f \in events' : f.id \in Nat \ {0} /\ f.line \in Nat /\ f.line <= printed'
    BY DEF LogInv, Good, Top, Event
  <2> QED
    BY <1>0, <2>1 DEF Coming, ProducerGoes
<1>3. \A f \in events' : f \notin events => \A e \in Coming : e.id < f.id
  <2> SUFFICES ASSUME NEW f \in events', f \notin events, NEW e \in Coming PROVE e.id < f.id
    OBVIOUS
  <2>1. PICK g \in events : e.id <= g.id
    BY <1>1
  <2>2. g.id < f.id
    BY DEF LogGrows
  <2> QED
    BY <1>1, <1>2, <2>1, <2>2
<1>4. SeenOk'
  <2>1. \A f \in Coming' : f.line <= printed' /\ (f.kind # "log" => f.line = 0)
    <3> SUFFICES ASSUME NEW f \in Coming' PROVE f.line <= printed' /\ (f.kind # "log" => f.line = 0)
      OBVIOUS
    <3>1. CASE f \in Coming
      BY <1>0, <1>1, <3>1 DEF SeenOk
    <3>2. CASE f \in events' /\ f \notin events
      BY <1>2, <3>2 DEF NewLine
    <3> QED
      BY <1>2, <3>1, <3>2
  <2>2. \A l \in shown : l \in Nat \ {0} /\ l <= printed'
    BY <1>0 DEF SeenOk
  <2> QED
    BY <1>0, <2>1, <2>2 DEF SeenOk
<1>5. ASSUME Ahead PROVE Ahead'
  <2>1. ASSUME NEW f \in events', f \notin events, f.line # 0
        PROVE  /\ \A e \in Coming : e.line < f.line
               /\ \A l \in shown : l < f.line
    <3>1. NewLine(f)
      BY <1>2, <2>1
    <3>2. \A e \in stream.pending : e.line < f.line
      BY <1>5, <3>1 DEF Ahead, NewLine
    <3>3. \A e \in events : e.line < f.line
      <4>1. \A e \in LogEvents : e.line < producer.next
        BY <3>1 DEF LogInv, ProducerOk, NewLine
      <4>2. \A e \in events : e.kind = "log" \/ e.line = 0
        BY <1>0, <1>1 DEF SeenOk
      <4>3. f.line = producer.next /\ 0 < f.line
        BY <1>2, <2>1, <3>1 DEF NewLine
      <4> QED
        BY <4>1, <4>2, <4>3 DEF LogEvents
    <3>4. \A l \in shown : l < f.line
      BY <1>5, <3>1 DEF Ahead, NewLine
    <3> QED
      BY <3>2, <3>3, <3>4 DEF Coming
  <2>2. ASSUME NEW e \in Coming', NEW f \in Coming', e.line # 0, f.line # 0, e.id < f.id
        PROVE  e.line < f.line
    <3>1. CASE f \in Coming
      <4>1. e \in Coming
        BY <1>1, <1>2, <1>3, <2>2, <3>1
      <4> QED
        BY <1>5, <2>2, <3>1, <4>1 DEF Ahead
    <3>2. CASE f \notin Coming
      <4>1. f \in events' /\ f \notin events
        BY <1>2, <3>2
      <4>2. CASE e \in Coming
        BY <2>1, <2>2, <4>1, <4>2
      <4>3. CASE e \notin Coming
        <5>1. e \in events' /\ e \notin events
          BY <1>2, <4>3
        <5>2. e.kind = "log" /\ f.kind = "log"
          BY <1>2, <2>2, <4>1, <5>1 DEF NewLine
        <5> QED
          BY <2>2, <4>1, <5>1, <5>2 DEF LogInv, Good
      <4> QED
        BY <4>2, <4>3
    <3> QED
      BY <3>1, <3>2
  <2>3. ASSUME NEW l \in shown, NEW f \in Coming', f.line # 0, top < f.id PROVE l < f.line
    <3>1. CASE f \in Coming
      BY <1>5, <2>3, <3>1 DEF Ahead
    <3>2. CASE f \notin Coming
      BY <1>2, <2>1, <2>3, <3>2
    <3> QED
      BY <3>1, <3>2
  <2>4. top = 0 \/ events' = {} => shown = {}
    <3>1. events' = {} => events = {}
      BY DEF LogGrows
    <3> QED
      BY <1>5, <3>1 DEF Ahead
  <2>5. producer'.pc # "off" => /\ \A l \in shown : l < producer'.next
                                /\ \A e \in stream.pending : e.line < producer'.next
    <3> SUFFICES ASSUME producer'.pc # "off"
                 PROVE  /\ \A l \in shown : l < producer'.next
                        /\ \A e \in stream.pending : e.line < producer'.next
      OBVIOUS
    <3>0. producer'.next \in Nat
      BY DEF LogInv, ProducerOk
    <3>1. CASE producer.pc # "off" /\ producer.next <= producer'.next
      <4>1. /\ \A l \in shown : l \in Nat /\ l < producer.next
            /\ \A e \in stream.pending : e.line \in Nat /\ e.line < producer.next
        BY <1>0, <1>1, <1>5, <3>1 DEF Ahead, SeenOk
      <4> QED
        BY <1>0, <3>0, <3>1, <4>1
    <3>2. CASE events = {}
      <4>1. shown = {} /\ Coming = {}
        BY <1>1, <1>5, <3>2 DEF Ahead
      <4> QED
        BY <1>1, <4>1
    <3>3. CASE producer'.next = printed + 1
      <4>1. /\ \A l \in shown : l \in Nat /\ l <= printed
            /\ \A e \in stream.pending : e.line \in Nat /\ e.line <= printed
        BY <1>0, <1>1 DEF SeenOk
      <4> QED
        BY <1>0, <3>3, <4>1
    <3> QED
      BY <3>1, <3>2, <3>3 DEF ProducerGoes
  <2> QED
    BY <1>0, <2>2, <2>3, <2>4, <2>5 DEF Ahead
<1>6. /\ panel.url = 0 /\ direct # "lost" => ~repeated
      /\ panel.url = 0 /\ direct # "lost" /\ stream.pc = "direct" => \A l \in shown : l < stream.next
      /\ panel.url = 0 /\ direct # "lost" /\ panel.es # "over" /\ stream.pc # "direct" => Ahead
  BY DEF OnceInv
<1>7. \/ repeated' \/ ~repeated'
  OBVIOUS
<1>8. repeated' = repeated /\ panel' = panel /\ direct' = direct /\ stream' = stream /\ shown' = shown
  BY <1>0
<1> QED
  BY <1>4, <1>5, <1>6, <1>8, Zenon DEF OnceInv

(* The stream fetches, rests, sleeps, ends, or goes; the panel connects:   *)
(* nothing is sent, and of what is on its way nothing comes in.            *)
LEMMA OnceQuiet ==
    ASSUME LogInv, PanelInv, OnceInv, UNCHANGED <<job, producer, shown, top, repeated>>,
           panel.es # "over", stream'.pc # "direct",
           stream'.pending \subseteq events, stream'.pc # "paging" => stream'.pending = {},
           panel'.url = 0 => panel.url = 0,
           direct' # "lost" => direct # "lost" /\ stream.pc # "direct"
    PROVE  OnceInv'
<1>0. UNCHANGED <<events, printed, producer, shown, top>> /\ repeated' = repeated /\ SeenOk
  BY DEF job, OnceInv
<1>1. Coming' \subseteq Coming /\ stream'.pending \subseteq events
  BY <1>0 DEF Coming
<1>2. SeenOk'
  BY <1>0, <1>1 DEF SeenOk
<1>3. ASSUME Ahead PROVE Ahead'
  <2>1. producer.pc # "off" => \A e \in stream'.pending : e.line < producer.next
    <3> SUFFICES ASSUME producer.pc # "off", NEW e \in stream'.pending PROVE e.line < producer.next
      OBVIOUS
    <3>1. e \in events /\ (e.kind # "log" => e.line = 0)
      BY <1>0, <1>1 DEF SeenOk, Coming
    <3>2. CASE e.kind = "log"
      BY <3>1, <3>2 DEF LogInv, ProducerOk, LogEvents
    <3>3. CASE e.kind # "log"
      BY <3>1, <3>3 DEF LogInv, ProducerOk
    <3> QED
      BY <3>2, <3>3
  <2> QED
    BY <1>0, <1>1, <1>3, <2>1 DEF Ahead
<1>4. panel'.url = 0 /\ direct' # "lost" =>
         panel.url = 0 /\ direct # "lost" /\ stream.pc # "direct"
  OBVIOUS
<1>5. panel.url = 0 /\ direct # "lost" /\ stream.pc # "direct" => ~repeated /\ Ahead
  BY DEF OnceInv
<1>8. repeated' = repeated
  BY <1>0
<1>9. panel'.url = 0 /\ direct' # "lost" => Ahead'
  BY <1>3, <1>4, <1>5, Zenon
<1>10. ASSUME panel'.url = 0, direct' # "lost" PROVE ~repeated'
  <2>1. ~repeated
    BY <1>4, <1>5, <1>10, Zenon
  <2> QED
    BY <1>8, <2>1, SMT
<1>6. panel'.url = 0 /\ direct' # "lost" => ~repeated' /\ Ahead'
  BY <1>9, <1>10, Zenon
<1>7. stream'.pc # "direct"
  OBVIOUS
<1> QED
  BY <1>2, <1>6, <1>7, Zenon DEF OnceInv

(* An event is sent: one the panel has not been sent, of a line it does    *)
(* not show.                                                               *)
LEMMA OnceSent ==
    ASSUME LogInv, PanelInv, PanelInv', OnceInv, UNCHANGED job, SendsEvent
    PROVE  OnceInv'
<1>0. /\ UNCHANGED <<events, printed, producer, direct>> /\ stream.pc = "paging" /\ panel.es = "open"
      /\ SeenOk /\ stream.cursor \in Nat /\ top \in Nat /\ printed \in Nat
  BY LogTypes DEF SendsEvent, Receives, job, PanelInv, PanelOk, StreamOk, OnceInv
<1>1. PICK e \in stream.pending :
          /\ \A f \in stream.pending : e.id <= f.id
          /\ Receives(e)
          /\ stream' = IF e.kind = "done" THEN NoStream
                       ELSE [stream EXCEPT !.cursor = e.id, !.pending = @ \ {e},
                               !.pc = IF stream.pending = {e} THEN "polling" ELSE "paging"]
  BY DEF SendsEvent
<1>2. /\ Coming \subseteq Event /\ events \subseteq Coming /\ stream.pending \subseteq Coming
      /\ \A f \in Coming : f.id \in Nat \ {0} /\ f.line \in Nat
      /\ \A f \in Coming : \E g \in events : f.id <= g.id
  BY <1>0, ComingTypes
<1>3. /\ e \in Coming /\ e.id \in Nat \ {0} /\ e.line \in Nat /\ e.line <= printed
      /\ e.kind # "log" => e.line = 0
      /\ stream.cursor < e.id
      /\ panel.url = 0 => top < e.id
  <2>1. e \in Coming /\ e.id \in Nat \ {0} /\ e.line \in Nat
    BY <1>2
  <2>2. stream.cursor < e.id /\ (panel.url = 0 => top <= stream.cursor)
    BY <1>0 DEF PanelInv, StreamOk, PageOk
  <2>3. panel.url = 0 => top < e.id
    BY <1>0, <2>1, <2>2
  <2> QED
    BY <1>0, <2>1, <2>2, <2>3 DEF SeenOk
<1>4. /\ panel'.url = panel.url /\ shown' = shown \cup ({e.line} \ {0})
      /\ top' = Max({top, e.id})
      /\ repeated' = (repeated \/ e.line \in shown \/ (e.id <= top /\ e.kind # "done"))
      /\ panel'.es = IF e.kind = "done" THEN "over" ELSE panel.es
  BY <1>1 DEF Receives, PanelInv, PanelOk
<1>5. panel.url = 0 => top' = e.id
  <2> SUFFICES ASSUME panel.url = 0 PROVE Max({top, e.id}) = e.id
    BY <1>4
  <2>1. {top, e.id} \subseteq Int /\ \A i \in {top, e.id} : i <= e.id
    BY <1>0, <1>3
  <2> QED
    BY <2>1, HighestIs
<1>6. /\ stream'.pending = (IF e.kind = "done" THEN {} ELSE stream.pending \ {e})
      /\ stream'.pc # "paging" => stream'.pending = {}
      /\ stream'.pc # "direct"
  <2>1. CASE e.kind = "done"
    BY <1>1, <2>1 DEF NoStream
  <2>2. CASE e.kind # "done"
    <3>1. /\ stream'.pending = stream.pending \ {e}
          /\ stream'.pc = IF stream.pending = {e} THEN "polling" ELSE "paging"
      BY <1>1, <2>2 DEF PanelInv, StreamOk
    <3> QED
      BY <2>2, <3>1
  <2> QED
    BY <2>1, <2>2
<1>7. Coming' \subseteq Coming
  BY <1>0, <1>6 DEF Coming
<1>8. SeenOk'
  <2>1. \A l \in shown' : l \in Nat \ {0} /\ l <= printed
    BY <1>0, <1>3, <1>4 DEF SeenOk
  <2> QED
    BY <1>0, <1>6, <1>7, <2>1 DEF SeenOk
<1>9. ASSUME panel.url = 0, direct # "lost" PROVE ~repeated' /\ Ahead'
  <2>1. ~repeated /\ Ahead
    BY <1>0, <1>9 DEF OnceInv
  <2>2. e.line \notin shown
    <3>1. CASE e.line = 0
      BY <1>0, <3>1 DEF SeenOk
    <3>2. CASE e.line # 0
      <4>1. \A l \in shown : l < e.line /\ l \in Nat
        BY <1>0, <1>3, <1>9, <2>1, <3>2 DEF Ahead, SeenOk
      <4> QED
        BY <1>3, <4>1
    <3> QED
      BY <3>1, <3>2
  <2>3. ~(e.id <= top)
    BY <1>0, <1>3, <1>9
  <2>4. ~repeated'
    BY <1>4, <2>1, <2>2, <2>3, Zenon
  <2>5. ASSUME NEW l \in shown', NEW f \in Coming', f.line # 0, top' < f.id PROVE l < f.line
    <3>1. f \in Coming /\ e.id < f.id /\ f.id \in Nat
      BY <1>2, <1>5, <1>7, <1>9, <2>5
    <3>2. CASE l \in shown
      <4>1. top < f.id
        BY <1>0, <1>3, <1>9, <3>1
      <4> QED
        BY <2>1, <2>5, <3>1, <3>2, <4>1 DEF Ahead
    <3>3. CASE l = e.line /\ e.line # 0
      BY <1>3, <2>1, <2>5, <3>1, <3>3 DEF Ahead
    <3> QED
      BY <1>4, <3>2, <3>3
  <2>6. producer.pc # "off" => /\ \A l \in shown' : l < producer.next
                               /\ \A f \in stream'.pending : f.line < producer.next
    BY <1>4, <1>6, <2>1 DEF Ahead
  <2>7. top' # 0 /\ events # {}
    BY <1>2, <1>3, <1>5, <1>9
  <2>8. \A c, d \in Coming' : c.line # 0 /\ d.line # 0 /\ c.id < d.id => c.line < d.line
    BY <1>7, <2>1 DEF Ahead
  <2>9. Ahead'
    BY <1>0, <2>5, <2>6, <2>7, <2>8 DEF Ahead
  <2> QED
    BY <2>4, <2>9
<1> QED
  BY <1>0, <1>4, <1>6, <1>8, <1>9 DEF OnceInv

(* The fallback's first line, the next one, and its end. *)
LEMMA OnceDirect ==
    ASSUME LogInv, LogInv', LogGrows, PanelInv, OnceInv, FallsBack \/ SendsLine \/ DirectEnds
    PROVE  OnceInv'
<1>0. SeenOk /\ printed \in Nat
  BY LogTypes DEF OnceInv
<1>1. CASE FallsBack
  <2> DEFINE S == {1, printed + 1 - panel.tail}
             n == Max(S)
  <2>1. /\ UNCHANGED <<events, printed, producer, panel, shown, top>> /\ repeated' = repeated
        /\ stream.pc = "resting" /\ stream.cursor = 0 /\ panel.es = "open"
        /\ stream'.pc \in {"direct", "deaf"} /\ stream'.pending = stream.pending /\ stream'.next = n
        /\ direct' # "lost" => direct # "lost"
        /\ panel.tail \in Int /\ top \in Nat
    BY <1>1, EventLogAssumption DEF FallsBack, job, PanelInv, PanelOk, StreamOk
  <2>2. n \in Nat \ {0}
    <3>1. S \subseteq Int /\ \E m \in S : \A i \in S : i <= m
      BY <1>0, <2>1
    <3>2. PICK m \in S : \A i \in S : i <= m
      BY <3>1
    <3>3. 1 \in S
      OBVIOUS
    <3> HIDE DEF S
    <3>4. Max(S) = m
      BY <3>1, <3>2, HighestIs
    <3>5. m \in Int /\ 1 <= m
      BY <3>1, <3>2, <3>3
    <3> QED
      BY <3>4, <3>5
  <2> HIDE DEF n, S
  <2>3. SeenOk'
    BY <1>0, <2>1, <2>2 DEF SeenOk, Coming
  <2>4. ASSUME panel.url = 0, direct # "lost" PROVE ~repeated /\ Ahead /\ shown = {}
    <3>1. ~repeated /\ Ahead
      BY <2>1, <2>4 DEF OnceInv
    <3>2. top = 0
      BY <2>1, <2>4 DEF PanelInv, StreamOk
    <3> QED
      BY <3>1, <3>2 DEF Ahead
  <2>5. Ahead => Ahead'
    BY <2>1 DEF Ahead, Coming
  <2> QED
    BY <2>1, <2>3, <2>4, <2>5, Zenon DEF OnceInv
<1>2. CASE SendsLine
  <2>1. /\ UNCHANGED <<events, printed, producer, panel, top, direct>>
        /\ shown' = shown \cup {stream.next}
        /\ repeated' = (repeated \/ stream.next \in shown)
        /\ stream.pc = "direct" /\ stream.next <= printed
        /\ stream'.pc = "direct" /\ stream'.next = stream.next + 1 /\ stream'.pending = stream.pending
    BY <1>2 DEF SendsLine, job, PanelInv, StreamOk
  <2>2. stream.next \in Nat \ {0}
    BY <1>0, <2>1 DEF SeenOk
  <2>3. SeenOk'
    <3>1. \A l \in shown' : l \in Nat \ {0} /\ l <= printed
      BY <1>0, <2>1, <2>2 DEF SeenOk
    <3> QED
      BY <1>0, <2>1, <2>2, <3>1 DEF SeenOk, Coming
  <2>4. ASSUME panel.url = 0, direct # "lost" PROVE ~repeated' /\ \A l \in shown' : l < stream'.next
    <3>1. ~repeated /\ \A l \in shown : l < stream.next
      BY <2>1, <2>4 DEF OnceInv
    <3>2. \A l \in shown : l \in Nat
      BY <1>0 DEF SeenOk
    <3>3. stream.next \notin shown
      BY <2>2, <3>1, <3>2
    <3>4. ~repeated'
      BY <2>1, <3>1, <3>3, Zenon
    <3>5. \A l \in shown' : l < stream'.next
      BY <2>1, <2>2, <3>1, <3>2
    <3> QED
      BY <3>4, <3>5
  <2> QED
    BY <2>1, <2>3, <2>4 DEF OnceInv
<1>3. CASE DirectEnds
  <2>1. /\ stream' = NoStream /\ panel'.es = "over" /\ panel'.url = panel.url
        /\ UNCHANGED <<printed, shown, direct>> /\ repeated' = repeated
    BY <1>3 DEF DirectEnds, PanelInv, PanelOk
  <2>2. ProducerGoes
    BY <1>3, ProducerMoves
  <2>3. SeenOk'
    <3>1. \A f \in events' : f.line <= printed' /\ (f.kind # "log" => f.line = 0)
      <4> SUFFICES ASSUME NEW f \in events' PROVE f.line <= printed' /\ (f.kind # "log" => f.line = 0)
        OBVIOUS
      <4>1. f.line <= printed'
        BY DEF LogInv
      <4> QED
        BY <1>0, <2>2, <4>1 DEF ProducerGoes, NewLine, SeenOk, Coming
    <3> QED
      BY <1>0, <2>1, <3>1 DEF SeenOk, NoStream, Coming
  <2>4. panel.url = 0 /\ direct # "lost" => ~repeated
    BY DEF OnceInv
  <2>5. stream'.pc # "direct"
    BY <2>1 DEF NoStream
  <2> QED
    BY <2>1, <2>3, <2>4, <2>5, Zenon DEF OnceInv
<1> QED
  BY <1>1, <1>2, <1>3

(* Every step. *)
LEMMA OnceGoesOn ==
    ASSUME LogInv, LogInv', LogGrows, PanelInv, PanelInv', OnceInv, [Next]_vars
    PROVE  OnceInv'
<1>1. CASE \/ Prints \/ Exits \/ CloseRow \/ ProducerAttaches \/ ProducerStep
           \/ ProducerReadsError \/ ProducerDies \/ UNCHANGED vars
  <2>1. UNCHANGED <<stream, board>>
    BY <1>1 DEF Prints, Exits, CloseRow, ProducerAttaches, ProducerStep, ProducerReads, ProducerStores,
                ProducerStoresError, ProducerFinishes, ProducerReadsError, ProducerDies, vars
  <2>2. ProducerGoes
    <3>1. UNCHANGED vars => UNCHANGED <<events, printed, producer>>
      BY DEF vars, job
    <3> QED
      BY <1>1, <3>1, ProducerMoves
  <2> QED
    BY <2>1, <2>2, OnceStays
<1>2. CASE FetchesPage \/ FetchesNothing \/ Sleeps
  <2>1. /\ UNCHANGED <<job, producer, shown, top, repeated, panel, direct>> /\ stream.pc \in {"polling", "resting"}
        /\ stream'.pc \in {"polling", "paging", "resting"}
        /\ stream'.pc = "paging" => stream'.pending \subseteq events
        /\ stream'.pc # "paging" => stream'.pending = stream.pending
    BY <1>2 DEF FetchesPage, FetchesNothing, Sleeps, board, PendingEvents, PanelInv, StreamOk
  <2>2. stream.pending = {} /\ panel.es = "open"
    BY <2>1 DEF OnceInv, SeenOk, PanelInv, StreamOk
  <2> QED
    BY <2>1, <2>2, OnceQuiet
<1>3. CASE SendsEvent
  <2>1. UNCHANGED job
    BY <1>3 DEF SendsEvent
  <2> QED
    BY <1>3, <2>1, OnceSent
<1>4. CASE SendsEnd
  <2>1. /\ UNCHANGED <<job, producer, shown, top, repeated, direct>> /\ stream.pc = "resting"
        /\ panel'.url = panel.url
        /\ stream' = NoStream \/ stream' = [stream EXCEPT !.pc = "polling"]
    BY <1>4 DEF SendsEnd, PanelInv, PanelOk
  <2>2. stream.pending = {} /\ panel.es = "open"
    BY <2>1 DEF OnceInv, SeenOk, PanelInv, StreamOk
  <2>3. stream'.pc # "direct" /\ stream'.pending = {}
    BY <2>1, <2>2 DEF NoStream, PanelInv, StreamOk
  <2> QED
    BY <2>1, <2>2, <2>3, OnceQuiet
<1>5. CASE Drops \/ IsRefused \/ Reopens \/ Connects
  <2>1. /\ UNCHANGED <<job, producer, shown, top, repeated>>
        /\ panel.es # "over" /\ stream'.pc # "direct" /\ stream'.pc # "paging" /\ stream'.pending = {}
    <3>1. CASE Drops
      BY <3>1 DEF Drops, NoStream
    <3>2. CASE IsRefused \/ Reopens
      BY <3>2 DEF IsRefused, Reopens, OnceInv, SeenOk, PanelInv, StreamOk
    <3>3. CASE Connects
      <4>1. stream'.pc = "polling" /\ stream'.pending = {}
        <5> HIDE DEF Cursor
        <5> QED
          BY <3>3 DEF Connects, NoStream
      <4> QED
        BY <3>3, <4>1 DEF Connects
    <3> QED
      BY <1>5, <3>1, <3>2, <3>3
  <2>2. panel'.url = 0 => panel.url = 0
    <3>1. panel'.url = panel.url \/ panel'.url = panel.mem
      BY <1>5 DEF Drops, IsRefused, Reopens, Connects, PanelInv, PanelOk
    <3> QED
      BY <3>1 DEF PanelInv, PanelOk
  <2>3. direct' # "lost" => direct # "lost" /\ stream.pc # "direct"
    <3>1. CASE Drops
      BY <3>1 DEF Drops
    <3>2. CASE IsRefused \/ Reopens \/ Connects
      BY <3>2 DEF IsRefused, Reopens, Connects, PanelInv, StreamOk
    <3> QED
      BY <1>5, <3>1, <3>2
  <2> QED
    BY <2>1, <2>2, <2>3, OnceQuiet
<1>6. CASE FallsBack \/ SendsLine \/ DirectEnds
  BY <1>6, OnceDirect
<1> QED
  BY <1>1, <1>2, <1>3, <1>4, <1>5, <1>6 DEF Next, StreamStep, PanelStep

-----------------------------------------------------------------------------
(***************************************************************************)
(* The results.                                                            *)
(***************************************************************************)
(* What the table, the producer, the stream and the panel know of each     *)
(* other holds always.                                                     *)
THEOREM Invariant == Spec => [](LogInv /\ PanelInv /\ OnceInv)
<1>1. Init => LogInv /\ PanelInv /\ OnceInv
  BY InitLog, InitPanel, InitOnce
<1>2. LogInv /\ PanelInv /\ OnceInv /\ [Next]_vars => (LogInv /\ PanelInv /\ OnceInv)'
  BY LogStep, PanelGoesOn, OnceGoesOn
<1> QED
  BY <1>1, <1>2, PTL DEF Spec

(* The stored log has each printed line at most once and in order,         *)
(* whatever producers die and begin again.                                 *)
THEOREM LinesStored == Spec => []LinesInOrder
<1>1. LogInv => LinesInOrder
  BY DEF LogInv, Good, LinesInOrder, LogEvents
<1> QED
  BY <1>1, Invariant, PTL

(* After the done event at most the one turn of a producer is stored that  *)
(* had read the row before.                                                *)
THEOREM LateAreFew == Spec => []LateEvents
<1>1. LogInv => LateEvents
  BY DEF LogInv
<1> QED
  BY <1>1, Invariant, PTL

(* A panel that has its done event has shown every line stored before it   *)
(* from where it began, through any number of lost connections, reopened   *)
(* sources and prunings.                                                   *)
THEOREM NothingMissed == Spec => []PanelMissesNothing
<1>1. PanelInv => PanelMissesNothing
  BY DEF PanelInv
<1> QED
  BY <1>1, Invariant, PTL

(* Nothing is shown twice, with an id or without, before the panel has     *)
(* opened a source with an id in its URL or lost the fallback's stream.    *)
THEOREM RepeatsOnly == Spec => []RepeatsOnlyAfterReopen
<1>1. OnceInv => RepeatsOnlyAfterReopen
  BY DEF OnceInv, RepeatsOnlyAfterReopen
<1> QED
  BY <1>1, Invariant, PTL
=============================================================================
