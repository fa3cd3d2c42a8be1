----------------------------- MODULE ArchiveProofs ---------------------------
(***************************************************************************)
(* Properties of the three that read the archive, an animation, a scan and *)
(* the map of stations, for any archive, any range and any number of       *)
(* workers and requests.                                                   *)
(***************************************************************************)
EXTENDS MCHub, FiniteSetTheorems, NaturalsInduction, SequenceTheorems, WellFoundedInduction, TLAPS

hubVars == <<part, OfLimiter, accountsVars, containersVars, OfForms, OfRemoval, OfAnimation,
             basemapVars, OfClient, OfScan, OfPositions>>

-----------------------------------------------------------------------------
(***************************************************************************)
(* Quotients: the day and the frame of a time.                             *)
(***************************************************************************)
LEMMA Grows ==
    ASSUME NEW a \in Int, NEW b \in Int, a <= b, NEW k \in Nat
    PROVE  a * k <= b * k
<1>1. (b - a) * k >= 0
  OBVIOUS
<1>2. (b - a) * k = b * k - a * k
  OBVIOUS
<1>3. a * k \in Int /\ b * k \in Int
  OBVIOUS
<1> QED
  BY <1>1, <1>2, <1>3

LEMMA Quotient ==
    ASSUME NEW t \in Int, NEW k \in Nat \ {0}
    PROVE  /\ t \div k \in Int
           /\ (t \div k) * k <= t /\ t < (t \div k) * k + k
OBVIOUS

LEMMA QuotientIs ==
    ASSUME NEW t \in Int, NEW k \in Nat \ {0}, NEW q \in Int
    PROVE  /\ q * k <= t => q <= t \div k
           /\ t < q * k + k => t \div k <= q
<1> DEFINE d == t \div k
<1>0. d \in Int /\ d * k <= t /\ t < d * k + k /\ d * k \in Int /\ q * k \in Int
  BY Quotient
<1>1. d * k + k = (d + 1) * k /\ q * k + k = (q + 1) * k
  BY <1>0
<1> HIDE DEF d
<1>2. d + 1 <= q => d * k + k <= q * k
  BY <1>0, <1>1, Grows
<1>3. q + 1 <= d => q * k + k <= d * k
  BY <1>0, <1>1, Grows
<1>4. (q * k <= t => q <= d) /\ (t < q * k + k => d <= q)
  BY <1>0, <1>2, <1>3
<1> QED
  BY <1>4 DEF d

LEMMA QuotientsGrow ==
    ASSUME NEW t \in Int, NEW u \in Int, t <= u, NEW k \in Nat \ {0}
    PROVE  t \div k <= u \div k
<1>1. (t \div k) \in Int /\ (t \div k) * k <= u
  BY Quotient
<1> QED
  BY <1>1, QuotientIs

(* From one time to another there is at most one quotient more than fit in *)
(* between.                                                                *)
LEMMA QuotientsBetween ==
    ASSUME NEW t \in Int, NEW u \in Int, NEW k \in Nat \ {0}
    PROVE  (u \div k) - (t \div k) <= (u - t + k - 1) \div k
<1> DEFINE a == t \div k
           b == u \div k
<1>1. a \in Int /\ b \in Int /\ t < a * k + k /\ b * k <= u /\ a * k \in Int /\ b * k \in Int
  BY Quotient
<1>2. (b - a) * k = b * k - a * k
  BY <1>1
<1> HIDE DEF a, b
<1>3. (b - a) * k <= u - t + k - 1 /\ b - a \in Int /\ u - t + k - 1 \in Int
  BY <1>1, <1>2
<1>4. b - a <= (u - t + k - 1) \div k
  BY <1>3, QuotientIs
<1> QED
  BY <1>4 DEF a, b

-----------------------------------------------------------------------------
(***************************************************************************)
(* MapAnimation.                                                           *)
(***************************************************************************)
LEMMA SameCount == \A S : Animation!Cardinality(S) = Cardinality(S)
BY DEF Animation!Cardinality, Cardinality

(* Every time of the archive is in one of its days. *)
LEMMA DayOfTick ==
    ASSUME NEW t \in Animation!Ticks
    PROVE  t \in Int /\ t \div DayLength \in Days
<1> DEFINE n == Cardinality(Days)
<1>1. n \in Nat /\ Days = 0..(n - 1) /\ DayLength \in Nat \ {0}
  BY AnimationAssumption
<1>2. t \in 0..((n * DayLength) - 1)
  BY SameCount DEF Animation!Ticks
<1> HIDE DEF n
<1>3. n * DayLength \in Int /\ (n - 1) * DayLength = n * DayLength - DayLength
  BY <1>1
<1>4. t \in Int /\ 0 * DayLength <= t /\ t < (n - 1) * DayLength + DayLength
  BY <1>1, <1>2, <1>3
<1>5. t \div DayLength \in Int /\ 0 <= t \div DayLength /\ t \div DayLength <= n - 1
  <2>1. 0 \in Int /\ n - 1 \in Int
    BY <1>1
  <2>2. 0 <= t \div DayLength
    BY <1>1, <1>4, <2>1, QuotientIs
  <2>3. t \div DayLength <= n - 1
    BY <1>1, <1>4, <2>1, QuotientIs
  <2> QED
    BY <1>1, <1>4, <2>2, <2>3, Quotient
<1> QED
  BY <1>1, <1>4, <1>5

(* The usable samples of a day that a request asks for, those of the days  *)
(* that were seen, and all that it asks for.                               *)
DaysOf(rg) == {d \in Days : rg.from \div DayLength <= d /\ d <= rg.to \div DayLength}
Usable(a, rg, d) ==
    {row \in rg.stations \X (rg.from..rg.to) :
        /\ row[2] \in Animation!Ticks /\ row[2] \div DayLength = d
        /\ a[row[1]][d].folder /\ row[2] \in DOMAIN a[row[1]][d].rows
        /\ a[row[1]][d].rows[row[2]] \notin {"low", "void"}}
SummedIn(ld) == {d \in ld.seen : ld.ended[d] = "summed"}
SummaryOf(a, rg, ld) == UNION {Usable(a, rg, d) : d \in SummedIn(ld)}
WantedOf(a, rg) == UNION {Usable(a, rg, d) : d \in DaysOf(rg)}

TimesIn(rows0) == {Animation!FrameOf(row[2]) : row \in rows0}
FramesOf(rows0) ==
    {[time |-> f, rows |-> {row \in rows0 : Animation!FrameOf(row[2]) = f}] : f \in TimesIn(rows0)}

RequestOk(rg) ==
    /\ DOMAIN rg = {"pc", "why", "from", "to", "stations"}
    /\ rg.from \in Animation!Ticks /\ rg.to \in Animation!Ticks /\ rg.stations \subseteq Stations
    /\ rg.pc # "refused" => Animation!EstimatedFrames(rg.from, rg.to) <= MaxFrames

LoadOk(a, rg, ld) ==
    /\ DOMAIN ld = {"waiting", "flight", "ended", "seen"}
    /\ ld.ended = [d \in DOMAIN ld.ended |-> ld.ended[d]]
    /\ ld.waiting \cup ld.flight \cup ld.seen \subseteq DOMAIN ld.ended
    /\ ld.waiting \cap ld.flight = {}
    /\ \A d \in ld.waiting \cup ld.flight : ld.ended[d] = "no"
    /\ \A d \in ld.seen : ld.ended[d] \in {"skipped", "summed"}
    /\ \A d \in DOMAIN ld.ended :
          /\ ld.ended[d] \in {"no", "raises", "skipped", "summed"}
          /\ ld.ended[d] = "skipped" => Usable(a, rg, d) = {}
    /\ rg.pc = "none" => DOMAIN ld.ended = {}
    /\ rg.pc = "loading" => DOMAIN ld.ended = DaysOf(rg)

RenderOk(a, rg, rn) ==
    /\ DOMAIN rn = {"frames", "drawn", "shown"}
    /\ rn.frames = FramesOf(WantedOf(a, rg)) /\ rn.shown \in Seq(rn.frames)
    /\ \A i, j \in DOMAIN rn.shown : i < j => rn.shown[i].time < rn.shown[j].time
    /\ \A i \in DOMAIN rn.shown : \A f \in rn.frames :
          f \in {rn.shown[j] : j \in DOMAIN rn.shown} \/ rn.shown[i].time < f.time
    /\ rg.pc = "done" => \A f \in rn.frames : f \in {rn.shown[j] : j \in DOMAIN rn.shown}

AnimationOk(a, rg, ld, rn) ==
    /\ a \in Archives /\ LoadOk(a, rg, ld)
    /\ rg = [pc |-> "none"] \/ RequestOk(rg)
    /\ rg.pc \in {"drawing", "done"} => RenderOk(a, rg, rn)
    /\ rg.pc = "failed" /\ rg.why = "frames" =>
          Cardinality(TimesIn(SummaryOf(a, rg, ld))) = MaxFrames + 1

-----------------------------------------------------------------------------
(* The module's operators, by request, load and archive. *)
LEMMA AnimationNames ==
    /\ Animation!DaysAsked = DaysOf(range)
    /\ \A d : Animation!LeveledRows(d) = Usable(archive, range, d)
    /\ \A d : Animation!LoadedRows(d) = {} => Usable(archive, range, d) = {}
    /\ Animation!Summary = SummaryOf(archive, range, load)
    /\ Animation!Frames = TimesIn(Animation!Summary)
<1>1. Animation!DaysAsked = DaysOf(range)
  BY DEF Animation!DaysAsked, Animation!DayOf, DaysOf
<1>a. ASSUME NEW d, NEW row
      PROVE  row \in Animation!Rows(d) <=>
                /\ row \in range.stations \X Animation!Segment(d)
                /\ archive[row[1]][d].folder /\ row[2] \in DOMAIN archive[row[1]][d].rows
  BY DEF Animation!Rows, Animation!HasFolder
<1>b. ASSUME NEW d, NEW row, row \in range.stations \X Animation!Segment(d)
      PROVE  Animation!Kind(row) = archive[row[1]][d].rows[row[2]]
  BY <1>b DEF Animation!Kind, Animation!Segment, Animation!DayOf
<1>c. ASSUME NEW d, NEW row
      PROVE  row \in range.stations \X Animation!Segment(d) <=>
                /\ row \in range.stations \X (range.from..range.to)
                /\ row[2] \in Animation!Ticks /\ row[2] \div DayLength = d
  BY DEF Animation!Segment, Animation!DayOf, Animation!Ticks
<1>2. ASSUME NEW d, NEW row
      PROVE  /\ row \in Animation!LeveledRows(d) <=> row \in Usable(archive, range, d)
             /\ row \in Animation!LeveledRows(d) => row \in Animation!LoadedRows(d)
  BY <1>a, <1>b, <1>c DEF Animation!LeveledRows, Animation!LoadedRows, Usable
<1>3. \A d : Animation!LeveledRows(d) = Usable(archive, range, d)
  BY <1>2
<1>4. \A d : Animation!LoadedRows(d) = {} => Usable(archive, range, d) = {}
  BY <1>2
<1>5. Animation!Summary = SummaryOf(archive, range, load)
  BY <1>3 DEF Animation!Summary, Animation!Summed, SummaryOf, SummedIn
<1>6. Animation!Frames = TimesIn(Animation!Summary)
  BY DEF Animation!Frames, TimesIn
<1> QED
  BY <1>1, <1>3, <1>4, <1>5, <1>6

(* A request that comes to another state asks for the same. *)
ComesTo(rg, to, why, q) ==
    /\ DOMAIN q = {"pc", "why", "from", "to", "stations"} /\ q.pc = to /\ q.why = why
    /\ q.from = rg.from /\ q.to = rg.to /\ q.stations = rg.stations

LEMMA AsksTheSame ==
    ASSUME NEW rg, RequestOk(rg), NEW to, NEW why, to # "refused" => rg.pc # "refused",
           NEW q, ComesTo(rg, to, why, q)
    PROVE  /\ RequestOk(q) /\ q.pc = to /\ q.why = why /\ DaysOf(q) = DaysOf(rg)
           /\ \A a : WantedOf(a, q) = WantedOf(a, rg)
           /\ \A a, ld : SummaryOf(a, q, ld) = SummaryOf(a, rg, ld)
           /\ \A a, ld : LoadOk(a, rg, ld) /\ to \notin {"none", "loading"} => LoadOk(a, q, ld)
<1>1. /\ DOMAIN q = {"pc", "why", "from", "to", "stations"} /\ q.pc = to /\ q.why = why
      /\ q.from = rg.from /\ q.to = rg.to /\ q.stations = rg.stations
  BY DEF ComesTo
<1>2. RequestOk(q)
  BY <1>1 DEF RequestOk
<1>3. DaysOf(q) = DaysOf(rg) /\ \A a, d : Usable(a, q, d) = Usable(a, rg, d)
  BY <1>1 DEF DaysOf, Usable
<1>4. \A a : WantedOf(a, q) = WantedOf(a, rg)
  BY <1>3 DEF WantedOf
<1>5. \A a, ld : SummaryOf(a, q, ld) = SummaryOf(a, rg, ld)
  BY <1>3 DEF SummaryOf
<1>6. ASSUME NEW a, NEW ld, LoadOk(a, rg, ld), to \notin {"none", "loading"} PROVE LoadOk(a, q, ld)
  BY <1>1, <1>3, <1>6 DEF LoadOk
<1> QED
  BY <1>1, <1>2, <1>3, <1>4, <1>5, <1>6

(* Once every day was seen, what was summed is what was asked for. *)
LEMMA SeenIsWanted ==
    ASSUME NEW a, NEW rg, NEW ld, LoadOk(a, rg, ld), DOMAIN ld.ended = DaysOf(rg), ld.seen = DaysOf(rg)
    PROVE  SummaryOf(a, rg, ld) = WantedOf(a, rg)
<1>1. \A d \in ld.seen : d \in SummedIn(ld) \/ Usable(a, rg, d) = {}
  BY DEF LoadOk, SummedIn
<1>2. SummedIn(ld) \subseteq ld.seen
  BY DEF SummedIn
<1>3. \A row : row \in SummaryOf(a, rg, ld) <=> \E d \in SummedIn(ld) : row \in Usable(a, rg, d)
  BY DEF SummaryOf
<1>4. \A row : row \in WantedOf(a, rg) <=> \E d \in DaysOf(rg) : row \in Usable(a, rg, d)
  BY DEF WantedOf
<1>5. \A row : row \in SummaryOf(a, rg, ld) <=> row \in WantedOf(a, rg)
  BY <1>1, <1>2, <1>3, <1>4
<1> QED
  BY <1>5

(* The frames of what a request asks for are at most one more than the     *)
(* guard rails have counted.                                               *)
LEMMA FramesCounted ==
    ASSUME NEW rg, RequestOk(rg), rg.pc # "refused",
           NEW rows0, \A row \in rows0 : row[2] \in rg.from..rg.to
    PROVE  IsFiniteSet(TimesIn(rows0)) /\ Cardinality(TimesIn(rows0)) <= MaxFrames + 1
<1> DEFINE lo == rg.from \div FrameLength
           hi == rg.to \div FrameLength
           times == TimesIn(rows0)
           number == [f \in times |-> f \div FrameLength]
<1>1. rg.from \in Int /\ rg.to \in Int /\ FrameLength \in Nat \ {0} /\ MaxFrames \in Nat
  BY AnimationAssumption, DayOfTick DEF RequestOk
<1>2. lo \in Int /\ hi \in Int /\ hi - lo <= MaxFrames
  <2>1. hi - lo <= (rg.to - rg.from + FrameLength - 1) \div FrameLength
    BY <1>1, QuotientsBetween
  <2>2. (rg.to - rg.from + FrameLength - 1) \div FrameLength <= MaxFrames
    BY DEF RequestOk, Animation!EstimatedFrames, Animation!Ceil
  <2>3. lo \in Int /\ hi \in Int /\ (rg.to - rg.from + FrameLength - 1) \div FrameLength \in Int
    BY <1>1, Quotient
  <2> QED
    BY <1>1, <2>1, <2>2, <2>3
<1>3. ASSUME NEW f \in times
      PROVE  /\ f \div FrameLength \in lo..hi
             /\ f = (f \div FrameLength) * FrameLength
  <2>1. PICK row \in rows0 : f = (row[2] \div FrameLength) * FrameLength
    BY DEF TimesIn, Animation!FrameOf
  <2>2. row[2] \in Int /\ rg.from <= row[2] /\ row[2] <= rg.to
    BY <1>1
  <2> DEFINE q == row[2] \div FrameLength
  <2>3. q \in Int /\ lo <= q /\ q <= hi /\ q * FrameLength \in Int
    BY <1>1, <2>2, Quotient, QuotientsGrow
  <2>4. f = q * FrameLength
    BY <2>1
  <2> HIDE DEF q
  <2>5. f \div FrameLength = q
    <3>1. f \in Int /\ q * FrameLength <= f /\ f < q * FrameLength + FrameLength
      BY <1>1, <2>3, <2>4
    <3>2. f \div FrameLength \in Int /\ q <= f \div FrameLength /\ f \div FrameLength <= q
      BY <1>1, <2>3, <3>1, Quotient, QuotientIs
    <3> QED
      BY <2>3, <3>2
  <2> QED
    BY <1>2, <2>3, <2>4, <2>5
<1> HIDE DEF times, lo, hi
<1>4. number \in Injection(times, lo..hi)
  <2>1. number \in [times -> lo..hi]
    BY <1>3
  <2>2. ASSUME NEW f \in times, NEW g \in times, number[f] = number[g] PROVE f = g
    BY <1>3, <2>2
  <2> HIDE DEF number
  <2>3. \A f, g \in times : number[f] = number[g] => f = g
    BY <2>2
  <2> QED
    BY <2>1, <2>3 DEF Injection, IsInjective
<1>5. IsFiniteSet(lo..hi) /\ Cardinality(lo..hi) <= MaxFrames + 1 /\ Cardinality(lo..hi) \in Int
  <2>1. IsFiniteSet(lo..hi) /\ Cardinality(lo..hi) = IF lo > hi THEN 0 ELSE hi - lo + 1
    BY <1>2, FS_Interval
  <2> QED
    BY <1>1, <1>2, <2>1
<1>6. IsFiniteSet(times) /\ Cardinality(times) <= Cardinality(lo..hi)
  BY <1>4, <1>5, FS_Injection
<1>7. Cardinality(times) \in Nat
  BY <1>6, FS_CardinalityType
<1>8. IsFiniteSet(times) /\ Cardinality(times) <= MaxFrames + 1
  BY <1>1, <1>5, <1>6, <1>7
<1> QED
  BY <1>8 DEF times

(* What was summed are samples of the range. *)
LEMMA SummedInRange ==
    ASSUME NEW a, NEW rg, NEW ld
    PROVE  \A row \in SummaryOf(a, rg, ld) : row[2] \in rg.from..rg.to
<1>1. \A d : \A row \in Usable(a, rg, d) : row[2] \in rg.from..rg.to
  BY DEF Usable
<1> QED
  BY <1>1 DEF SummaryOf

(* Another frame is shown: the earliest of those that are left. *)
LEMMA Shows ==
    ASSUME NEW a, NEW rg, NEW rn, RenderOk(a, rg, rn), rg.pc # "done",
           NEW f \in rn.frames, f \notin {rn.shown[j] : j \in DOMAIN rn.shown},
           \A g \in rn.frames : g \in {rn.shown[j] : j \in DOMAIN rn.shown} \/ f.time <= g.time,
           NEW q, q = [rn EXCEPT !.shown = Append(@, f)]
    PROVE  RenderOk(a, rg, q)
<1> DEFINE n == Len(rn.shown)
<1>1. /\ DOMAIN q = {"frames", "drawn", "shown"} /\ q.frames = rn.frames /\ q.shown = Append(rn.shown, f)
      /\ rn.shown \in Seq(rn.frames) /\ rn.frames = FramesOf(WantedOf(a, rg))
  BY DEF RenderOk
<1>2. n \in Nat /\ DOMAIN rn.shown = 1..n /\ \A i \in 1..n : rn.shown[i] \in rn.frames
  BY <1>1
<1>3. /\ q.shown \in Seq(q.frames) /\ DOMAIN q.shown = 1..(n + 1) /\ q.shown[n + 1] = f
      /\ \A i \in 1..n : q.shown[i] = rn.shown[i]
  BY <1>1, <1>2
<1>4. \A g, h \in rn.frames : g.time = h.time => g = h
  <2>1. ASSUME NEW g \in rn.frames
        PROVE  g.rows = {row \in WantedOf(a, rg) : Animation!FrameOf(row[2]) = g.time}
               /\ g = [time |-> g.time, rows |-> g.rows]
    BY <1>1 DEF FramesOf
  <2>2. ASSUME NEW g \in rn.frames, NEW h \in rn.frames, g.time = h.time PROVE g = h
    <3>1. g.rows = h.rows
      BY <2>1, <2>2
    <3>2. g = [time |-> g.time, rows |-> g.rows] /\ h = [time |-> h.time, rows |-> h.rows]
      BY <2>1
    <3> QED
      BY <2>2, <3>1, <3>2
  <2> QED
    BY <2>2
<1>5. \A g \in rn.frames : g.time \in Int
  <2>1. \A g \in rn.frames : g.time \in TimesIn(WantedOf(a, rg))
    BY <1>1 DEF FramesOf
  <2>2. ASSUME NEW t \in TimesIn(WantedOf(a, rg)) PROVE t \in Int
    <3>1. PICK row \in WantedOf(a, rg) : t = (row[2] \div FrameLength) * FrameLength
      BY DEF TimesIn, Animation!FrameOf
    <3>2. row[2] \in Animation!Ticks
      BY DEF WantedOf, Usable
    <3>3. row[2] \in Int /\ FrameLength \in Nat \ {0}
      BY <3>2, DayOfTick, AnimationAssumption
    <3>4. row[2] \div FrameLength \in Int
      BY <3>3, Quotient
    <3> QED
      BY <3>1, <3>3, <3>4
  <2> QED
    BY <2>1, <2>2
<1> HIDE DEF n
<1>6. {q.shown[j] : j \in DOMAIN q.shown} = {rn.shown[j] : j \in DOMAIN rn.shown} \cup {f}
  BY <1>2, <1>3
<1>7. \A i \in 1..n : rn.shown[i].time < f.time
  BY <1>2 DEF RenderOk
<1>8. \A i, j \in DOMAIN q.shown : i < j => q.shown[i].time < q.shown[j].time
  <2>1. \A i, j \in 1..n : i < j => rn.shown[i].time < rn.shown[j].time
    BY <1>2 DEF RenderOk
  <2> QED
    BY <1>2, <1>3, <1>7, <2>1
<1>9. ASSUME NEW i \in DOMAIN q.shown, NEW g \in q.frames, g \notin {q.shown[j] : j \in DOMAIN q.shown}
      PROVE  q.shown[i].time < g.time
  <2>1. g # f /\ g \in rn.frames /\ g \notin {rn.shown[j] : j \in DOMAIN rn.shown}
    BY <1>1, <1>6, <1>9
  <2>2. f.time < g.time
    BY <1>4, <1>5, <2>1
  <2>3. \A k \in 1..n : rn.shown[k].time < g.time
    BY <1>2, <2>1 DEF RenderOk
  <2> QED
    BY <1>2, <1>3, <2>2, <2>3
<1>10. rg.pc = "done" => \A g \in q.frames : g \in {q.shown[j] : j \in DOMAIN q.shown}
  OBVIOUS
<1> QED
  BY <1>1, <1>3, <1>8, <1>9, <1>10 DEF RenderOk

(* One step. *)
LEMMA AnimationStep ==
    ASSUME AnimationOk(archive, range, load, render), [Animation!Next]_OfAnimation
    PROVE  AnimationOk(archive', range', load', render')
<1>0. /\ archive \in Archives /\ LoadOk(archive, range, load)
      /\ range = [pc |-> "none"] \/ RequestOk(range)
      /\ range.pc \in {"drawing", "done"} => RenderOk(archive, range, render)
      /\ range.pc = "failed" /\ range.why = "frames" =>
            Cardinality(TimesIn(SummaryOf(archive, range, load))) = MaxFrames + 1
  BY DEF AnimationOk
<1>n. range.pc # "none" => RequestOk(range)
  BY <1>0
<1>e. ASSUME NEW to, NEW why, range.pc \in {"admitted", "loading", "drawing"}, ComesTo(range, to, why, range')
      PROVE  /\ RequestOk(range') /\ range'.pc = to /\ range'.why = why /\ DaysOf(range') = DaysOf(range)
             /\ WantedOf(archive, range') = WantedOf(archive, range)
             /\ SummaryOf(archive, range', load) = SummaryOf(archive, range, load)
             /\ to \notin {"none", "loading"} => LoadOk(archive, range', load)
  <2>1. RequestOk(range) /\ (to # "refused" => range.pc # "refused") /\ LoadOk(archive, range, load)
    BY <1>0, <1>n, <1>e
  <2> QED
    BY <1>e, <2>1, AsksTheSame
<1>1. CASE UNCHANGED OfAnimation
  <2>1. archive' = archive /\ range' = range /\ load' = load /\ render' = render
    BY <1>1 DEF OfAnimation
  <2> QED
    BY <2>1
<1>2. CASE Animation!_animation_request
  <2>1. PICK from \in Animation!Ticks, to \in Animation!Ticks, stations \in SUBSET Stations \ {{}} :
           range' = [pc |-> IF to >= from /\ Animation!Cardinality(stations) <= MaxStations
                               /\ Animation!EstimatedFrames(from, to) <= MaxFrames
                            THEN "admitted" ELSE "refused",
                     why |-> "request", from |-> from, to |-> to, stations |-> stations]
    BY <1>2 DEF Animation!_animation_request
  <2>2. range.pc = "none" /\ archive' = archive /\ load' = load
    BY <1>2 DEF Animation!_animation_request
  <2>3. RequestOk(range') /\ range'.pc \in {"admitted", "refused"}
    BY <2>1 DEF RequestOk
  <2>4. LoadOk(archive, range', load)
    BY <1>0, <2>2, <2>3 DEF LoadOk
  <2> QED
    BY <1>0, <2>2, <2>3, <2>4 DEF AnimationOk
<1>3. CASE Animation!RejectsStations
  <2>1. /\ range.pc = "admitted" /\ range' = [range EXCEPT !.pc = "refused", !.why = "stations"]
        /\ archive' = archive /\ load' = load
    BY <1>3 DEF Animation!RejectsStations, Animation!Ends
  <2>c. ComesTo(range, "refused", "stations", range')
    BY <1>n, <2>1 DEF ComesTo, RequestOk
  <2>2. RequestOk(range') /\ range'.pc = "refused" /\ LoadOk(archive, range', load)
    BY <1>e, <2>1, <2>c
  <2> QED
    BY <1>0, <2>1, <2>2 DEF AnimationOk
<1>4. CASE Animation!StartsLoading
  <2> DEFINE ended == [d \in DaysOf(range) |-> "no"]
             made == [Animation!NoLoad EXCEPT !.waiting = DaysOf(range), !.ended = ended]
  <2>1. /\ range.pc = "admitted" /\ range' = [range EXCEPT !.pc = "loading", !.why = "none"]
        /\ archive' = archive /\ load' = made
    BY <1>4, AnimationNames DEF Animation!StartsLoading, Animation!Ends
  <2>c. ComesTo(range, "loading", "none", range')
    BY <1>n, <2>1 DEF ComesTo, RequestOk
  <2>2. RequestOk(range') /\ range'.pc = "loading" /\ DaysOf(range') = DaysOf(range)
    BY <1>e, <2>1, <2>c
  <2>3. /\ DOMAIN made = {"waiting", "flight", "ended", "seen"}
        /\ made.waiting = DaysOf(range) /\ made.flight = {} /\ made.ended = ended /\ made.seen = {}
    BY DEF Animation!NoLoad
  <2>4. DOMAIN ended = DaysOf(range) /\ ended = [d \in DOMAIN ended |-> ended[d]]
        /\ \A d \in DaysOf(range) : ended[d] = "no"
    OBVIOUS
  <2> HIDE DEF made, ended
  <2>5. LoadOk(archive, range', made)
    BY <2>2, <2>3, <2>4 DEF LoadOk
  <2> QED
    BY <1>0, <2>1, <2>2, <2>5 DEF AnimationOk
<1>5. ASSUME NEW d \in Days, Animation!DayBegins(d)
      PROVE  AnimationOk(archive', range', load', render')
  <2>1. /\ range.pc = "loading" /\ d \in load.waiting /\ archive' = archive /\ range' = range
        /\ load' = [load EXCEPT !.waiting = @ \ {d}, !.flight = @ \cup {d}]
    BY <1>5 DEF Animation!DayBegins
  <2>2. /\ DOMAIN load' = {"waiting", "flight", "ended", "seen"}
        /\ load'.waiting = load.waiting \ {d} /\ load'.flight = load.flight \cup {d}
        /\ load'.ended = load.ended /\ load'.seen = load.seen
    BY <1>0, <2>1 DEF LoadOk
  <2>3. LoadOk(archive, range, load')
    BY <1>0, <2>1, <2>2 DEF LoadOk
  <2> QED
    BY <1>0, <2>1, <2>3 DEF AnimationOk
<1>6. ASSUME NEW d \in Days, Animation!DayEnds(d)
      PROVE  AnimationOk(archive', range', load', render')
  <2>1. PICK result \in Animation!day_frame_summary(d) :
           /\ d \in load.flight /\ archive' = archive /\ range' = range /\ render' = render
           /\ load' = [load EXCEPT !.flight = @ \ {d}, !.ended[d] = result]
    BY <1>6 DEF Animation!DayEnds
  <2> DEFINE ended == [load.ended EXCEPT ![d] = result]
  <2>2. /\ result \in {"no", "raises", "skipped", "summed"}
        /\ result = "skipped" => Usable(archive, range, d) = {}
    <3>1. Animation!Rows(d) = {} => Animation!LoadedRows(d) = {}
      BY DEF Animation!LoadedRows
    <3> QED
      BY <3>1, AnimationNames DEF Animation!day_frame_summary
  <2>3. /\ DOMAIN load' = {"waiting", "flight", "ended", "seen"}
        /\ load'.waiting = load.waiting /\ load'.flight = load.flight \ {d}
        /\ load'.ended = ended /\ load'.seen = load.seen
    BY <1>0, <2>1 DEF LoadOk
  <2>4. /\ DOMAIN ended = DOMAIN load.ended /\ ended = [e \in DOMAIN ended |-> ended[e]]
        /\ d \in DOMAIN ended /\ ended[d] = result
        /\ \A e \in DOMAIN ended \ {d} : ended[e] = load.ended[e]
    BY <1>0, <2>1 DEF LoadOk
  <2> HIDE DEF ended
  <2>5. d \notin load.waiting /\ d \notin load.seen
    BY <1>0, <2>1 DEF LoadOk
  <2>6. LoadOk(archive, range, load')
    BY <1>0, <2>2, <2>3, <2>4, <2>5 DEF LoadOk
  <2>7. SummaryOf(archive, range, load') = SummaryOf(archive, range, load)
    <3>1. SummedIn(load') = SummedIn(load)
      BY <1>0, <2>3, <2>4, <2>5 DEF SummedIn, LoadOk
    <3> QED
      BY <3>1 DEF SummaryOf
  <2> QED
    BY <1>0, <2>1, <2>6, <2>7 DEF AnimationOk
<1>7. ASSUME NEW d \in Days, Animation!DayIsSeen(d)
      PROVE  AnimationOk(archive', range', load', render')
  <2>1. /\ range.pc = "loading" /\ d \in DOMAIN load.ended /\ load.ended[d] # "no" /\ archive' = archive
        /\ RequestOk(range)
    BY <1>7, <1>n DEF Animation!DayIsSeen
  <2>2. CASE load.ended[d] = "raises"
    <3>1. /\ range' = [range EXCEPT !.pc = "failed", !.why = "day"]
          /\ load' = [load EXCEPT !.waiting = {}]
      BY <1>7, <2>2 DEF Animation!DayIsSeen, Animation!Ends
    <3>c. ComesTo(range, "failed", "day", range')
      BY <1>n, <2>1, <3>1 DEF ComesTo, RequestOk
    <3>2. /\ RequestOk(range') /\ range'.pc = "failed" /\ range'.why = "day"
          /\ LoadOk(archive, range', load)
      BY <1>e, <2>1, <3>c
    <3>3. /\ DOMAIN load' = {"waiting", "flight", "ended", "seen"}
          /\ load'.waiting = {} /\ load'.flight = load.flight
          /\ load'.ended = load.ended /\ load'.seen = load.seen
      BY <1>0, <3>1 DEF LoadOk
    <3>4. LoadOk(archive, range', load')
      BY <3>2, <3>3 DEF LoadOk
    <3> QED
      BY <1>0, <2>1, <3>2, <3>4 DEF AnimationOk
  <2>3. CASE load.ended[d] # "raises"
    <3>1. range' = range /\ load' = [load EXCEPT !.seen = @ \cup {d}]
      BY <1>7, <2>3 DEF Animation!DayIsSeen
    <3>2. /\ DOMAIN load' = {"waiting", "flight", "ended", "seen"}
          /\ load'.waiting = load.waiting /\ load'.flight = load.flight
          /\ load'.ended = load.ended /\ load'.seen = load.seen \cup {d}
      BY <1>0, <3>1 DEF LoadOk
    <3>3. load.ended[d] \in {"skipped", "summed"}
      BY <1>0, <2>1, <2>3 DEF LoadOk
    <3>4. LoadOk(archive, range, load')
      BY <1>0, <2>1, <3>2, <3>3 DEF LoadOk
    <3> QED
      BY <1>0, <2>1, <3>1, <3>4 DEF AnimationOk
  <2> QED
    BY <2>2, <2>3
<1>8. CASE Animation!HasNoSamples
  <2>1. /\ range.pc = "loading" /\ range' = [range EXCEPT !.pc = "failed", !.why = "empty"]
        /\ archive' = archive /\ load' = load
    BY <1>8 DEF Animation!HasNoSamples, Animation!Ends
  <2>c. ComesTo(range, "failed", "empty", range')
    BY <1>n, <2>1 DEF ComesTo, RequestOk
  <2>2. RequestOk(range') /\ range'.pc = "failed" /\ range'.why = "empty" /\ LoadOk(archive, range', load)
    BY <1>e, <2>1, <2>c
  <2> QED
    BY <1>0, <2>1, <2>2 DEF AnimationOk
<1>9. CASE Animation!RendererRefuses
  <2>1. /\ range.pc = "loading" /\ range' = [range EXCEPT !.pc = "failed", !.why = "frames"]
        /\ archive' = archive /\ load' = load
        /\ Cardinality(TimesIn(SummaryOf(archive, range, load))) > MaxFrames
    BY <1>9, AnimationNames, SameCount DEF Animation!RendererRefuses, Animation!IsLoaded, Animation!Ends
  <2>c. ComesTo(range, "failed", "frames", range')
    BY <1>n, <2>1 DEF ComesTo, RequestOk
  <2>2. /\ RequestOk(range') /\ range'.pc = "failed" /\ LoadOk(archive, range', load)
        /\ SummaryOf(archive, range', load) = SummaryOf(archive, range, load)
    BY <1>e, <2>1, <2>c
  <2> DEFINE times == TimesIn(SummaryOf(archive, range, load))
  <2>3. IsFiniteSet(times) /\ Cardinality(times) <= MaxFrames + 1
    BY <1>n, <2>1, SummedInRange, FramesCounted
  <2>4. Cardinality(times) \in Nat /\ MaxFrames \in Nat
    BY <2>3, FS_CardinalityType, AnimationAssumption
  <2>5. Cardinality(times) = MaxFrames + 1
    BY <2>1, <2>3, <2>4
  <2> QED
    BY <1>0, <2>1, <2>2, <2>5 DEF AnimationOk
<1>10. CASE Animation!ComputesGrids
  <2>1. /\ range.pc = "loading" /\ range' = [range EXCEPT !.pc = "drawing", !.why = "none"]
        /\ archive' = archive /\ load' = load /\ load.seen = DOMAIN load.ended
        /\ render' = [Animation!NoRender EXCEPT
                        !.frames = {[time |-> f, rows |-> Animation!Content(f)] : f \in Animation!Frames}]
    BY <1>10 DEF Animation!ComputesGrids, Animation!IsLoaded, Animation!Ends
  <2>c. ComesTo(range, "drawing", "none", range')
    BY <1>n, <2>1 DEF ComesTo, RequestOk
  <2>2. /\ RequestOk(range') /\ range'.pc = "drawing" /\ LoadOk(archive, range', load)
        /\ WantedOf(archive, range') = WantedOf(archive, range)
    BY <1>e, <2>1, <2>c
  <2>3. Animation!Summary = WantedOf(archive, range)
    <3>1. DOMAIN load.ended = DaysOf(range)
      BY <1>0, <2>1 DEF LoadOk
    <3> QED
      BY <1>0, <2>1, <3>1, AnimationNames, SeenIsWanted
  <2>4. \A f : Animation!Content(f) = {row \in WantedOf(archive, range) : Animation!FrameOf(row[2]) = f}
    BY <2>3 DEF Animation!Content
  <2>5. {[time |-> f, rows |-> Animation!Content(f)] : f \in Animation!Frames} = FramesOf(WantedOf(archive, range))
    BY <2>3, <2>4, AnimationNames DEF FramesOf
  <2>6. /\ DOMAIN render' = {"frames", "drawn", "shown"}
        /\ render'.frames = FramesOf(WantedOf(archive, range)) /\ render'.shown = << >>
    BY <2>1, <2>5 DEF Animation!NoRender
  <2>7. RenderOk(archive, range', render')
    BY <2>2, <2>6 DEF RenderOk
  <2> QED
    BY <1>0, <2>1, <2>2, <2>7 DEF AnimationOk
<1>11. ASSUME NEW f \in render.frames, Animation!_draw_frame_in_worker(f)
       PROVE  AnimationOk(archive', range', load', render')
  <2>1. /\ range.pc = "drawing" /\ archive' = archive /\ range' = range /\ load' = load
        /\ render' = [render EXCEPT !.drawn = @ \cup {f}]
    BY <1>11 DEF Animation!_draw_frame_in_worker
  <2>2. /\ DOMAIN render' = {"frames", "drawn", "shown"}
        /\ render'.frames = render.frames /\ render'.shown = render.shown
    BY <1>0, <2>1 DEF RenderOk
  <2>3. RenderOk(archive, range, render')
    BY <1>0, <2>1, <2>2 DEF RenderOk
  <2> QED
    BY <1>0, <2>1, <2>3 DEF AnimationOk
<1>12. ASSUME NEW f \in render.frames, Animation!Encodes(f)
       PROVE  AnimationOk(archive', range', load', render')
  <2>1. /\ range.pc = "drawing" /\ archive' = archive /\ range' = range /\ load' = load
        /\ render' = [render EXCEPT !.shown = Append(@, f)]
        /\ f \notin {render.shown[j] : j \in DOMAIN render.shown}
        /\ \A g \in render.frames : g \in {render.shown[j] : j \in DOMAIN render.shown} \/ f.time <= g.time
    BY <1>12 DEF Animation!Encodes, Animation!NextFrame, Animation!IsNext, Animation!Left, Animation!ToSet
  <2>2. RenderOk(archive, range, render')
    BY <1>0, <2>1, Shows
  <2> QED
    BY <1>0, <2>1, <2>2 DEF AnimationOk
<1>13. CASE Animation!DrawingFails
  <2>1. /\ range.pc = "drawing" /\ range' = [range EXCEPT !.pc = "failed", !.why = "drawing"]
        /\ archive' = archive /\ load' = load
    BY <1>13 DEF Animation!DrawingFails, Animation!Ends
  <2>c. ComesTo(range, "failed", "drawing", range')
    BY <1>n, <2>1 DEF ComesTo, RequestOk
  <2>2. RequestOk(range') /\ range'.pc = "failed" /\ range'.why = "drawing" /\ LoadOk(archive, range', load)
    BY <1>e, <2>1, <2>c
  <2> QED
    BY <1>0, <2>1, <2>2 DEF AnimationOk
<1>14. CASE Animation!AnimationIsDone
  <2>1. /\ range.pc = "drawing" /\ range' = [range EXCEPT !.pc = "done", !.why = "none"]
        /\ archive' = archive /\ load' = load /\ render' = render
        /\ \A f \in render.frames : f \in {render.shown[j] : j \in DOMAIN render.shown}
    BY <1>14 DEF Animation!AnimationIsDone, Animation!Ends, Animation!Left, Animation!ToSet
  <2>c. ComesTo(range, "done", "none", range')
    BY <1>n, <2>1 DEF ComesTo, RequestOk
  <2>2. /\ RequestOk(range') /\ range'.pc = "done" /\ LoadOk(archive, range', load)
        /\ WantedOf(archive, range') = WantedOf(archive, range)
    BY <1>e, <2>1, <2>c
  <2>3. RenderOk(archive, range', render)
    BY <1>0, <2>1, <2>2 DEF RenderOk
  <2> QED
    BY <1>0, <2>1, <2>2, <2>3 DEF AnimationOk
<1> QED
  BY <1>1, <1>2, <1>3, <1>4, <1>5, <1>6, <1>7, <1>8, <1>9, <1>10, <1>11, <1>12, <1>13, <1>14 DEF Animation!Next

(* What is wanted, read off the archive day by day. *)
LEMMA WantedByDay ==
    ASSUME archive \in Archives, RequestOk(range)
    PROVE  WantedOf(archive, range) = Animation!Wanted
<1>1. ASSUME NEW row, row \in WantedOf(archive, range) PROVE row \in Animation!Wanted
  <2>1. PICK d \in DaysOf(range) : row \in Usable(archive, range, d)
    BY <1>1 DEF WantedOf
  <2>2. /\ row \in range.stations \X (range.from..range.to) /\ row[2] \div DayLength = d
        /\ archive[row[1]][d].folder /\ row[2] \in DOMAIN archive[row[1]][d].rows
        /\ archive[row[1]][d].rows[row[2]] \notin {"low", "void"}
    BY <2>1 DEF Usable
  <2>3. d \in Days /\ row[1] \in Stations
    BY <2>1, <2>2 DEF DaysOf, RequestOk
  <2>4. archive[row[1]][d].rows[row[2]] = "good"
    BY <2>2, <2>3, AnimationAssumption
  <2> QED
    BY <2>2, <2>4 DEF Animation!Wanted, Animation!DayOf
<1>2. ASSUME NEW row, row \in Animation!Wanted PROVE row \in WantedOf(archive, range)
  <2> DEFINE d == row[2] \div DayLength
  <2>1. /\ row \in range.stations \X (range.from..range.to)
        /\ archive[row[1]][d].folder /\ row[2] \in DOMAIN archive[row[1]][d].rows
        /\ archive[row[1]][d].rows[row[2]] = "good"
    BY <1>2 DEF Animation!Wanted, Animation!DayOf
  <2>2. range.from \in Animation!Ticks /\ range.to \in Animation!Ticks
    BY DEF RequestOk
  <2>3. row[2] \in Animation!Ticks
    <3> DEFINE last == Animation!Cardinality(Days) * DayLength - 1
    <3>1. Animation!Ticks = 0..last /\ last \in Int
      BY SameCount, AnimationAssumption DEF Animation!Ticks
    <3> HIDE DEF last
    <3> QED
      BY <2>1, <2>2, <3>1
  <2>4. /\ range.from \in Int /\ range.to \in Int /\ row[2] \in Int /\ d \in Days
        /\ range.from <= row[2] /\ row[2] <= range.to
    BY <2>1, <2>2, <2>3, DayOfTick
  <2>5. range.from \div DayLength <= d /\ d <= range.to \div DayLength
    BY <2>4, QuotientsGrow, AnimationAssumption
  <2>6. row \in Usable(archive, range, d)
    BY <2>1, <2>3 DEF Usable
  <2>7. d \in DaysOf(range)
    BY <2>4, <2>5 DEF DaysOf
  <2> HIDE DEF d
  <2> QED
    BY <2>6, <2>7 DEF WantedOf
<1> QED
  BY <1>1, <1>2

(* An animation is the whole range or an error, for any archive of any     *)
(* stations and days, any range, lengths of a day and of a frame and any   *)
(* number of workers that load and draw.                                   *)
THEOREM RangeWhole == Spec => []RangeIsWhole
<1> DEFINE Inv == AnimationOk(archive, range, load, render)
<1>1. Init => Inv
  <2> SUFFICES ASSUME Init PROVE Inv
    OBVIOUS
  <2>1. /\ archive \in Archives /\ range = [pc |-> "none"] /\ load = Animation!NoLoad
    BY DEF Init, Animation!Init
  <2>2. /\ DOMAIN load = {"waiting", "flight", "ended", "seen"}
        /\ load.waiting = {} /\ load.flight = {} /\ load.ended = << >> /\ load.seen = {}
    BY <2>1 DEF Animation!NoLoad
  <2>3. LoadOk(archive, range, load)
    BY <2>1, <2>2 DEF LoadOk
  <2> QED
    BY <2>1, <2>3 DEF AnimationOk
<1>2. Inv /\ [Next]_hubVars => Inv'
  BY AnimationStep DEF Next, hubVars
<1>3. Inv => RangeIsWhole
  <2> SUFFICES ASSUME Inv PROVE RangeIsWhole
    OBVIOUS
  <2>1. ASSUME range.pc = "done"
        PROVE  /\ UNION {f.rows : f \in Animation!ToSet(render.shown)} = Animation!Wanted
               /\ \A i \in DOMAIN render.shown :
                     /\ render.shown[i].rows # {}
                     /\ \A row \in render.shown[i].rows : Animation!FrameOf(row[2]) = render.shown[i].time
                     /\ i > 1 => render.shown[i - 1].time < render.shown[i].time
    <3> DEFINE wanted == WantedOf(archive, range)
    <3>1. RequestOk(range) /\ RenderOk(archive, range, render) /\ archive \in Archives
      BY <2>1 DEF AnimationOk
    <3>2. wanted = Animation!Wanted
      BY <3>1, WantedByDay
    <3>3. render.frames = FramesOf(wanted) /\ render.shown \in Seq(render.frames)
      BY <3>1 DEF RenderOk
    <3>4. Animation!ToSet(render.shown) = render.frames
      <4>1. \A i \in DOMAIN render.shown : render.shown[i] \in render.frames
        BY <3>3
      <4> QED
        BY <2>1, <3>1, <4>1 DEF RenderOk, Animation!ToSet
    <3> HIDE DEF wanted
    <3>5. ASSUME NEW f \in FramesOf(wanted)
          PROVE  /\ f.time \in TimesIn(wanted)
                 /\ f.rows = {row \in wanted : Animation!FrameOf(row[2]) = f.time}
      BY DEF FramesOf
    <3>6. \A row \in wanted : \E f \in FramesOf(wanted) : row \in f.rows
      <4> SUFFICES ASSUME NEW row \in wanted PROVE \E f \in FramesOf(wanted) : row \in f.rows
        OBVIOUS
      <4> DEFINE t == Animation!FrameOf(row[2])
                 f == [time |-> t, rows |-> {r \in wanted : Animation!FrameOf(r[2]) = t}]
      <4>1. t \in TimesIn(wanted)
        BY DEF TimesIn
      <4>2. f \in FramesOf(wanted)
        BY <4>1 DEF FramesOf
      <4>3. row \in f.rows
        OBVIOUS
      <4> QED
        BY <4>2, <4>3
    <3>7. UNION {f.rows : f \in FramesOf(wanted)} = wanted
      BY <3>5, <3>6
    <3>8. ASSUME NEW f \in FramesOf(wanted)
          PROVE  f.rows # {} /\ \A row \in f.rows : Animation!FrameOf(row[2]) = f.time
      BY <3>5 DEF TimesIn
    <3>9. ASSUME NEW i \in DOMAIN render.shown
          PROVE  /\ render.shown[i] \in FramesOf(wanted)
                 /\ i > 1 => render.shown[i - 1].time < render.shown[i].time
      <4>1. DOMAIN render.shown = 1..Len(render.shown) /\ Len(render.shown) \in Nat
        BY <3>3
      <4>2. i > 1 => i - 1 \in DOMAIN render.shown /\ i - 1 < i
        BY <4>1
      <4> QED
        BY <3>1, <3>3, <4>2 DEF RenderOk
    <3> QED
      BY <3>2, <3>3, <3>4, <3>7, <3>8, <3>9
  <2>2. range.pc = "failed" /\ range.why = "frames" =>
           Animation!Cardinality(Animation!Frames) = MaxFrames + 1
    BY AnimationNames, SameCount DEF AnimationOk
  <2> QED
    BY <2>1, <2>2 DEF RangeIsWhole, Animation!RangeIsWhole
<1> QED
  BY <1>1, <1>2, <1>3, PTL DEF Spec, hubVars

-----------------------------------------------------------------------------
(***************************************************************************)
(* ArchiveScan.                                                            *)
(***************************************************************************)
OpenedBy(k, d, f) ==
    CASE k \in {"abstec", "tecsuite"} -> f.dirs
      [] k = "parquet_sat" /\ f.dirs # {} -> {Scan!Min(f.dirs)}
      [] k = "rinex" /\ f.flat = {} /\ d \in Months -> f.dirs
      [] OTHER -> {}

ListedBy(k, d, f, found) ==
    CASE k = "abstec" -> found
      [] k = "tecsuite" -> IF found # {} THEN found ELSE f.flat
      [] k = "parquet_sat" -> f.dirs
      [] k = "rinex" -> IF f.flat # {} THEN f.flat ELSE IF d \in Months THEN f.dirs ELSE {}
      [] OTHER -> {}

SatellitesBy(k, f, found) ==
    IF k # "parquet_sat" THEN {} ELSE IF f.dirs # {} THEN found ELSE f.flat

DayBy(k, d, f, found) ==
    k = "parquet" \/ ListedBy(k, d, f, found) # {} \/ SatellitesBy(k, f, found) # {}

(* Folder f of day d would be listed with a site (0 for none), as a file   *)
(* or not, if nobody touched it.                                           *)
ShowsSite(k, d, f, site, isFile) ==
    LET found == f.full \cap OpenedBy(k, d, f)
        sites == ListedBy(k, d, f, found)
    IN  /\ DayBy(k, d, f, found)
        /\ site \in IF sites = {} THEN {0} ELSE sites
        /\ isFile = (k = "tecsuite" /\ found = {})

IsShown(k, t, r) == r.day \in DOMAIN t.days /\ ShowsSite(k, r.day[2], t.days[r.day], r.site, r.isFile)

ScanKinds == {"abstec", "tecsuite", "parquet", "parquet_sat", "rinex"}

TreeOk(t) ==
    /\ DOMAIN t = {"years", "days"} /\ t.years \subseteq Years
    /\ DOMAIN t.days \subseteq Years \X DayFolders
    /\ \A p \in DOMAIN t.days : p[1] \in t.years /\ FolderOk(t.days[p])

WasThere(y, d, sites, se) == <<y, d>> \in se /\ \A s \in sites : <<y, d, s>> \in se

SeenOk(t, se) ==
    /\ \A q \in se : q[1] \in Years
    /\ \A y \in t.years : <<y>> \in se
    /\ \A p \in DOMAIN t.days : WasThere(p[1], p[2], t.days[p].dirs \cup t.days[p].flat, se)

YearsIn(se) == {q[1] : q \in se}

(* What a worker has listed was there, and what it is at.                  *)
WorkerFields == {"at", "todo", "day", "folder", "left", "found", "days"}
WorkerOk(k, y, w, se) ==
    /\ DOMAIN w = WorkerFields
    /\ w.at \in {"waits", "days", "sites", "found", "none", "raised"}
    /\ \A e \in w.days : WasThere(y, e.day, e.sites, se)
    /\ w.at \in {"waits", "none"} => w.days = {}
    /\ w.at = "sites" =>
          /\ WasThere(y, w.day, w.folder.dirs \cup w.folder.flat, se)
          /\ k \in {"abstec", "tecsuite"} => w.left \cup w.found \subseteq w.folder.dirs

(* A site that stays, of the day a worker is at, will be in its entry.     *)
Coming(k, w, r) ==
    CASE k = "abstec" -> r.site \in w.left \cup w.found
      [] k = "tecsuite" -> IF r.isFile THEN w.found = {} /\ r.site \in w.folder.flat
                                       ELSE r.site \in w.left \cup w.found
      [] OTHER -> /\ DayBy(k, w.day, w.folder, {})
                  /\ r.site = 0 \/ r.site \in ListedBy(k, w.day, w.folder, {})

HasSite(entries, r) == \E e \in entries : e.day = r.day[2] /\ (r.site = 0 \/ r.site \in e.sites)

(* What stays is in a worker's entries, or it is still to get there, or it *)
(* has raised.                                                             *)
Owed(k, w, r) ==
    \/ w.at \in {"waits", "raised"}
    \/ HasSite(w.days, r)
    \/ w.at \in {"days", "sites"} /\ r.day[2] \in w.todo
    \/ w.at = "sites" /\ w.day = r.day[2] /\ Coming(k, w, r)

WorkOk(k, w0, st, se) ==
    /\ \A y \in DOMAIN w0 : WorkerOk(k, y, w0[y], se)
    /\ \A y \in DOMAIN w0 : \A r \in st : r.day[1] = y => Owed(k, w0[y], r)

ListingOk(l0, st, se) ==
    /\ \A y \in DOMAIN l0 : \A e \in l0[y] : WasThere(y, e.day, e.sites, se)
    /\ \A r \in st : r.day[1] \in Scan!Newest(YearsIn(se)) =>
          r.day[1] \in DOMAIN l0 /\ HasSite(l0[r.day[1]], r)

ScanOk(t, k, w0, l0, ph, st, se) ==
    /\ TreeOk(t) /\ SeenOk(t, se) /\ WorkOk(k, w0, st, se)
    /\ k \in ScanKinds /\ \A r \in st : IsShown(k, t, r)
    /\ ph # "root" => \A r \in st : r.day[1] \in Scan!Newest(YearsIn(se)) => r.day[1] \in DOMAIN w0
    /\ ph = "ended" => ListingOk(l0, st, se)

-----------------------------------------------------------------------------
(* The module's operators, by the kind of the scan. *)
LEMMA ScanNames ==
    /\ \A d, f : Scan!Opened(d, f) = OpenedBy(kind, d, f)
    /\ \A d, f, found : Scan!Listed(d, f, found) = ListedBy(kind, d, f, found)
    /\ \A f, found : Scan!Satellites(f, found) = SatellitesBy(kind, f, found)
    /\ \A d, f, found : Scan!DayIsListed(d, f, found) <=> DayBy(kind, d, f, found)
<1>1. \A d, f : Scan!Opened(d, f) = OpenedBy(kind, d, f)
  BY DEF Scan!Opened, OpenedBy
<1>2. \A d, f, found : Scan!Listed(d, f, found) = ListedBy(kind, d, f, found)
  BY DEF Scan!Listed, ListedBy
<1>3. \A f, found : Scan!Satellites(f, found) = SatellitesBy(kind, f, found)
  BY DEF Scan!Satellites, SatellitesBy
<1>4. \A d, f, found : Scan!DayIsListed(d, f, found) <=> DayBy(kind, d, f, found)
  BY <1>2, <1>3 DEF Scan!DayIsListed, DayBy
<1> QED
  BY <1>1, <1>2, <1>3, <1>4

(* What a listing shows, one by one. *)
LEMMA ShownNames ==
    ASSUME NEW t, NEW r, r \in Scan!Shown(t)
    PROVE  IsShown(kind, t, r)
<1> DEFINE Found(p) == t.days[p].full \cap Scan!Opened(p[2], t.days[p])
           SitesAt(p) == Scan!Listed(p[2], t.days[p], Found(p))
           Entries(p) == IF ~Scan!DayIsListed(p[2], t.days[p], Found(p)) THEN {}
                         ELSE [day : {p}, site : IF SitesAt(p) = {} THEN {0} ELSE SitesAt(p),
                               isFile : {kind = "tecsuite" /\ Found(p) = {}}]
<1>1. Scan!Shown(t) = UNION {Entries(p) : p \in DOMAIN t.days}
  BY DEF Scan!Shown
<1>2. PICK p \in DOMAIN t.days : r \in Entries(p)
  <2> HIDE DEF Entries
  <2> QED
    BY <1>1
<1>3. /\ Scan!DayIsListed(p[2], t.days[p], Found(p))
      /\ r \in [day : {p}, site : IF SitesAt(p) = {} THEN {0} ELSE SitesAt(p),
                isFile : {kind = "tecsuite" /\ Found(p) = {}}]
  <2> HIDE DEF Found, SitesAt
  <2> QED
    BY <1>2
<1>4. /\ r.day = p /\ r.site \in IF SitesAt(p) = {} THEN {0} ELSE SitesAt(p)
      /\ r.isFile = (kind = "tecsuite" /\ Found(p) = {})
  <2> HIDE DEF Found, SitesAt
  <2> QED
    BY <1>3
<1>5. Found(p) = t.days[p].full \cap OpenedBy(kind, p[2], t.days[p])
  BY ScanNames
<1>6. SitesAt(p) = ListedBy(kind, p[2], t.days[p], Found(p))
  <2> HIDE DEF Found
  <2> QED
    BY ScanNames
<1>7. DayBy(kind, p[2], t.days[p], Found(p))
  <2> HIDE DEF Found
  <2> QED
    BY <1>3, ScanNames
<1> HIDE DEF Found, SitesAt, Entries
<1> QED
  BY <1>4, <1>5, <1>6, <1>7 DEF IsShown, ShowsSite

(* What one folder would list is of that day and year. *)
LEMMA DayOfShown ==
    ASSUME NEW t, NEW k, NEW r, TreeOk(t), IsShown(k, t, r)
    PROVE  /\ r.day = <<r.day[1], r.day[2]>> /\ r.day \in DOMAIN t.days
           /\ r.day[1] \in t.years /\ FolderOk(t.days[r.day])
<1>1. r.day \in DOMAIN t.days
  BY DEF IsShown
<1>2. r.day \in Years \X DayFolders
  BY <1>1 DEF TreeOk
<1> QED
  BY <1>1, <1>2 DEF TreeOk

(* A year among the newest is among the newest of fewer. *)
LEMMA NewestShrinks ==
    ASSUME NEW S, NEW T, S \subseteq T, T \subseteq Years, NEW y \in S, y \in Scan!Newest(T)
    PROVE  y \in Scan!Newest(S)
<1>1. \A U : Scan!Cardinality(U) = Cardinality(U)
  BY DEF Scan!Cardinality, Cardinality
<1>2. CASE MaxYears = 0
  BY <1>2 DEF Scan!Newest
<1>3. CASE MaxYears # 0
  <2> DEFINE late0 == {z \in T : z > y}
             late1 == {z \in S : z > y}
  <2>1. Scan!Cardinality(late0) < MaxYears
    BY <1>3 DEF Scan!Newest
  <2>2. late1 \subseteq late0 /\ late0 \subseteq Years
    OBVIOUS
  <2>3. IsFiniteSet(Years) /\ MaxYears \in Nat
    BY ScanAssumption
  <2>4. IsFiniteSet(late0)
    <3> HIDE DEF late0, late1
    <3> QED
      BY <2>2, <2>3, FS_Subset
  <2>5. Cardinality(late1) <= Cardinality(late0) /\ Cardinality(late0) \in Nat /\ Cardinality(late1) \in Nat
    <3> HIDE DEF late0, late1
    <3> QED
      BY <2>2, <2>4, FS_Subset, FS_CardinalityType
  <2>6. Scan!Cardinality(late1) < MaxYears
    <3> HIDE DEF late0, late1
    <3> QED
      BY <2>1, <2>3, <2>5, <1>1
  <2> QED
    BY <1>3, <2>6 DEF Scan!Newest
<1> QED
  BY <1>2, <1>3

-----------------------------------------------------------------------------
(* A worker's next state. *)
WorkerIs(w, at, todo, day, folder1, left, found, days) ==
    /\ DOMAIN w = WorkerFields /\ w.at = at /\ w.todo = todo /\ w.day = day
    /\ w.folder = folder1 /\ w.left = left /\ w.found = found /\ w.days = days

KeepsOwed(k, t, y, w, w1) ==
    \A r : IsShown(k, t, r) /\ r.day[1] = y /\ Owed(k, w, r) => Owed(k, w1, r)

(* A worker that waits lists its year: its days, without sites, or what is  *)
(* there to list.                                                           *)
LEMMA YearListed ==
    ASSUME NEW k \in ScanKinds, NEW t, NEW se, NEW y, NEW w, NEW w1, NEW days,
           TreeOk(t), SeenOk(t, se), WorkerOk(k, y, w, se), w.at = "waits",
           days = {p[2] : p \in {q \in DOMAIN t.days : q[1] = y}},
           \/ /\ y \notin t.years
              /\ \E at \in {"raised", "none"} : WorkerIs(w1, at, w.todo, w.day, w.folder, w.left, w.found, w.days)
           \/ /\ k = "parquet"
              /\ WorkerIs(w1, "days", w.todo, w.day, w.folder, w.left, w.found,
                          {[day |-> d, sites |-> {}, satellites |-> {}] : d \in days})
           \/ WorkerIs(w1, "days", days, w.day, w.folder, w.left, w.found, w.days)
    PROVE  WorkerOk(k, y, w1, se) /\ KeepsOwed(k, t, y, w, w1)
<1>1. CASE y \notin t.years /\ \E at \in {"raised", "none"} :
             WorkerIs(w1, at, w.todo, w.day, w.folder, w.left, w.found, w.days)
  <2>1. WorkerOk(k, y, w1, se)
    BY <1>1 DEF WorkerOk, WorkerIs
  <2>2. KeepsOwed(k, t, y, w, w1)
    BY <1>1, DayOfShown DEF KeepsOwed
  <2> QED
    BY <2>1, <2>2
<1>2. \A r : IsShown(k, t, r) /\ r.day[1] = y => r.day[2] \in days
  BY DayOfShown
<1>3. CASE /\ k = "parquet"
           /\ WorkerIs(w1, "days", w.todo, w.day, w.folder, w.left, w.found,
                       {[day |-> d, sites |-> {}, satellites |-> {}] : d \in days})
  <2>1. ASSUME NEW e \in w1.days PROVE e.sites = {} /\ e.day \in days
    BY <1>3 DEF WorkerIs
  <2>2. ASSUME NEW d \in days PROVE <<y, d>> \in se /\ \E e \in w1.days : e.day = d
    <3>1. PICK p \in DOMAIN t.days : p[1] = y /\ p[2] = d
      OBVIOUS
    <3>2. <<y, d>> \in se
      BY <3>1 DEF SeenOk, WasThere
    <3>3. [day |-> d, sites |-> {}, satellites |-> {}] \in w1.days
      BY <1>3 DEF WorkerIs
    <3> QED
      BY <3>2, <3>3
  <2>3. \A e \in w1.days : WasThere(y, e.day, e.sites, se)
    BY <2>1, <2>2 DEF WasThere
  <2>4. WorkerOk(k, y, w1, se)
    BY <1>3, <2>3 DEF WorkerOk, WorkerIs
  <2>5. ASSUME NEW r, IsShown(k, t, r), r.day[1] = y PROVE r.site = 0 /\ r.day[2] \in days
    BY <1>2, <1>3, <2>5 DEF IsShown, ShowsSite, ListedBy
  <2>6. KeepsOwed(k, t, y, w, w1)
    BY <2>2, <2>5 DEF KeepsOwed, Owed, HasSite
  <2> QED
    BY <2>4, <2>6
<1>4. CASE WorkerIs(w1, "days", days, w.day, w.folder, w.left, w.found, w.days)
  <2>1. WorkerOk(k, y, w1, se)
    BY <1>4 DEF WorkerOk, WorkerIs
  <2>2. KeepsOwed(k, t, y, w, w1)
    BY <1>2, <1>4 DEF KeepsOwed, Owed, WorkerIs
  <2> QED
    BY <2>1, <2>2
<1> QED
  BY <1>1, <1>3, <1>4

(* The day it lists next is gone: nothing of it stayed. *)
LEMMA DayMissed ==
    ASSUME NEW k \in ScanKinds, NEW t, NEW se, NEW y, NEW w, NEW w1, NEW d,
           TreeOk(t), WorkerOk(k, y, w, se), w.at = "days", d \in w.todo, <<y, d>> \notin DOMAIN t.days,
           \/ WorkerIs(w1, "raised", w.todo, w.day, w.folder, w.left, w.found, w.days)
           \/ WorkerIs(w1, "days", w.todo \ {d}, w.day, w.folder, w.left, w.found, w.days)
    PROVE  WorkerOk(k, y, w1, se) /\ KeepsOwed(k, t, y, w, w1)
<1>1. CASE WorkerIs(w1, "raised", w.todo, w.day, w.folder, w.left, w.found, w.days)
  BY <1>1 DEF WorkerOk, WorkerIs, KeepsOwed, Owed
<1>2. CASE WorkerIs(w1, "days", w.todo \ {d}, w.day, w.folder, w.left, w.found, w.days)
  <2>1. WorkerOk(k, y, w1, se)
    BY <1>2 DEF WorkerOk, WorkerIs
  <2>2. \A r : IsShown(k, t, r) /\ r.day[1] = y => r.day[2] # d
    BY DayOfShown
  <2>3. KeepsOwed(k, t, y, w, w1)
    BY <1>2, <2>2 DEF KeepsOwed, Owed, WorkerIs
  <2> QED
    BY <2>1, <2>3
<1> QED
  BY <1>1, <1>2

(* It lists a day: what the day shows now is coming. *)
LEMMA DayListed ==
    ASSUME NEW k \in ScanKinds, NEW t, NEW se, NEW y, NEW w, NEW w1, NEW d, NEW f,
           TreeOk(t), SeenOk(t, se), WorkerOk(k, y, w, se), w.at = "days", d \in w.todo,
           <<y, d>> \in DOMAIN t.days, f = t.days[<<y, d>>],
           WorkerIs(w1, "sites", w.todo \ {d}, d, f, OpenedBy(k, d, f), {}, w.days)
    PROVE  WorkerOk(k, y, w1, se) /\ KeepsOwed(k, t, y, w, w1)
<1>1. WasThere(y, d, f.dirs \cup f.flat, se)
  BY DEF SeenOk
<1>2. k \in {"abstec", "tecsuite"} => OpenedBy(k, d, f) = f.dirs
  BY DEF OpenedBy
<1>3. WorkerOk(k, y, w1, se)
  BY <1>1, <1>2 DEF WorkerOk, WorkerIs
<1>4. ASSUME NEW r, IsShown(k, t, r), r.day[1] = y, r.day[2] = d PROVE Coming(k, w1, r)
  <2> DEFINE found == f.full \cap OpenedBy(k, d, f)
  <2>1. ShowsSite(k, d, f, r.site, r.isFile)
    BY <1>4, DayOfShown DEF IsShown
  <2>2. /\ DayBy(k, d, f, found)
        /\ r.site \in IF ListedBy(k, d, f, found) = {} THEN {0} ELSE ListedBy(k, d, f, found)
        /\ r.isFile = (k = "tecsuite" /\ found = {})
    BY <2>1 DEF ShowsSite
  <2>3. w1.day = d /\ w1.folder = f /\ w1.found = {} /\ found \subseteq w1.left
    BY DEF WorkerIs
  <2> HIDE DEF found
  <2>4. CASE k = "abstec"
    BY <2>2, <2>3, <2>4 DEF DayBy, ListedBy, SatellitesBy, Coming
  <2>5. CASE k = "tecsuite"
    BY <2>2, <2>3, <2>5 DEF DayBy, ListedBy, SatellitesBy, Coming
  <2>6. CASE k \notin {"abstec", "tecsuite"}
    <3>1. ListedBy(k, d, f, found) = ListedBy(k, d, f, {})
      BY <2>6 DEF ListedBy
    <3>2. DayBy(k, d, f, {})
      BY <2>2, <2>6, <3>1 DEF DayBy, ListedBy, SatellitesBy
    <3>3. r.site = 0 \/ r.site \in ListedBy(k, d, f, {})
      BY <2>2, <3>1
    <3> QED
      BY <2>3, <2>6, <3>2, <3>3 DEF Coming
  <2> QED
    BY <2>4, <2>5, <2>6
<1>5. KeepsOwed(k, t, y, w, w1)
  BY <1>4 DEF KeepsOwed, Owed, WorkerIs
<1> QED
  BY <1>3, <1>5

(* It opens a site's folder, which may be gone. *)
LEMMA SiteOpened ==
    ASSUME NEW k \in ScanKinds, NEW t, NEW se, NEW y, NEW w, NEW w1, NEW s, NEW f,
           TreeOk(t), WorkerOk(k, y, w, se), w.at = "sites", s \in w.left,
           <<y, w.day>> \in DOMAIN t.days => f = t.days[<<y, w.day>>],
           \/ WorkerIs(w1, "raised", w.todo, w.day, w.folder, w.left, w.found, w.days)
           \/ WorkerIs(w1, "sites", w.todo, w.day, w.folder, w.left \ {s},
                       IF s \in f.full THEN w.found \cup {s} ELSE w.found, w.days)
    PROVE  WorkerOk(k, y, w1, se) /\ KeepsOwed(k, t, y, w, w1)
<1>1. CASE WorkerIs(w1, "raised", w.todo, w.day, w.folder, w.left, w.found, w.days)
  BY <1>1 DEF WorkerOk, WorkerIs, KeepsOwed, Owed
<1>2. CASE WorkerIs(w1, "sites", w.todo, w.day, w.folder, w.left \ {s},
                    IF s \in f.full THEN w.found \cup {s} ELSE w.found, w.days)
  <2>1. WorkerOk(k, y, w1, se)
    BY <1>2 DEF WorkerOk, WorkerIs
  <2>2. ASSUME NEW r, IsShown(k, t, r), r.day[1] = y, r.day[2] = w.day, Coming(k, w, r)
        PROVE  Coming(k, w1, r)
    <3>1. ShowsSite(k, w.day, f, r.site, r.isFile) /\ f.full \subseteq f.dirs
      BY <2>2, DayOfShown DEF IsShown, FolderOk
    <3>2. CASE k = "abstec"
      <4>1. r.site \in f.full
        BY <3>1, <3>2 DEF ShowsSite, DayBy, ListedBy, SatellitesBy
      <4> QED
        BY <1>2, <2>2, <3>2, <4>1 DEF Coming, WorkerIs
    <3>3. CASE k = "tecsuite"
      <4>1. OpenedBy(k, w.day, f) = f.dirs
        BY <3>3 DEF OpenedBy
      <4>2. f.full \cap OpenedBy(k, w.day, f) = f.full
        BY <3>1, <4>1
      <4>3. r.isFile = (f.full = {})
        BY <3>1, <3>3, <4>2 DEF ShowsSite
      <4>4. f.full # {} => r.site \in f.full
        BY <3>1, <3>3, <4>2 DEF ShowsSite, ListedBy
      <4> QED
        BY <1>2, <2>2, <3>3, <4>3, <4>4 DEF Coming, WorkerIs
    <3>4. CASE k \notin {"abstec", "tecsuite"}
      BY <1>2, <2>2, <3>4 DEF Coming, WorkerIs
    <3> QED
      BY <3>2, <3>3, <3>4
  <2>3. KeepsOwed(k, t, y, w, w1)
    BY <1>2, <2>2 DEF KeepsOwed, Owed, WorkerIs
  <2> QED
    BY <2>1, <2>3
<1> QED
  BY <1>1, <1>2

(* It has opened all of a day's folders: what was coming is in the entry. *)
LEMMA DayEnded ==
    ASSUME NEW k \in ScanKinds, NEW t, NEW se, NEW y, NEW w, NEW w1, NEW entry,
           WorkerOk(k, y, w, se), w.at = "sites", w.left = {},
           entry.day = w.day, entry.sites = ListedBy(k, w.day, w.folder, w.found),
           WorkerIs(w1, "days", w.todo, w.day, w.folder, w.left, w.found,
                    IF DayBy(k, w.day, w.folder, w.found) THEN w.days \cup {entry} ELSE w.days)
    PROVE  WorkerOk(k, y, w1, se) /\ KeepsOwed(k, t, y, w, w1)
<1>1. WasThere(y, w.day, w.folder.dirs \cup w.folder.flat, se)
  BY DEF WorkerOk
<1>2. k \in {"abstec", "tecsuite"} => w.found \subseteq w.folder.dirs
  BY DEF WorkerOk
<1>3. entry.sites \subseteq w.folder.dirs \cup w.folder.flat
  BY <1>2 DEF ListedBy, ScanKinds
<1>4. WasThere(y, entry.day, entry.sites, se)
  BY <1>1, <1>3 DEF WasThere
<1>5. WorkerOk(k, y, w1, se)
  <2>1. \A e \in w1.days : e \in w.days \/ e = entry
    BY DEF WorkerIs
  <2> QED
    BY <1>4, <2>1 DEF WorkerOk, WorkerIs
<1>6. ASSUME NEW r, r.day[2] = w.day, Coming(k, w, r)
      PROVE  DayBy(k, w.day, w.folder, w.found) /\ (r.site = 0 \/ r.site \in entry.sites)
  <2>1. CASE k = "abstec"
    BY <1>6, <2>1 DEF Coming, DayBy, ListedBy
  <2>2. CASE k = "tecsuite"
    BY <1>6, <2>2 DEF Coming, DayBy, ListedBy
  <2>3. CASE k \notin {"abstec", "tecsuite"}
    <3>1. ListedBy(k, w.day, w.folder, w.found) = ListedBy(k, w.day, w.folder, {})
      BY <2>3 DEF ListedBy
    <3>2. /\ DayBy(k, w.day, w.folder, {})
          /\ r.site = 0 \/ r.site \in ListedBy(k, w.day, w.folder, {})
      BY <1>6, <2>3 DEF Coming
    <3>3. DayBy(k, w.day, w.folder, w.found)
      BY <2>3, <3>1, <3>2 DEF DayBy, ListedBy, SatellitesBy
    <3> QED
      BY <3>1, <3>2, <3>3
  <2> QED
    BY <2>1, <2>2, <2>3
<1>7. ASSUME NEW r, Owed(k, w, r) PROVE Owed(k, w1, r)
  <2>1. CASE HasSite(w.days, r)
    <3>1. w.days \subseteq w1.days
      BY DEF WorkerIs
    <3> QED
      BY <2>1, <3>1 DEF HasSite, Owed
  <2>2. CASE r.day[2] \in w.todo
    BY <2>2 DEF Owed, WorkerIs
  <2>3. CASE w.day = r.day[2] /\ Coming(k, w, r)
    <3>1. entry \in w1.days
      BY <1>6, <2>3 DEF WorkerIs
    <3> QED
      BY <1>6, <2>3, <3>1 DEF Owed, HasSite
  <2> QED
    BY <1>7, <2>1, <2>2, <2>3 DEF Owed
<1> QED
  BY <1>5, <1>7 DEF KeepsOwed

(* It has listed all days of its year. *)
LEMMA YearEnded ==
    ASSUME NEW k \in ScanKinds, NEW t, NEW se, NEW y, NEW w, NEW w1, WorkerOk(k, y, w, se),
           w.at = "days", w.todo = {},
           WorkerIs(w1, IF w.days = {} THEN "none" ELSE "found",
                    w.todo, w.day, w.folder, w.left, w.found, w.days)
    PROVE  WorkerOk(k, y, w1, se) /\ KeepsOwed(k, t, y, w, w1)
<1>1. WorkerOk(k, y, w1, se)
  BY DEF WorkerOk, WorkerIs
<1>2. KeepsOwed(k, t, y, w, w1)
  BY DEF KeepsOwed, Owed, WorkerIs
<1> QED
  BY <1>1, <1>2

-----------------------------------------------------------------------------
ScanInv == ScanOk(tree, kind, work, listing, phase, stayed, seen)

(* A worker moves; nothing else does. *)
LEMMA Moves ==
    ASSUME NEW y \in DOMAIN work, NEW w1, Scan!Goes(y, w1), ScanInv,
           WorkerOk(kind, y, w1, seen), KeepsOwed(kind, tree, y, work[y], w1)
    PROVE  ScanInv'
<1>1. /\ DOMAIN work' = DOMAIN work /\ work'[y] = w1
      /\ \A z \in DOMAIN work : z # y => work'[z] = work[z]
  BY DEF Scan!Goes
<1>2. UNCHANGED <<tree, kind, listing, phase, stayed, seen>>
  BY DEF Scan!Goes
<1>3. /\ TreeOk(tree) /\ SeenOk(tree, seen) /\ WorkOk(kind, work, stayed, seen) /\ kind \in ScanKinds
      /\ \A r \in stayed : IsShown(kind, tree, r)
      /\ phase # "root" => \A r \in stayed : r.day[1] \in Scan!Newest(YearsIn(seen)) => r.day[1] \in DOMAIN work
      /\ phase = "ended" => ListingOk(listing, stayed, seen)
  BY DEF ScanInv, ScanOk
<1>4. \A r \in stayed : r.day[1] = y => Owed(kind, w1, r)
  BY <1>3 DEF KeepsOwed, WorkOk
<1>5. WorkOk(kind, work', stayed, seen)
  BY <1>1, <1>3, <1>4 DEF WorkOk
<1>6. ScanOk(tree, kind, work', listing, phase, stayed, seen)
  BY <1>1, <1>3, <1>5 DEF ScanOk
<1> QED
  BY <1>2, <1>6 DEF ScanInv

LEMMA WalkStep ==
    ASSUME NEW y \in DOMAIN work, Scan!Walks(y), ScanInv
    PROVE  ScanInv'
<1> DEFINE w == work[y]
<1>1. /\ kind \in ScanKinds /\ TreeOk(tree) /\ SeenOk(tree, seen) /\ WorkerOk(kind, y, w, seen)
  BY DEF ScanInv, ScanOk, WorkOk
<1>2. DOMAIN w = WorkerFields
  BY <1>1 DEF WorkerOk
<1> HIDE DEF w
<1>3. CASE Scan!ListsYear(y)
  <2> DEFINE days == {p[2] : p \in {q \in DOMAIN tree.days : q[1] = y}}
             w1 == IF y \notin tree.years THEN Scan!YearIsGone(work[y])
                   ELSE IF kind = "parquet"
                        THEN [work[y] EXCEPT !.at = "days",
                                !.days = {[day |-> d, sites |-> {}, satellites |-> {}] : d \in days}]
                        ELSE [work[y] EXCEPT !.at = "days", !.todo = days]
  <2>1. w.at = "waits" /\ Scan!Goes(y, w1)
    BY <1>3, Zenon DEF Scan!ListsYear, w
  <2>2. CASE y \notin tree.years
    <3>1. \E at \in {"raised", "none"} : WorkerIs(w1, at, w.todo, w.day, w.folder, w.left, w.found, w.days)
      BY <1>2, <2>2 DEF w, WorkerIs, WorkerFields, Scan!YearIsGone
    <3> HIDE DEF w1
    <3> QED
      BY <1>1, <2>1, <2>2, <3>1, YearListed, Moves DEF w
  <2>3. CASE y \in tree.years /\ kind = "parquet"
    <3>1. w1 = [w EXCEPT !.at = "days", !.days = {[day |-> d, sites |-> {}, satellites |-> {}] : d \in days}]
      BY <2>3 DEF w
    <3> HIDE DEF w1
    <3>2. w1.days = {[day |-> d, sites |-> {}, satellites |-> {}] : d \in days}
      BY <1>2, <3>1 DEF WorkerFields
    <3>3. /\ DOMAIN w1 = WorkerFields /\ w1.at = "days" /\ w1.todo = w.todo /\ w1.day = w.day
          /\ w1.folder = w.folder /\ w1.left = w.left /\ w1.found = w.found
      BY <1>2, <3>1 DEF WorkerFields
    <3>4. WorkerIs(w1, "days", w.todo, w.day, w.folder, w.left, w.found,
                   {[day |-> d, sites |-> {}, satellites |-> {}] : d \in days})
      BY <3>2, <3>3 DEF WorkerIs
    <3>5. WorkerOk(kind, y, w1, seen) /\ KeepsOwed(kind, tree, y, w, w1)
      BY <1>1, <2>1, <2>3, <3>4, YearListed
    <3> QED
      BY <2>1, <3>5, Moves DEF w
  <2>4. CASE y \in tree.years /\ kind # "parquet"
    <3>1. WorkerIs(w1, "days", days, w.day, w.folder, w.left, w.found, w.days)
      BY <1>2, <2>4 DEF w, WorkerIs, WorkerFields
    <3> HIDE DEF w1
    <3>2. WorkerOk(kind, y, w1, seen) /\ KeepsOwed(kind, tree, y, w, w1)
      BY <1>1, <2>1, <3>1, YearListed
    <3> QED
      BY <2>1, <3>2, Moves DEF w
  <2> QED
    BY <2>2, <2>3, <2>4
<1>4. ASSUME NEW d \in w.todo, Scan!ListsDay(y, d)
      PROVE  ScanInv'
  <2>1. w.at = "days"
    BY <1>4 DEF Scan!ListsDay, w
  <2>2. CASE <<y, d>> \notin DOMAIN tree.days
    <3> DEFINE w1 == Scan!DayIsGone(work[y], d)
    <3>1. Scan!Goes(y, w1)
      BY <1>4, <2>2, Zenon DEF Scan!ListsDay
    <3>2. \/ WorkerIs(w1, "raised", w.todo, w.day, w.folder, w.left, w.found, w.days)
          \/ WorkerIs(w1, "days", w.todo \ {d}, w.day, w.folder, w.left, w.found, w.days)
      BY <1>2, <2>1 DEF w, WorkerIs, WorkerFields, Scan!DayIsGone
    <3> HIDE DEF w1
    <3>3. WorkerOk(kind, y, w1, seen) /\ KeepsOwed(kind, tree, y, w, w1)
      BY <1>1, <2>1, <2>2, <3>2, DayMissed
    <3> QED
      BY <3>1, <3>3, Moves DEF w
  <2>3. CASE <<y, d>> \in DOMAIN tree.days
    <3> DEFINE f == tree.days[<<y, d>>]
               w1 == [work[y] EXCEPT !.at = "sites", !.todo = @ \ {d}, !.day = d,
                         !.folder = f, !.left = Scan!Opened(d, f), !.found = {}]
    <3>1. Scan!Goes(y, w1)
      BY <1>4, <2>3, Zenon DEF Scan!ListsDay
    <3>2. WorkerIs(w1, "sites", w.todo \ {d}, d, f, OpenedBy(kind, d, f), {}, w.days)
      BY <1>2, ScanNames DEF w, WorkerIs, WorkerFields
    <3> HIDE DEF w1
    <3>3. WorkerOk(kind, y, w1, seen) /\ KeepsOwed(kind, tree, y, w, w1)
      BY <1>1, <2>1, <2>3, <3>2, DayListed
    <3> QED
      BY <3>1, <3>3, Moves DEF w
  <2> QED
    BY <2>2, <2>3
<1>5. ASSUME NEW s \in w.left, Scan!OpensSite(y, s)
      PROVE  ScanInv'
  <2> DEFINE f == IF <<y, w.day>> \in DOMAIN tree.days THEN tree.days[<<y, w.day>>] ELSE Scan!NoFolder
             w1 == IF kind = "rinex" /\ s \notin f.dirs THEN [w EXCEPT !.at = "raised"]
                   ELSE [w EXCEPT !.left = @ \ {s}, !.found = IF s \in f.full THEN @ \cup {s} ELSE @]
  <2>1. w.at = "sites" /\ Scan!Goes(y, w1)
    BY <1>5, Zenon DEF Scan!OpensSite, w
  <2>2. \/ WorkerIs(w1, "raised", w.todo, w.day, w.folder, w.left, w.found, w.days)
        \/ WorkerIs(w1, "sites", w.todo, w.day, w.folder, w.left \ {s},
                    IF s \in f.full THEN w.found \cup {s} ELSE w.found, w.days)
    <3> HIDE DEF f
    <3> QED
      BY <1>2, <2>1 DEF WorkerIs, WorkerFields
  <2>3. <<y, w.day>> \in DOMAIN tree.days => f = tree.days[<<y, w.day>>]
    OBVIOUS
  <2> HIDE DEF w1, f
  <2>4. WorkerOk(kind, y, w1, seen) /\ KeepsOwed(kind, tree, y, w, w1)
    BY <1>1, <2>1, <2>2, <2>3, SiteOpened
  <2> QED
    BY <2>1, <2>4, Moves DEF w
<1>6. CASE Scan!EndsDay(y)
  <2> DEFINE entry == [day |-> w.day, sites |-> Scan!Listed(w.day, w.folder, w.found),
                       satellites |-> Scan!Satellites(w.folder, w.found)]
             w1 == [w EXCEPT !.at = "days",
                      !.days = IF Scan!DayIsListed(w.day, w.folder, w.found) THEN @ \cup {entry} ELSE @]
  <2>1. w.at = "sites" /\ w.left = {} /\ Scan!Goes(y, w1)
    BY <1>6, Zenon DEF Scan!EndsDay, w
  <2>2. entry.day = w.day /\ entry.sites = ListedBy(kind, w.day, w.folder, w.found)
    BY ScanNames
  <2> HIDE DEF entry
  <2>3. WorkerIs(w1, "days", w.todo, w.day, w.folder, w.left, w.found,
                 IF DayBy(kind, w.day, w.folder, w.found) THEN w.days \cup {entry} ELSE w.days)
    BY <1>2, ScanNames DEF WorkerIs, WorkerFields
  <2> HIDE DEF w1
  <2>4. WorkerOk(kind, y, w1, seen) /\ KeepsOwed(kind, tree, y, w, w1)
    BY <1>1, <2>1, <2>2, <2>3, DayEnded
  <2> QED
    BY <2>1, <2>4, Moves DEF w
<1>7. CASE Scan!EndsYear(y)
  <2> DEFINE w1 == [w EXCEPT !.at = IF w.days = {} THEN "none" ELSE "found"]
  <2>1. w.at = "days" /\ w.todo = {} /\ Scan!Goes(y, w1)
    BY <1>7, Zenon DEF Scan!EndsYear, w
  <2>2. WorkerIs(w1, IF w.days = {} THEN "none" ELSE "found",
                 w.todo, w.day, w.folder, w.left, w.found, w.days)
    BY <1>2 DEF WorkerIs, WorkerFields
  <2> HIDE DEF w1
  <2>3. WorkerOk(kind, y, w1, seen) /\ KeepsOwed(kind, tree, y, w, w1)
    BY <1>1, <2>1, <2>2, YearEnded
  <2> QED
    BY <2>1, <2>3, Moves DEF w
<1> QED
  BY <1>3, <1>4, <1>5, <1>6, <1>7 DEF Scan!Walks, w

-----------------------------------------------------------------------------
(* The archive changes: less stays, more was seen. *)
LEMMA SawPresent ==
    ASSUME NEW t, TreeOk(t), NEW se, \A q \in se : q[1] \in Years
    PROVE  SeenOk(t, se \cup Scan!Present(t))
<1> DEFINE SitesOf(p) == {<<p[1], p[2], s>> : s \in t.days[p].dirs \cup t.days[p].flat}
           deep == UNION {SitesOf(p) : p \in DOMAIN t.days}
<1>1. Scan!Present(t) = {<<y>> : y \in t.years} \cup DOMAIN t.days \cup deep
  BY DEF Scan!Present
<1>2. \A q \in deep : \E p \in DOMAIN t.days : q \in SitesOf(p)
  <2> HIDE DEF SitesOf
  <2> QED
    OBVIOUS
<1>3. \A q \in deep : \E p \in DOMAIN t.days : q[1] = p[1]
  <2> HIDE DEF deep
  <2>1. \A p \in DOMAIN t.days : \A q \in SitesOf(p) : q[1] = p[1]
    OBVIOUS
  <2> HIDE DEF SitesOf
  <2> QED
    BY <1>2, <2>1
<1>4. \A p \in DOMAIN t.days : \A s \in t.days[p].dirs \cup t.days[p].flat : <<p[1], p[2], s>> \in deep
  <2>1. \A p \in DOMAIN t.days : \A s \in t.days[p].dirs \cup t.days[p].flat : <<p[1], p[2], s>> \in SitesOf(p)
    OBVIOUS
  <2>2. \A p \in DOMAIN t.days : SitesOf(p) \subseteq deep
    <3> HIDE DEF SitesOf
    <3> QED
      OBVIOUS
  <2> HIDE DEF SitesOf, deep
  <2> QED
    BY <2>1, <2>2
<1>5. \A p \in DOMAIN t.days : p[1] \in t.years /\ p[1] \in Years /\ p = <<p[1], p[2]>>
  BY DEF TreeOk
<1>6. t.years \subseteq Years
  BY DEF TreeOk
<1>7. \A q \in Scan!Present(t) : q[1] \in Years
  <2>1. ASSUME NEW q \in {<<y>> : y \in t.years} PROVE q[1] \in Years
    BY <1>6
  <2> HIDE DEF deep
  <2> QED
    BY <1>1, <1>3, <1>5, <2>1
<1>8. \A y \in t.years : <<y>> \in Scan!Present(t)
  BY <1>1
<1>9. \A p \in DOMAIN t.days : p \in Scan!Present(t)
  BY <1>1
<1> HIDE DEF deep
<1> QED
  BY <1>1, <1>4, <1>5, <1>7, <1>8, <1>9 DEF SeenOk, WasThere

LEMMA TreeBecomes ==
    ASSUME NEW t, TreeOk(t), Scan!Becomes(t), ScanInv
    PROVE  ScanInv'
<1> DEFINE st == stayed \cap Scan!Shown(t)
           se == seen \cup Scan!Present(t)
<1>1. /\ phase \in {"root", "years"} /\ tree' = t /\ stayed' = st /\ seen' = se
      /\ UNCHANGED <<kind, work, listing, phase>>
  BY DEF Scan!Becomes
<1>2. /\ TreeOk(tree) /\ SeenOk(tree, seen) /\ WorkOk(kind, work, stayed, seen) /\ kind \in ScanKinds
      /\ \A r \in stayed : IsShown(kind, tree, r)
      /\ phase # "root" => \A r \in stayed : r.day[1] \in Scan!Newest(YearsIn(seen)) => r.day[1] \in DOMAIN work
  BY DEF ScanInv, ScanOk
<1>3. SeenOk(t, se)
  BY <1>2, SawPresent DEF SeenOk
<1>4. \A r \in st : r \in stayed /\ IsShown(kind, t, r)
  BY ShownNames
<1>5. seen \subseteq se
  OBVIOUS
<1> HIDE DEF st, se
<1>6. WorkOk(kind, work, st, se)
  <2>1. ASSUME NEW y \in DOMAIN work PROVE WorkerOk(kind, y, work[y], se)
    <3>1. WorkerOk(kind, y, work[y], seen)
      BY <1>2 DEF WorkOk
    <3>2. \A d, sites : WasThere(y, d, sites, seen) => WasThere(y, d, sites, se)
      BY <1>5 DEF WasThere
    <3> QED
      BY <3>1, <3>2 DEF WorkerOk
  <2> QED
    BY <1>2, <1>4, <2>1 DEF WorkOk
<1>7. ASSUME phase # "root", NEW r \in st, r.day[1] \in Scan!Newest(YearsIn(se))
      PROVE  r.day[1] \in DOMAIN work
  <2>1. r \in stayed /\ r.day[1] \in tree.years
    BY <1>2, <1>4, <1>7, DayOfShown
  <2>2. r.day[1] \in YearsIn(seen)
    <3>1. <<r.day[1]>> \in seen
      BY <1>2, <2>1 DEF SeenOk
    <3> QED
      BY <3>1 DEF YearsIn
  <2>3. YearsIn(seen) \subseteq YearsIn(se) /\ YearsIn(se) \subseteq Years
    BY <1>3, <1>5 DEF YearsIn, SeenOk
  <2>4. r.day[1] \in Scan!Newest(YearsIn(seen))
    BY <1>7, <2>2, <2>3, NewestShrinks
  <2> QED
    BY <1>2, <1>7, <2>1, <2>4
<1>8. ScanOk(t, kind, work, listing, phase, st, se)
  BY <1>1, <1>2, <1>3, <1>4, <1>6, <1>7 DEF ScanOk
<1> QED
  BY <1>1, <1>8 DEF ScanInv

LEMMA ChangesStep ==
    ASSUME Scan!Changes, ScanInv
    PROVE  ScanInv'
<1>1. TreeOk(tree)
  BY DEF ScanInv, ScanOk
<1>2. ASSUME NEW y \in Years, NEW d \in DayFolders, NEW f \in Contents, Scan!FolderIsWritten(y, d, f)
      PROVE  ScanInv'
  <2> DEFINE days == [p \in DOMAIN tree.days \cup {<<y, d>>} |-> IF p = <<y, d>> THEN f ELSE tree.days[p]]
             t == [years |-> tree.years \cup {y}, days |-> days]
  <2>1. Scan!Becomes(t)
    BY <1>2, Zenon DEF Scan!FolderIsWritten
  <2>2. DOMAIN t = {"years", "days"} /\ t.years = tree.years \cup {y} /\ t.days = days
    OBVIOUS
  <2>3. DOMAIN days = DOMAIN tree.days \cup {<<y, d>>} /\ days[<<y, d>>] = f
    OBVIOUS
  <2>4. \A p \in DOMAIN days : p # <<y, d>> => days[p] = tree.days[p]
    OBVIOUS
  <2>5. FolderOk(f)
    BY ScanAssumption
  <2> HIDE DEF t, days
  <2>6. \A p \in DOMAIN days : FolderOk(days[p]) /\ p[1] \in tree.years \cup {y}
    BY <1>1, <2>3, <2>4, <2>5 DEF TreeOk
  <2>7. TreeOk(t)
    BY <1>1, <2>2, <2>3, <2>6 DEF TreeOk
  <2> QED
    BY <2>1, <2>7, TreeBecomes
<1>3. ASSUME NEW ps, NEW t, DOMAIN t = {"years", "days"}, t.years \subseteq tree.years,
             t.days = Scan!Without(ps), \A p \in DOMAIN tree.days \ ps : p[1] \in t.years
      PROVE  TreeOk(t)
  <2>1. DOMAIN t.days = DOMAIN tree.days \ ps /\ \A p \in DOMAIN t.days : t.days[p] = tree.days[p]
    BY <1>3 DEF Scan!Without
  <2> QED
    BY <1>1, <1>3, <2>1 DEF TreeOk
<1>4. ASSUME NEW p \in DOMAIN tree.days, Scan!DayIsRemoved(p)
      PROVE  ScanInv'
  <2> DEFINE t == [tree EXCEPT !.days = Scan!Without({p})]
  <2>1. Scan!Becomes(t)
    BY <1>4, Zenon DEF Scan!DayIsRemoved
  <2>2. DOMAIN t = {"years", "days"} /\ t.years = tree.years /\ t.days = Scan!Without({p})
    BY <1>1 DEF TreeOk
  <2>3. \A p0 \in DOMAIN tree.days : p0[1] \in tree.years
    BY <1>1 DEF TreeOk
  <2> HIDE DEF t
  <2>4. TreeOk(t)
    BY <1>3, <2>2, <2>3
  <2> QED
    BY <2>1, <2>4, TreeBecomes
<1>5. ASSUME NEW y \in Years, Scan!YearIsRemoved(y)
      PROVE  ScanInv'
  <2> DEFINE t == [years |-> tree.years \ {y}, days |-> Scan!Without({y} \X DayFolders)]
  <2>1. Scan!Becomes(t)
    BY <1>5, Zenon DEF Scan!YearIsRemoved
  <2>2. /\ DOMAIN t = {"years", "days"} /\ t.years = tree.years \ {y}
        /\ t.days = Scan!Without({y} \X DayFolders)
    OBVIOUS
  <2>3. ASSUME NEW p0 \in DOMAIN tree.days, p0 \notin {y} \X DayFolders PROVE p0[1] \in tree.years \ {y}
    BY <1>1, <2>3 DEF TreeOk
  <2> HIDE DEF t
  <2>4. TreeOk(t)
    BY <1>3, <2>2, <2>3
  <2> QED
    BY <2>1, <2>4, TreeBecomes
<1> QED
  BY <1>2, <1>4, <1>5 DEF Scan!Changes

(* The scan lists the root: every year of the newest has its worker. *)
LEMMA RootListed ==
    ASSUME Scan!ListsRoot, ScanInv
    PROVE  ScanInv'
<1> DEFINE w0 == [y \in Scan!Newest(tree.years) |-> Scan!Worker]
<1>1. phase = "root" /\ work' = w0 /\ phase' = "years" /\ UNCHANGED <<tree, kind, listing, stayed, seen>>
  BY DEF Scan!ListsRoot
<1>2. /\ TreeOk(tree) /\ SeenOk(tree, seen) /\ kind \in ScanKinds
      /\ \A r \in stayed : IsShown(kind, tree, r)
  BY DEF ScanInv, ScanOk
<1>3. DOMAIN w0 = Scan!Newest(tree.years) /\ \A y \in DOMAIN w0 : w0[y] = Scan!Worker
  OBVIOUS
<1> HIDE DEF w0
<1>4. /\ DOMAIN Scan!Worker = WorkerFields /\ Scan!Worker.at = "waits" /\ Scan!Worker.days = {}
  BY DEF Scan!Worker, WorkerFields
<1>5. WorkOk(kind, w0, stayed, seen)
  BY <1>3, <1>4 DEF WorkOk, WorkerOk, Owed
<1>6. ASSUME NEW r \in stayed, r.day[1] \in Scan!Newest(YearsIn(seen)) PROVE r.day[1] \in DOMAIN w0
  <2>1. r.day[1] \in tree.years
    BY <1>2, <1>6, DayOfShown
  <2>2. tree.years \subseteq YearsIn(seen)
    <3>1. ASSUME NEW y \in tree.years PROVE y \in YearsIn(seen)
      <4>1. <<y>> \in seen
        BY <1>2 DEF SeenOk
      <4> QED
        BY <4>1 DEF YearsIn
    <3> QED
      BY <3>1
  <2>3. YearsIn(seen) \subseteq Years
    BY <1>2 DEF YearsIn, SeenOk
  <2> QED
    BY <1>3, <1>6, <2>1, <2>2, <2>3, NewestShrinks
<1>7. ScanOk(tree, kind, w0, listing, "years", stayed, seen)
  BY <1>2, <1>5, <1>6 DEF ScanOk
<1> QED
  BY <1>1, <1>7 DEF ScanInv

(* All workers have ended: their entries are the listing. *)
LEMMA ScanEnded ==
    ASSUME Scan!Ends, ScanInv
    PROVE  ScanInv'
<1>1. /\ phase = "years" /\ \A y \in DOMAIN work : work[y].at \in {"found", "none", "raised"}
      /\ UNCHANGED <<tree, kind, work, stayed, seen>>
  BY DEF Scan!Ends
<1>2. /\ TreeOk(tree) /\ SeenOk(tree, seen) /\ WorkOk(kind, work, stayed, seen) /\ kind \in ScanKinds
      /\ \A r \in stayed : IsShown(kind, tree, r)
      /\ \A r \in stayed : r.day[1] \in Scan!Newest(YearsIn(seen)) => r.day[1] \in DOMAIN work
  BY <1>1 DEF ScanInv, ScanOk
<1>3. CASE \E y \in DOMAIN work : work[y].at = "raised"
  <2>1. phase' = "failed" /\ UNCHANGED listing
    BY <1>3 DEF Scan!Ends
  <2>2. ScanOk(tree, kind, work, listing, "failed", stayed, seen)
    BY <1>2 DEF ScanOk
  <2> QED
    BY <1>1, <2>1, <2>2 DEF ScanInv
<1>4. CASE \A y \in DOMAIN work : work[y].at # "raised"
  <2> DEFINE l0 == [y \in {z \in DOMAIN work : work[z].at = "found"} |-> work[y].days]
  <2>1. phase' = "ended" /\ listing' = l0
    BY <1>4 DEF Scan!Ends
  <2>2. /\ DOMAIN l0 = {z \in DOMAIN work : work[z].at = "found"}
        /\ \A y \in DOMAIN l0 : y \in DOMAIN work /\ l0[y] = work[y].days
    OBVIOUS
  <2> HIDE DEF l0
  <2>3. \A y \in DOMAIN l0 : \A e \in l0[y] : WasThere(y, e.day, e.sites, seen)
    BY <1>2, <2>2 DEF WorkOk, WorkerOk
  <2>4. ASSUME NEW r \in stayed, r.day[1] \in Scan!Newest(YearsIn(seen))
        PROVE  r.day[1] \in DOMAIN l0 /\ HasSite(l0[r.day[1]], r)
    <3>1. r.day[1] \in DOMAIN work
      BY <1>2, <2>4
    <3>2. Owed(kind, work[r.day[1]], r) /\ WorkerOk(kind, r.day[1], work[r.day[1]], seen)
      BY <1>2, <3>1 DEF WorkOk
    <3>3. work[r.day[1]].at \in {"found", "none"}
      BY <1>1, <1>4, <3>1
    <3>4. HasSite(work[r.day[1]].days, r)
      BY <3>2, <3>3 DEF Owed
    <3>5. work[r.day[1]].at = "found"
      BY <3>2, <3>3, <3>4 DEF WorkerOk, HasSite
    <3> QED
      BY <2>2, <3>1, <3>4, <3>5
  <2>5. ListingOk(l0, stayed, seen)
    BY <2>3, <2>4 DEF ListingOk
  <2>6. ScanOk(tree, kind, work, l0, "ended", stayed, seen)
    BY <1>2, <2>5 DEF ScanOk
  <2> QED
    BY <1>1, <2>1, <2>6 DEF ScanInv
<1> QED
  BY <1>3, <1>4

(* A scan that returns lists what stayed and only what was there, for any  *)
(* archive, changes of it, kind of scan, cap on the years and number of    *)
(* workers.                                                                *)
THEOREM ListedStays == Spec => []ListsWhatStayed
<1>1. Init => ScanInv
  <2> SUFFICES ASSUME Init PROVE ScanInv
    OBVIOUS
  <2>1. /\ tree \in Archives0 /\ kind \in Kinds /\ work = [y \in {} |-> Scan!Worker] /\ phase = "root"
        /\ stayed = Scan!Shown(tree) /\ seen = Scan!Present(tree)
    BY DEF Init, Scan!Init
  <2>2. TreeOk(tree) /\ kind \in ScanKinds
    BY <2>1, ScanAssumption DEF TreeOk, ScanKinds
  <2>3. SeenOk(tree, seen)
    <3>1. SeenOk(tree, {} \cup Scan!Present(tree))
      BY <2>2, SawPresent
    <3>2. seen = {} \cup Scan!Present(tree)
      BY <2>1
    <3> QED
      BY <3>1, <3>2
  <2>4. \A r \in stayed : IsShown(kind, tree, r)
    BY <2>1, ShownNames
  <2>5. WorkOk(kind, work, stayed, seen)
    BY <2>1 DEF WorkOk
  <2> QED
    BY <2>1, <2>2, <2>3, <2>4, <2>5 DEF ScanInv, ScanOk
<1>2. ScanInv /\ [Next]_hubVars => ScanInv'
  <2> SUFFICES ASSUME ScanInv, [Next]_hubVars PROVE ScanInv'
    OBVIOUS
  <2>1. CASE UNCHANGED OfScan
    BY <2>1 DEF OfScan, ScanInv
  <2>2. CASE Scan!Next
    BY <2>2, ChangesStep, RootListed, ScanEnded, WalkStep DEF Scan!Next
  <2> QED
    BY <2>1, <2>2 DEF Next, hubVars
<1>3. ScanInv => ListsWhatStayed
  <2> SUFFICES ASSUME ScanInv, phase = "ended"
               PROVE  /\ \A y \in DOMAIN listing : \A e \in listing[y] :
                            {<<y, e.day>>} \cup {<<y, e.day, s>> : s \in e.sites} \subseteq seen
                      /\ \A r \in stayed : r.day[1] \in Scan!Newest({p[1] : p \in seen}) =>
                            /\ r.day[1] \in DOMAIN listing
                            /\ \E e \in listing[r.day[1]] :
                                  e.day = r.day[2] /\ (r.site = 0 \/ r.site \in e.sites)
    BY DEF ListsWhatStayed, Scan!ListsWhatStayed
  <2>1. ListingOk(listing, stayed, seen)
    BY DEF ScanInv, ScanOk
  <2>2. \A y \in DOMAIN listing : \A e \in listing[y] :
           {<<y, e.day>>} \cup {<<y, e.day, s>> : s \in e.sites} \subseteq seen
    BY <2>1 DEF ListingOk, WasThere
  <2> QED
    BY <2>1, <2>2 DEF ListingOk, HasSite, YearsIn
<1> QED
  BY <1>1, <1>2, <1>3, PTL DEF Spec, hubVars

-----------------------------------------------------------------------------
(***************************************************************************)
(* The map of stations: what is shown was gathered in trees of its span.   *)
(***************************************************************************)

(* Sets of archives have a first and a last one. *)
LEMMA FirstExists ==
    ASSUME NEW S, S \subseteq Nat, S # {}
    PROVE  \E x1 \in S : \A y \in S : x1 <= y
<1>1. \A x1, y \in Nat : <<y, x1>> \in OpToRel(<, Nat) <=> y < x1
  BY DEF OpToRel
<1>2. \E R : IsWellFoundedOn(R, Nat) /\ \A x1, y \in Nat : <<y, x1>> \in R <=> y < x1
  BY <1>1, NatLessThanWellFounded
<1>3. PICK R : IsWellFoundedOn(R, Nat) /\ \A x1, y \in Nat : <<y, x1>> \in R <=> y < x1
  BY <1>2
<1>4. PICK x1 \in S : \A y \in S : ~(<<y, x1>> \in R)
  BY <1>3, WFMin
<1>5. \A y \in S : ~(y < x1)
  BY <1>3, <1>4
<1>6. \A y \in S : x1 <= y
  BY <1>5
<1> QED
  BY <1>6

LEMMA LastExists ==
    ASSUME NEW k \in Nat, NEW S, S \subseteq 1..k, S # {}
    PROVE  \E x1 \in S : \A y \in S : y <= x1
<1> DEFINE T == {k - y : y \in S}
<1>1. T \subseteq Nat /\ T # {}
  <2>1. \A y \in S : k - y \in Nat
    OBVIOUS
  <2> QED
    BY <2>1
<1>2. PICK z \in T : \A y \in T : z <= y
  BY <1>1, FirstExists
<1>3. PICK x1 \in S : z = k - x1
  BY <1>2
<1>4. ASSUME NEW y \in S PROVE y <= x1
  <2>1. k - y \in T
    OBVIOUS
  <2>2. k - x1 <= k - y
    BY <1>2, <1>3, <2>1
  <2> QED
    BY <2>2
<1> QED
  BY <1>4

LEMMA EndsOfGroup ==
    ASSUME NEW k \in Nat, NEW S, S \subseteq 1..k, S # {}
    PROVE  Positions!Min(S) \in S /\ Positions!Max(S) \in S
<1>1. \E x1 \in S : \A y \in S : x1 <= y
  <2>1. S \subseteq Nat
    OBVIOUS
  <2> QED
    BY <2>1, FirstExists
<1>2. \E x1 \in S : \A y \in S : x1 >= y
  <2>1. PICK x1 \in S : \A y \in S : y <= x1
    BY LastExists
  <2>2. \A y \in S : x1 >= y
    BY <2>1
  <2> QED
    BY <2>2
<1> QED
  BY <1>1, <1>2 DEF Positions!Min, Positions!Max

LEMMA SameSize == \A S : Positions!Cardinality(S) = Cardinality(S)
BY DEF Positions!Cardinality, Cardinality, Positions!IsFiniteSet, IsFiniteSet

-----------------------------------------------------------------------------
(***************************************************************************)
(* Folders: the ones above a folder are the prefixes of its path.          *)
(***************************************************************************)
IsPath(f) == \E N : f \in Seq(N)
IsAbove(g, f) == Len(g) <= Len(f) /\ \A n \in 1..Len(g) : g[n] = f[n]

LEMMA Prefix ==
    ASSUME NEW f, IsPath(f), NEW k \in 0..Len(f)
    PROVE  /\ IsPath(SubSeq(f, 1, k)) /\ Len(SubSeq(f, 1, k)) = k
           /\ \A n \in 1..k : SubSeq(f, 1, k)[n] = f[n]
<1>1. PICK N : f \in Seq(N)
  BY DEF IsPath
<1>2. SubSeq(f, 1, k) \in Seq(N)
  BY <1>1
<1> QED
  BY <1>1, <1>2 DEF IsPath

LEMMA SamePath ==
    ASSUME NEW f, NEW g, IsPath(f), IsPath(g), Len(f) = Len(g), \A n \in 1..Len(f) : f[n] = g[n]
    PROVE  f = g
<1>1. PICK M, N : f \in Seq(M) /\ g \in Seq(N)
  BY DEF IsPath
<1>2. f \in Seq(M \cup N) /\ g \in Seq(M \cup N)
  BY <1>1, SeqMonotonic
<1> QED
  BY <1>2, SeqEqual

LEMMA AboveIs ==
    ASSUME NEW f, IsPath(f), NEW g
    PROVE  g \in Positions!Above(f) <=> IsPath(g) /\ IsAbove(g, f)
<1>1. PICK N : f \in Seq(N)
  BY DEF IsPath
<1>2. ASSUME g \in Positions!Above(f) PROVE IsPath(g) /\ IsAbove(g, f)
  <2>1. PICK k \in 0..Len(f) : g = SubSeq(f, 1, k)
    BY <1>2 DEF Positions!Above
  <2> QED
    BY <1>1, <2>1, Prefix DEF IsAbove
<1>3. ASSUME IsPath(g), IsAbove(g, f) PROVE g \in Positions!Above(f)
  <2>1. PICK M : g \in Seq(M)
    BY <1>3 DEF IsPath
  <2>2. Len(g) \in 0..Len(f)
    BY <1>1, <1>3, <2>1 DEF IsAbove
  <2>3. g = SubSeq(f, 1, Len(g))
    <3>1. /\ IsPath(SubSeq(f, 1, Len(g))) /\ Len(SubSeq(f, 1, Len(g))) = Len(g)
          /\ \A n \in 1..Len(g) : SubSeq(f, 1, Len(g))[n] = g[n]
      BY <1>3, <2>2, Prefix DEF IsAbove
    <3> QED
      BY <1>3, <3>1, SamePath
  <2> QED
    BY <2>2, <2>3 DEF Positions!Above
<1> QED
  BY <1>2, <1>3

LEMMA AboveTrans ==
    ASSUME NEW f, IsPath(f), NEW g \in Positions!Above(f), NEW h \in Positions!Above(g)
    PROVE  h \in Positions!Above(f)
<1>1. IsPath(g) /\ IsAbove(g, f)
  BY AboveIs
<1>2. IsPath(h) /\ IsAbove(h, g)
  BY <1>1, AboveIs
<1>3. Len(f) \in Nat /\ Len(g) \in Nat /\ Len(h) \in Nat
  BY <1>1, <1>2 DEF IsPath
<1>4. IsAbove(h, f)
  BY <1>1, <1>2, <1>3 DEF IsAbove
<1> QED
  BY <1>2, <1>4, AboveIs

LEMMA AboveItself ==
    ASSUME NEW f, IsPath(f)
    PROVE  f \in Positions!Above(f)
<1>1. Len(f) \in Nat
  BY DEF IsPath
<1> QED
  BY <1>1, AboveIs DEF IsAbove

(* One name less: the folder a folder lies in. *)
LEMMA FrontIsAbove ==
    ASSUME NEW f, IsPath(f), f # << >>
    PROVE  Positions!Front(f) \in Positions!Above(f)
<1>1. Len(f) \in Nat /\ Len(f) # 0
  BY DEF IsPath
<1> QED
  BY <1>1 DEF Positions!Front, Positions!Above

(* Between a folder above another one and that one is one in the former. *)
LEMMA NextBelow ==
    ASSUME NEW f, IsPath(f), NEW g \in Positions!Above(f), g # f
    PROVE  \E h \in Positions!Above(f) : h # << >> /\ Positions!Front(h) = g
<1>1. PICK k \in 0..Len(f) : g = SubSeq(f, 1, k)
  BY DEF Positions!Above
<1>2. PICK N : f \in Seq(N)
  BY DEF IsPath
<1>3. k # Len(f)
  BY <1>1, <1>2, SMT
<1> DEFINE h == SubSeq(f, 1, k + 1)
<1>4. k + 1 \in 0..Len(f) /\ Len(f) \in Nat
  BY <1>2, <1>3
<1>5. Len(h) = k + 1 /\ IsPath(h) /\ \A n \in 1..(k + 1) : h[n] = f[n]
  BY <1>4, Prefix
<1>6. h \in Positions!Above(f) /\ h # << >>
  BY <1>4, <1>5 DEF Positions!Above
<1>7. SubSeq(h, 1, k) = g
  <2>1. k \in 0..Len(h)
    BY <1>5
  <2>2. IsPath(SubSeq(h, 1, k)) /\ Len(SubSeq(h, 1, k)) = k /\ \A n \in 1..k : SubSeq(h, 1, k)[n] = h[n]
    BY <1>5, <2>1, Prefix
  <2>3. IsPath(g) /\ Len(g) = k /\ \A n \in 1..k : g[n] = f[n]
    BY <1>1, Prefix
  <2>4. \A n \in 1..k : SubSeq(h, 1, k)[n] = g[n]
    BY <1>5, <2>2, <2>3
  <2> QED
    BY <2>2, <2>3, <2>4, SamePath
<1>8. Positions!Front(h) = g
  <2>1. Len(h) - 1 = k
    BY <1>5
  <2> HIDE DEF h
  <2> QED
    BY <1>7, <2>1 DEF Positions!Front
<1> QED
  BY <1>6, <1>8

LEMMA AboveIsFinite ==
    ASSUME NEW f, IsPath(f)
    PROVE  IsFiniteSet(Positions!Above(f))
<1>1. Len(f) \in Nat
  BY DEF IsPath
<1> DEFINE F == [k \in 0..Len(f) |-> SubSeq(f, 1, k)]
<1>2. IsFiniteSet(0..Len(f))
  BY <1>1, FS_Interval
<1>3. F \in Surjection(0..Len(f), Positions!Above(f))
  BY DEF Surjection, Positions!Above
<1> QED
  BY <1>2, <1>3, FS_Surjection

-----------------------------------------------------------------------------
(***************************************************************************)
(* The median: a place where more than half of the records agree.          *)
(***************************************************************************)
LEMMA TwoPartsFit ==
    ASSUME NEW G, IsFiniteSet(G), NEW L, NEW K, L \subseteq G, K \subseteq G, L \cap K = {}
    PROVE  /\ Cardinality(L) \in Nat /\ Cardinality(K) \in Nat /\ Cardinality(G) \in Nat
           /\ Cardinality(L) + Cardinality(K) <= Cardinality(G)
<1>1. IsFiniteSet(L) /\ IsFiniteSet(K)
  BY FS_Subset
<1>2. Cardinality(L) \in Nat /\ Cardinality(K) \in Nat /\ Cardinality(G) \in Nat
  BY <1>1, FS_CardinalityType
<1>3. Cardinality(L \cup K) = Cardinality(L) + Cardinality(K) - Cardinality(L \cap K)
  BY <1>1, FS_Union
<1>4. Cardinality(L \cap K) = 0
  BY FS_EmptySet
<1>5. Cardinality(L \cup K) <= Cardinality(G)
  BY FS_Subset
<1> QED
  BY <1>2, <1>3, <1>4, <1>5

LEMMA NthIs ==
    ASSUME NEW G, IsFiniteSet(G), \A r \in G : r.x \in Int, NEW k \in Int,
           NEW z \in {r.x : r \in G},
           Cardinality({r \in G : r.x < z}) < k, k <= Cardinality({r \in G : r.x <= z})
    PROVE  Positions!Nth(G, k) = z
<1> DEFINE Less(y) == {r \in G : r.x < y}
           Upto(y) == {r \in G : r.x <= y}
           IsNth(y) == Cardinality(Less(y)) < k /\ k <= Cardinality(Upto(y))
<1>1. z \in Int
  OBVIOUS
<1>2. IsNth(z)
  OBVIOUS
<1>3. ASSUME NEW a \in Int, NEW b \in Int, a < b
      PROVE  /\ Cardinality(Upto(a)) <= Cardinality(Less(b))
             /\ Cardinality(Upto(a)) \in Nat /\ Cardinality(Less(b)) \in Nat
  <2>1. Upto(a) \subseteq Less(b)
    BY <1>3
  <2>2. Less(b) \subseteq G
    OBVIOUS
  <2> HIDE DEF Less, Upto
  <2>3. IsFiniteSet(Less(b))
    BY <2>2, FS_Subset
  <2>4. Cardinality(Upto(a)) <= Cardinality(Less(b)) /\ IsFiniteSet(Upto(a))
    BY <2>1, <2>3, FS_Subset
  <2> QED
    BY <2>3, <2>4, FS_CardinalityType
<1>4. ASSUME NEW y \in {r.x : r \in G}, IsNth(y) PROVE y = z
  <2> HIDE DEF Less, Upto
  <2>1. y \in Int
    OBVIOUS
  <2>2. CASE y < z
    <3>1. Cardinality(Upto(y)) <= Cardinality(Less(z)) /\ Cardinality(Upto(y)) \in Nat /\ Cardinality(Less(z)) \in Nat
      BY <1>1, <1>3, <2>1, <2>2
    <3> QED
      BY <1>2, <1>4, <3>1
  <2>3. CASE z < y
    <3>1. Cardinality(Upto(z)) <= Cardinality(Less(y)) /\ Cardinality(Upto(z)) \in Nat /\ Cardinality(Less(y)) \in Nat
      BY <1>1, <1>3, <2>1, <2>3
    <3> QED
      BY <1>2, <1>4, <3>1
  <2> QED
    BY <1>1, <2>1, <2>2, <2>3
<1> HIDE DEF IsNth
<1>5. (CHOOSE y \in {r.x : r \in G} : IsNth(y)) = z
  BY <1>2, <1>4
<1>6. Positions!Nth(G, k) = CHOOSE y \in {r.x : r \in G} : IsNth(y)
  BY SameSize DEF Positions!Nth, IsNth
<1> QED
  BY <1>5, <1>6

LEMMA MajorityIsMedian ==
    ASSUME NEW G, IsFiniteSet(G), \A r \in G : r.x \in Int, NEW z \in {r.x : r \in G},
           2 * Cardinality({r \in G : r.x = z}) > Cardinality(G)
    PROVE  Positions!TwiceMedian(G) = 2 * z
<1> DEFINE K == {r \in G : r.x = z}
           Less == {r \in G : r.x < z}
           Upto == {r \in G : r.x <= z}
           n == Cardinality(G)
<1>1. z \in Int
  OBVIOUS
<1>2. Less \subseteq G /\ K \subseteq G /\ Less \cap K = {} /\ K \subseteq Upto /\ Upto \subseteq G
  BY <1>1
<1>3. 2 * Cardinality(K) > n
  OBVIOUS
<1> HIDE DEF K, n
<1>4. /\ Cardinality(Less) \in Nat /\ Cardinality(K) \in Nat /\ n \in Nat
      /\ Cardinality(Less) + Cardinality(K) <= n
  <2> HIDE DEF Less
  <2> QED
    BY <1>2, TwoPartsFit DEF n
<1>5. Cardinality(K) <= Cardinality(Upto) /\ Cardinality(Upto) \in Nat
  <2> HIDE DEF Upto
  <2>1. IsFiniteSet(Upto)
    BY <1>2, FS_Subset
  <2> QED
    BY <1>2, <2>1, FS_Subset, FS_CardinalityType
<1>6. ASSUME NEW k \in {(n + 1) \div 2, n \div 2 + 1} PROVE Positions!Nth(G, k) = z
  <2>1. k \in Int /\ Cardinality(Less) < k /\ k <= Cardinality(Upto)
    <3> HIDE DEF Less, Upto
    <3> QED
      BY <1>3, <1>4, <1>5
  <2> QED
    BY <2>1, NthIs
<1>7. Positions!Nth(G, (n + 1) \div 2) = z /\ Positions!Nth(G, n \div 2 + 1) = z
  BY <1>6
<1>8. Positions!TwiceMedian(G) = Positions!Nth(G, (n + 1) \div 2) + Positions!Nth(G, n \div 2 + 1)
  BY SameSize DEF Positions!TwiceMedian, n
<1> QED
  BY <1>1, <1>7, <1>8

-----------------------------------------------------------------------------
(***************************************************************************)
(* The map of what was gathered.  There is a record of each archive at     *)
(* most.                                                                   *)
(***************************************************************************)
RecordsOk(R) == \A r \in R : r.path \in DOMAIN Paths /\ r.x \in Int
OnePerPath(R) == \A q, r \in R : q.path = r.path => q = r
AtStation(R, s) == {r \in R : r.station = s}

LEMMA PathsAre == \E k \in Nat : DOMAIN Paths = 1..k
<1>1. Paths \in Seq({Paths[i] : i \in DOMAIN Paths})
  BY PositionsAssumption DEF IsList
<1> QED
  BY <1>1

LEMMA PathsAreFinite == IsFiniteSet(DOMAIN Paths)
BY PathsAre, FS_Interval

LEMMA GroupSize ==
    ASSUME NEW G, RecordsOk(G), OnePerPath(G)
    PROVE  IsFiniteSet(G) /\ Cardinality(G) = Cardinality({r.path : r \in G})
<1> DEFINE P == {r.path : r \in G}
           F == [r \in G |-> r.path]
<1>1. P \subseteq DOMAIN Paths
  BY DEF RecordsOk
<1>2. IsFiniteSet(P)
  BY <1>1, PathsAreFinite, FS_Subset
<1>3. F \in Injection(G, P)
  BY DEF OnePerPath, Injection, IsInjective
<1>4. F \in Surjection(G, P)
  BY DEF Surjection
<1> QED
  BY <1>2, <1>3, <1>4, FS_Injection

(* What a map must show of the records that were there always, A, and may  *)
(* show of those that were there ever, E.                                  *)
ShowsStations(stations, A, E) ==
    /\ {r.station : r \in A} \subseteq DOMAIN stations
    /\ \A s \in DOMAIN stations :
           /\ stations[s].count \in Positions!Cardinality(Positions!PathsOf(A, s))..Positions!Cardinality(Positions!PathsOf(E, s))
           /\ {stations[s].first, stations[s].last} \subseteq Positions!PathsOf(E, s)
           /\ Positions!DaysOf(A, s) \subseteq stations[s].days
           /\ stations[s].days \subseteq Positions!DaysOf(E, s)
           /\ \A z \in {r.x : r \in A} :
                  2 * Positions!Cardinality({r \in A : r.station = s /\ r.x = z})
                      > Positions!Cardinality(Positions!PathsOf(E, s))
                  => stations[s].twiceX = 2 * z

LEMMA StationPaths ==
    ASSUME NEW R, NEW E, R \subseteq E, RecordsOk(E), NEW s
    PROVE  /\ Positions!PathsOf(R, s) = {r.path : r \in AtStation(R, s)}
           /\ Positions!PathsOf(R, s) \subseteq Positions!PathsOf(E, s)
           /\ Positions!PathsOf(E, s) \subseteq DOMAIN Paths
           /\ Cardinality(Positions!PathsOf(R, s)) \in Nat /\ Cardinality(Positions!PathsOf(E, s)) \in Nat
           /\ Cardinality(Positions!PathsOf(R, s)) <= Cardinality(Positions!PathsOf(E, s))
<1>1. Positions!PathsOf(R, s) = {r.path : r \in AtStation(R, s)}
  BY DEF Positions!PathsOf, AtStation
<1>2. Positions!PathsOf(R, s) \subseteq Positions!PathsOf(E, s)
  BY DEF Positions!PathsOf
<1>3. Positions!PathsOf(E, s) \subseteq DOMAIN Paths
  BY DEF Positions!PathsOf, RecordsOk
<1>4. IsFiniteSet(Positions!PathsOf(E, s))
  BY <1>3, PathsAreFinite, FS_Subset
<1>5. /\ IsFiniteSet(Positions!PathsOf(R, s))
      /\ Cardinality(Positions!PathsOf(R, s)) <= Cardinality(Positions!PathsOf(E, s))
  BY <1>2, <1>4, FS_Subset
<1> QED
  BY <1>1, <1>2, <1>3, <1>4, <1>5, FS_CardinalityType

LEMMA MapShows ==
    ASSUME NEW A, NEW R, NEW E, A \subseteq R, R \subseteq E, RecordsOk(E), OnePerPath(R)
    PROVE  ShowsStations(Positions!_scan_station_map(R).stations, A, E)
<1> DEFINE stations == Positions!_summarize_station_records(R)
<1>1. Positions!_scan_station_map(R).stations = stations
  BY DEF Positions!_scan_station_map
<1>2. /\ DOMAIN stations = {r.station : r \in R}
      /\ \A s \in DOMAIN stations : stations[s] = Positions!Summary(AtStation(R, s))
  BY DEF Positions!_summarize_station_records, AtStation
<1> HIDE DEF stations
<1>3. {r.station : r \in A} \subseteq DOMAIN stations
  BY <1>2
<1>4. ASSUME NEW s \in DOMAIN stations
      PROVE  /\ stations[s].count \in Cardinality(Positions!PathsOf(A, s))..Cardinality(Positions!PathsOf(E, s))
             /\ {stations[s].first, stations[s].last} \subseteq Positions!PathsOf(E, s)
             /\ Positions!DaysOf(A, s) \subseteq stations[s].days
             /\ stations[s].days \subseteq Positions!DaysOf(E, s)
             /\ \A z \in {r.x : r \in A} :
                    2 * Cardinality({r \in A : r.station = s /\ r.x = z}) > Cardinality(Positions!PathsOf(E, s))
                    => stations[s].twiceX = 2 * z
  <2> DEFINE G == AtStation(R, s)
             m == stations[s]
  <2>1. /\ m.count = Positions!Cardinality(G) /\ m.twiceX = Positions!TwiceMedian(G)
        /\ m.days = {Positions!_extract_archive_day(Paths[r.path].folder) : r \in G} \ {<< >>}
        /\ m.first = Positions!Min({r.path : r \in G}) /\ m.last = Positions!Max({r.path : r \in G})
    <3>1. m = Positions!Summary(G)
      BY <1>2
    <3> HIDE DEF G, m
    <3> QED
      BY <3>1 DEF Positions!Summary
  <2>2. G \subseteq R /\ G # {} /\ \A r \in G : r.station = s
    BY <1>2 DEF AtStation
  <2>3. RecordsOk(G) /\ OnePerPath(G) /\ RecordsOk(R)
    BY <2>2 DEF RecordsOk, OnePerPath
  <2>4. IsFiniteSet(G) /\ Cardinality(G) = Cardinality(Positions!PathsOf(R, s))
    BY <2>3, GroupSize, StationPaths
  <2>5. /\ Cardinality(Positions!PathsOf(A, s)) <= Cardinality(G) /\ Cardinality(Positions!PathsOf(A, s)) \in Nat
        /\ Cardinality(G) <= Cardinality(Positions!PathsOf(E, s)) /\ Cardinality(Positions!PathsOf(E, s)) \in Nat
        /\ Cardinality(G) \in Nat
    BY <2>3, <2>4, StationPaths
  <2>6. m.count \in Cardinality(Positions!PathsOf(A, s))..Cardinality(Positions!PathsOf(E, s))
    BY <2>1, <2>5, SameSize
  <2>7. {m.first, m.last} \subseteq Positions!PathsOf(E, s)
    <3>1. {r.path : r \in G} = Positions!PathsOf(R, s)
      BY <2>3, StationPaths
    <3>2. PICK k \in Nat : Positions!PathsOf(R, s) \subseteq 1..k
      BY <2>3, PathsAre, StationPaths
    <3>3. Positions!PathsOf(R, s) # {}
      BY <2>2, <3>1
    <3>4. m.first \in Positions!PathsOf(R, s) /\ m.last \in Positions!PathsOf(R, s)
      BY <2>1, <3>1, <3>2, <3>3, EndsOfGroup
    <3> QED
      BY <3>4, StationPaths
  <2>8. Positions!DaysOf(A, s) \subseteq m.days /\ m.days \subseteq Positions!DaysOf(E, s)
    <3>1. m.days = Positions!DaysOf(R, s)
      BY <2>1 DEF Positions!DaysOf, Positions!PathsOf, AtStation
    <3> QED
      BY <3>1 DEF Positions!DaysOf, Positions!PathsOf
  <2>9. ASSUME NEW z \in {r.x : r \in A},
               2 * Cardinality({r \in A : r.station = s /\ r.x = z}) > Cardinality(Positions!PathsOf(E, s))
        PROVE  m.twiceX = 2 * z
    <3> DEFINE KA == {r \in A : r.station = s /\ r.x = z}
               KG == {r \in G : r.x = z}
    <3>1. KA \subseteq KG /\ KG \subseteq G
      BY DEF AtStation
    <3>2. 2 * Cardinality(KA) > Cardinality(Positions!PathsOf(E, s))
      BY <2>9
    <3>3. ASSUME KA = {} PROVE FALSE
      <4>1. Cardinality(KA) = 0
        BY <3>3, FS_EmptySet
      <4> HIDE DEF KA
      <4> QED
        BY <2>5, <3>2, <4>1
    <3>4. z \in {r.x : r \in G}
      BY <3>1, <3>3
    <3> HIDE DEF KA
    <3>5. 2 * Cardinality(KG) > Cardinality(G)
      <4> HIDE DEF KG
      <4>1. IsFiniteSet(KG) /\ Cardinality(KG) \in Nat
        BY <2>4, <3>1, FS_Subset, FS_CardinalityType
      <4>2. Cardinality(KA) <= Cardinality(KG) /\ Cardinality(KA) \in Nat
        BY <3>1, <4>1, FS_Subset, FS_CardinalityType
      <4> QED
        BY <2>5, <3>2, <4>1, <4>2
    <3>6. \A r \in G : r.x \in Int
      BY <2>3 DEF RecordsOk
    <3> HIDE DEF G, m
    <3>7. Positions!TwiceMedian(G) = 2 * z
      BY <2>4, <3>4, <3>5, <3>6, MajorityIsMedian
    <3> QED
      BY <2>1, <3>7
  <2> HIDE DEF G
  <2> QED
    BY <2>6, <2>7, <2>8, <2>9
<1>5. ShowsStations(stations, A, E)
  BY <1>3, <1>4, SameSize DEF ShowsStations
<1> QED
  BY <1>1, <1>5

-----------------------------------------------------------------------------
(***************************************************************************)
(* What an archive tells, and what a tree does of a day.                   *)
(***************************************************************************)
LEMMA HeaderTells ==
    ASSUME NEW i, NEW zip, IsZip(zip)
    PROVE  /\ \A r \in Positions!_extract_station_header_record(i, zip) : r.path = i /\ r.x \in Int
           /\ \A q, r \in Positions!_extract_station_header_record(i, zip) : q = r
<1> DEFINE first == Positions!Stop(i, zip)
           RecordOf(n) == [path |-> i, station |-> Positions!StationOf(i, zip[n]),
                           marker |-> zip[n].marker, x |-> zip[n].x]
<1>1. Positions!_extract_station_header_record(i, zip)
        = {RecordOf(n) : n \in {k \in first : Positions!Tells(i, zip[k])}}
  BY DEF Positions!_extract_station_header_record
<1>2. DOMAIN zip \subseteq Int /\ \A n \in DOMAIN zip : zip[n].x \in Int
  BY DEF IsZip, IsList
<1>3. \A n \in first : n \in DOMAIN zip /\ \A k \in first : n <= k
  BY DEF Positions!Stop
<1>4. \A n, k \in first : n = k
  <2> HIDE DEF first
  <2> QED
    BY <1>2, <1>3
<1>5. \A n \in first : RecordOf(n).path = i /\ RecordOf(n).x \in Int
  BY <1>2, <1>3
<1> HIDE DEF first, RecordOf
<1> QED
  BY <1>1, <1>4, <1>5

ToldIn(day, t, r) ==
    \E i \in DOMAIN t.zips : /\ day \in Positions!Above(Paths[i].folder)
                             /\ r \in Positions!_extract_station_header_record(i, t.zips[i])

MapTreeOk(t) ==
    /\ IsFiniteSet(t.dirs) /\ \A g \in t.dirs : IsPath(g)
    /\ DOMAIN t.zips \subseteq DOMAIN Paths
    /\ \A i \in DOMAIN t.zips : IsZip(t.zips[i]) /\ Positions!Above(Paths[i].folder) \subseteq t.dirs

LEMMA FoldersArePaths == \A i \in DOMAIN Paths : IsPath(Paths[i].folder)
BY PositionsAssumption DEF IsPath, IsList

LEMMA ToldBy ==
    ASSUME NEW t, MapTreeOk(t), NEW day, NEW r, ToldIn(day, t, r)
    PROVE  /\ r.path \in DOMAIN t.zips /\ r.path \in DOMAIN Paths /\ r.x \in Int
           /\ day \in Positions!Above(Paths[r.path].folder)
           /\ r \in Positions!_extract_station_header_record(r.path, t.zips[r.path])
           /\ Positions!Above(Paths[r.path].folder) \subseteq t.dirs
<1>1. PICK i \in DOMAIN t.zips : /\ day \in Positions!Above(Paths[i].folder)
                                 /\ r \in Positions!_extract_station_header_record(i, t.zips[i])
  BY DEF ToldIn
<1>2. r.path = i /\ r.x \in Int
  BY <1>1, HeaderTells DEF MapTreeOk
<1> QED
  BY <1>1, <1>2 DEF MapTreeOk

-----------------------------------------------------------------------------
(***************************************************************************)
(* The invariant.  R was gathered in the trees S of ts: all of it was told *)
(* in one of them, and what was told in each is in it.                     *)
(***************************************************************************)
Gathers(day, R, ts, S) ==
    /\ OnePerPath(R)
    /\ \A r \in R : \E n \in S : ToldIn(day, ts[n], r)
    /\ \A r : (\A n \in S : ToldIn(day, ts[n], r)) => r \in R

MapTreesOk(ts, mo) ==
    /\ mo \in Int /\ IsPath(ts) /\ Len(ts) # 0
    /\ \A n \in 1..Len(ts) : MapTreeOk(ts[n]) /\ ts[n].at \in Int /\ ts[n].at <= mo

(* What is cached was gathered at most a scan before it was stored. *)
EntryOk(c, day, ts, mo) ==
    /\ c.at \in Int /\ c.at <= mo
    /\ \E R : \E a, b \in 1..Len(ts) :
          /\ a <= b
          /\ c.map = Positions!_scan_station_map(R) /\ Gathers(day, R, ts, a..b)
          /\ \A m \in (a + 1)..Len(ts) : ts[m].at >= c.at - Slowest

MapIsShown(w, ts) ==
    /\ w.span \subseteq 1..Len(ts)
    /\ \E R : w.map = Positions!_scan_station_map(R) /\ Gathers(w.day, R, ts, w.span)

(* The walk has archive i still to come: its folder's listing, or that of a *)
(* folder above it.                                                        *)
StillToCome(w, i) ==
    \/ i \in w.left
    \/ w.pc = "walks"
    \/ /\ w.pc \in {"zips", "folders"}
       /\ \E n \in DOMAIN w.todo : /\ w.todo[n] \in Positions!Above(Paths[i].folder)
                                   /\ ~(w.pc = "folders" /\ n = 1 /\ w.todo[n] = Paths[i].folder)

(* A scan that began in tree a of ts. *)
Progress(w, ts, a) ==
    /\ \A i \in w.left : i \in DOMAIN Paths /\ w.day \in Positions!Above(Paths[i].folder)
    /\ OnePerPath(w.records)
    /\ \A r \in w.records : r.path \notin w.left /\ \E n \in a..Len(ts) : ToldIn(w.day, ts[n], r)
    /\ w.pc # "reads" => w.records = {}
    /\ w.pc \in {"zips", "folders"} =>
          /\ IsPath(w.todo) /\ w.todo # << >>
          /\ \A n \in DOMAIN w.todo : IsPath(w.todo[n]) /\ w.day \in Positions!Above(w.todo[n])
    /\ \A r : (\A n \in a..Len(ts) : ToldIn(w.day, ts[n], r)) => r \in w.records \/ StillToCome(w, r.path)

ScanningPcs == {"walks", "zips", "folders", "reads"}

ScansSince(w, ts, a) ==
    /\ a \in w.from..Len(ts)
    /\ \A m \in (a + 1)..Len(ts) : ts[m].at >= w.began
    /\ Progress(w, ts, a)

ViewerFields == {"pc", "day", "refresh", "began", "from", "span", "todo", "left", "records", "map"}
ViewerOk(w, ts, mo) ==
    /\ DOMAIN w = ViewerFields
    /\ w.pc \in ScanningPcs \cup {"idle", "asks", "shown", "400", "404", "500"}
    /\ w.pc \in ScanningPcs \cup {"asks"} => w.from \in 1..Len(ts)
    /\ w.pc = "asks" => w.left = {} /\ w.records = {}
    /\ w.pc \in ScanningPcs =>
          /\ w.began \in Int /\ w.began <= mo /\ mo <= w.began + Slowest
          /\ \E a \in 1..Len(ts) : ScansSince(w, ts, a)
    /\ w.pc = "shown" => MapIsShown(w, ts)

CacheOk(cache, ts, mo) == \A d \in DOMAIN cache : EntryOk(cache[d], d, ts, mo)
ViewersOk(vs, ts, mo) == DOMAIN vs = Viewers /\ \A v \in Viewers : ViewerOk(vs[v], ts, mo)

PositionsInv ==
    /\ MapTreesOk(trees, moment) /\ CacheOk(_station_map_cache, trees, moment)
    /\ ViewersOk(viewer, trees, moment)

-----------------------------------------------------------------------------
(***************************************************************************)
(* More trees, and later: what was gathered was gathered.                  *)
(***************************************************************************)
LEMMA GathersStill ==
    ASSUME NEW day, NEW R, NEW ts, NEW ts1, NEW S, Gathers(day, R, ts, S), \A n \in S : ts1[n] = ts[n]
    PROVE  Gathers(day, R, ts1, S)
BY DEF Gathers

LEMMA GathersInMore ==
    ASSUME NEW day, NEW R, NEW ts, NEW S, NEW T, Gathers(day, R, ts, S), S \subseteq T
    PROVE  Gathers(day, R, ts, T)
BY DEF Gathers

LEMMA TreeAppended ==
    ASSUME NEW ts, NEW mo, MapTreesOk(ts, mo), NEW t, MapTreeOk(t), t.at = mo
    PROVE  /\ MapTreesOk(Append(ts, t), mo) /\ Len(Append(ts, t)) = Len(ts) + 1 /\ Len(ts) \in Nat
           /\ \A n \in 1..Len(ts) : Append(ts, t)[n] = ts[n]
           /\ Append(ts, t)[Len(ts) + 1] = t
<1>1. PICK N : ts \in Seq(N)
  BY DEF MapTreesOk, IsPath
<1>2. ts \in Seq(N \cup {t})
  BY <1>1, SeqMonotonic
<1>3. /\ Append(ts, t) \in Seq(N \cup {t}) /\ Len(Append(ts, t)) = Len(ts) + 1 /\ Len(ts) \in Nat
      /\ \A n \in 1..Len(ts) : Append(ts, t)[n] = ts[n]
      /\ Append(ts, t)[Len(ts) + 1] = t
  BY <1>2, AppendProperties, LenProperties
<1> DEFINE ts1 == Append(ts, t)
<1> HIDE DEF ts1
<1>4. ASSUME NEW n \in 1..(Len(ts) + 1) PROVE MapTreeOk(ts1[n]) /\ ts1[n].at \in Int /\ ts1[n].at <= mo
  <2>1. CASE n = Len(ts) + 1
    BY <1>3, <2>1 DEF ts1, MapTreesOk
  <2>2. CASE n \in 1..Len(ts)
    BY <1>3, <2>2 DEF ts1, MapTreesOk
  <2> QED
    BY <1>3, <2>1, <2>2
<1>5. IsPath(ts1)
  BY <1>3 DEF ts1, IsPath
<1>6. MapTreesOk(ts1, mo)
  BY <1>3, <1>4, <1>5 DEF ts1, MapTreesOk
<1> QED
  BY <1>3, <1>6 DEF ts1

(* Ts1 has one tree more than ts, of time mo. *)
Grown(ts, ts1, mo) ==
    /\ Len(ts) \in Nat /\ Len(ts1) = Len(ts) + 1
    /\ \A n \in 1..Len(ts) : ts1[n] = ts[n]
    /\ ts1[Len(ts) + 1].at = mo

LEMMA EntryStays ==
    ASSUME NEW c, NEW day, NEW ts, NEW ts1, NEW mo \in Int, EntryOk(c, day, ts, mo), Grown(ts, ts1, mo)
    PROVE  EntryOk(c, day, ts1, mo)
<1>1. Slowest \in Nat
  BY PositionsAssumption
<1>2. PICK R : \E a, b \in 1..Len(ts) :
          /\ a <= b
          /\ c.map = Positions!_scan_station_map(R) /\ Gathers(day, R, ts, a..b)
          /\ \A m \in (a + 1)..Len(ts) : ts[m].at >= c.at - Slowest
  BY DEF EntryOk
<1>2a. PICK a \in 1..Len(ts), b \in 1..Len(ts) :
          /\ a <= b
          /\ c.map = Positions!_scan_station_map(R) /\ Gathers(day, R, ts, a..b)
          /\ \A m \in (a + 1)..Len(ts) : ts[m].at >= c.at - Slowest
  BY <1>2
<1>3. a \in 1..Len(ts1) /\ b \in 1..Len(ts1)
  BY DEF Grown
<1>4. Gathers(day, R, ts1, a..b)
  <2>1. \A n \in a..b : ts1[n] = ts[n]
    BY DEF Grown
  <2> QED
    BY <1>2a, <2>1, GathersStill
<1>5. c.at \in Int /\ c.at <= mo
  BY DEF EntryOk
<1>6. ASSUME NEW m \in (a + 1)..Len(ts1) PROVE ts1[m].at >= c.at - Slowest
  <2>1. CASE m = Len(ts) + 1
    BY <1>1, <1>5, <2>1 DEF Grown
  <2>2. CASE m \in (a + 1)..Len(ts)
    <3>1. ts1[m] = ts[m]
      BY <2>2 DEF Grown
    <3> QED
      BY <1>2a, <2>2, <3>1
  <2> QED
    BY <2>1, <2>2 DEF Grown
<1> QED
  BY <1>2a, <1>3, <1>4, <1>5, <1>6 DEF EntryOk

LEMMA ViewerStays ==
    ASSUME NEW w, NEW ts, NEW ts1, NEW mo \in Int, ViewerOk(w, ts, mo), Grown(ts, ts1, mo)
    PROVE  ViewerOk(w, ts1, mo)
<1>1. ASSUME w.pc \in ScanningPcs PROVE \E a \in 1..Len(ts1) : ScansSince(w, ts1, a)
  <2>1. w.from \in 1..Len(ts) /\ w.began \in Int /\ w.began <= mo
    BY <1>1 DEF ViewerOk
  <2>2. PICK a \in 1..Len(ts) : ScansSince(w, ts, a)
    BY <1>1 DEF ViewerOk
  <2>3. a \in w.from..Len(ts1) /\ a \in 1..Len(ts1)
    BY <2>1, <2>2 DEF ScansSince, Grown
  <2>4. ASSUME NEW m \in (a + 1)..Len(ts1) PROVE ts1[m].at >= w.began
    <3>1. CASE m = Len(ts) + 1
      BY <2>1, <3>1 DEF Grown
    <3>2. CASE m \in (a + 1)..Len(ts)
      <4>1. ts1[m] = ts[m]
        BY <3>2 DEF Grown
      <4> QED
        BY <2>2, <3>2, <4>1 DEF ScansSince
    <3> QED
      BY <3>1, <3>2 DEF Grown
  <2>5. a..Len(ts) \subseteq a..Len(ts1) /\ \A n \in a..Len(ts) : ts1[n] = ts[n]
    BY DEF Grown
  <2>6. Progress(w, ts, a)
    BY <2>2 DEF ScansSince
  <2>7. Progress(w, ts1, a)
    <3>1. ASSUME NEW r \in w.records PROVE \E n \in a..Len(ts1) : ToldIn(w.day, ts1[n], r)
      <4>1. PICK n \in a..Len(ts) : ToldIn(w.day, ts[n], r)
        BY <2>6 DEF Progress
      <4> QED
        BY <2>5, <4>1
    <3>2. ASSUME NEW r, \A n \in a..Len(ts1) : ToldIn(w.day, ts1[n], r)
          PROVE  r \in w.records \/ StillToCome(w, r.path)
      <4>1. \A n \in a..Len(ts) : ToldIn(w.day, ts[n], r)
        BY <2>5, <3>2
      <4> QED
        BY <2>6, <4>1 DEF Progress
    <3> QED
      BY <2>6, <3>1, <3>2 DEF Progress
  <2> QED
    BY <2>3, <2>4, <2>7 DEF ScansSince
<1>2. ASSUME w.pc = "shown" PROVE MapIsShown(w, ts1)
  <2>1. w.span \subseteq 1..Len(ts)
    BY <1>2 DEF ViewerOk, MapIsShown
  <2>2. PICK R : w.map = Positions!_scan_station_map(R) /\ Gathers(w.day, R, ts, w.span)
    BY <1>2 DEF ViewerOk, MapIsShown
  <2>3. \A n \in w.span : ts1[n] = ts[n]
    BY <2>1 DEF Grown
  <2>4. Gathers(w.day, R, ts1, w.span)
    BY <2>2, <2>3, GathersStill
  <2>5. w.span \subseteq 1..Len(ts1)
    BY <2>1 DEF Grown
  <2> QED
    BY <2>2, <2>4, <2>5 DEF MapIsShown
<1>3. 1..Len(ts) \subseteq 1..Len(ts1)
  BY DEF Grown
<1> QED
  BY <1>1, <1>2, <1>3 DEF ViewerOk

LEMMA MapTicks ==
    ASSUME Positions!Tick, PositionsInv
    PROVE  PositionsInv'
<1>1. /\ moment' = moment + 1 /\ UNCHANGED <<trees, _station_map_cache, viewer>>
      /\ \A v \in Viewers : viewer[v].pc \in ScanningPcs => moment - viewer[v].began < Slowest
  BY DEF Positions!Tick, ScanningPcs
<1>2. moment \in Int /\ Slowest \in Nat
  BY PositionsAssumption DEF PositionsInv, MapTreesOk
<1>3. MapTreesOk(trees, moment + 1)
  BY <1>2 DEF PositionsInv, MapTreesOk
<1>4. CacheOk(_station_map_cache, trees, moment + 1)
  BY <1>2 DEF PositionsInv, CacheOk, EntryOk
<1>5. ASSUME NEW v \in Viewers PROVE ViewerOk(viewer[v], trees, moment + 1)
  <2>1. ViewerOk(viewer[v], trees, moment)
    BY DEF PositionsInv, ViewersOk
  <2>2. viewer[v].pc \in ScanningPcs => /\ viewer[v].began \in Int /\ viewer[v].began <= moment + 1
                                        /\ moment + 1 <= viewer[v].began + Slowest
    BY <1>1, <1>2, <2>1 DEF ViewerOk
  <2> QED
    BY <2>1, <2>2 DEF ViewerOk
<1>6. ViewersOk(viewer, trees, moment + 1)
  BY <1>5 DEF PositionsInv, ViewersOk
<1> QED
  BY <1>1, <1>3, <1>4, <1>6 DEF PositionsInv

-----------------------------------------------------------------------------
(***************************************************************************)
(* The archive changes.                                                    *)
(***************************************************************************)
LEMMA TreeIsLast ==
    ASSUME NEW mo, MapTreesOk(trees, mo)
    PROVE  /\ Positions!Tree = trees[Len(trees)] /\ MapTreeOk(Positions!Tree)
           /\ Len(trees) \in Nat /\ Len(trees) \in 1..Len(trees) /\ DOMAIN trees = 1..Len(trees)
<1>1. Len(trees) \in Nat /\ Len(trees) # 0 /\ DOMAIN trees = 1..Len(trees)
  BY DEF MapTreesOk, IsPath
<1>2. Positions!Tree = trees[Len(trees)]
  BY DEF Positions!Tree, Positions!Last
<1> QED
  BY <1>1, <1>2 DEF MapTreesOk

LEMMA MapBecomes ==
    ASSUME PositionsInv, NEW dirs, NEW zips, Positions!Becomes(dirs, zips),
           IsFiniteSet(dirs), \A g \in dirs : IsPath(g), DOMAIN zips \subseteq DOMAIN Paths,
           \A i \in DOMAIN zips : IsZip(zips[i]) /\ Positions!Above(Paths[i].folder) \subseteq dirs
    PROVE  PositionsInv'
<1> DEFINE t == [at |-> moment, dirs |-> dirs, zips |-> zips]
<1>1. trees' = Append(trees, t) /\ UNCHANGED <<moment, _station_map_cache, viewer>>
  BY DEF Positions!Becomes
<1>2. MapTreeOk(t) /\ t.at = moment
  BY DEF MapTreeOk
<1> HIDE DEF t
<1>3. MapTreesOk(trees, moment) /\ moment \in Int
  BY DEF PositionsInv, MapTreesOk
<1>4. MapTreesOk(Append(trees, t), moment) /\ Grown(trees, Append(trees, t), moment)
  BY <1>2, <1>3, TreeAppended DEF Grown
<1>5. CacheOk(_station_map_cache, Append(trees, t), moment)
  BY <1>3, <1>4, EntryStays DEF PositionsInv, CacheOk
<1>6. ViewersOk(viewer, Append(trees, t), moment)
  BY <1>3, <1>4, ViewerStays DEF PositionsInv, ViewersOk
<1> QED
  BY <1>1, <1>4, <1>5, <1>6 DEF PositionsInv

LEMMA MapChanges ==
    ASSUME PositionsInv, Positions!Changes
    PROVE  PositionsInv'
<1> DEFINE t == Positions!Tree
<1>1. MapTreeOk(t)
  BY TreeIsLast DEF PositionsInv
<1>2. ASSUME NEW i \in DOMAIN Paths, NEW zip \in Zips, Positions!ArchiveIsWritten(i, zip)
      PROVE  PositionsInv'
  <2> DEFINE dirs == t.dirs \cup Positions!Above(Paths[i].folder)
             zips == [j \in DOMAIN t.zips \cup {i} |-> IF j = i THEN zip ELSE t.zips[j]]
  <2>1. Positions!Becomes(dirs, zips)
    BY <1>2, Zenon DEF Positions!ArchiveIsWritten
  <2>2. IsPath(Paths[i].folder) /\ IsZip(zip)
    BY FoldersArePaths, PositionsAssumption
  <2>3. IsFiniteSet(dirs)
    <3>1. IsFiniteSet(t.dirs) /\ IsFiniteSet(Positions!Above(Paths[i].folder))
      BY <1>1, <2>2, AboveIsFinite DEF MapTreeOk
    <3> QED
      BY <3>1, FS_Union
  <2>4. \A g \in dirs : IsPath(g)
    BY <1>1, <2>2, AboveIs DEF MapTreeOk
  <2>5. /\ DOMAIN zips \subseteq DOMAIN Paths
        /\ \A j \in DOMAIN zips : IsZip(zips[j]) /\ Positions!Above(Paths[j].folder) \subseteq dirs
    BY <1>1, <2>2 DEF MapTreeOk
  <2> HIDE DEF dirs, zips
  <2> QED
    BY <2>1, <2>3, <2>4, <2>5, MapBecomes
<1>3. ASSUME NEW i \in DOMAIN t.zips, Positions!ArchiveIsRemoved(i)
      PROVE  PositionsInv'
  <2> DEFINE zips == [j \in DOMAIN t.zips \ {i} |-> t.zips[j]]
  <2>1. Positions!Becomes(t.dirs, zips)
    BY <1>3, Zenon DEF Positions!ArchiveIsRemoved, Positions!Without
  <2>2. /\ DOMAIN zips \subseteq DOMAIN Paths
        /\ \A j \in DOMAIN zips : IsZip(zips[j]) /\ Positions!Above(Paths[j].folder) \subseteq t.dirs
    BY <1>1 DEF MapTreeOk
  <2>3. IsFiniteSet(t.dirs) /\ \A g \in t.dirs : IsPath(g)
    BY <1>1 DEF MapTreeOk
  <2> HIDE DEF zips, t
  <2> QED
    BY <2>1, <2>2, <2>3, MapBecomes
<1>4. ASSUME NEW f \in t.dirs, Positions!FolderIsRemoved(f)
      PROVE  PositionsInv'
  <2> DEFINE dirs == {g \in t.dirs : f \notin Positions!Above(g)}
             gone == {i \in DOMAIN t.zips : f \in Positions!Above(Paths[i].folder)}
             zips == [j \in DOMAIN t.zips \ gone |-> t.zips[j]]
  <2>1. Positions!Becomes(dirs, zips)
    BY <1>4, Zenon DEF Positions!FolderIsRemoved, Positions!Without
  <2>2. IsFiniteSet(dirs) /\ \A g \in dirs : IsPath(g)
    BY <1>1, FS_Subset DEF MapTreeOk
  <2>3. ASSUME NEW j \in DOMAIN zips PROVE IsZip(zips[j]) /\ Positions!Above(Paths[j].folder) \subseteq dirs
    <3>1. j \in DOMAIN t.zips /\ zips[j] = t.zips[j] /\ f \notin Positions!Above(Paths[j].folder)
      OBVIOUS
    <3>2. IsZip(t.zips[j]) /\ Positions!Above(Paths[j].folder) \subseteq t.dirs /\ j \in DOMAIN Paths
      BY <1>1, <3>1 DEF MapTreeOk
    <3>3. \A g \in Positions!Above(Paths[j].folder) : f \notin Positions!Above(g)
      BY <3>1, <3>2, AboveTrans, FoldersArePaths
    <3> HIDE DEF zips
    <3> QED
      BY <3>1, <3>2, <3>3
  <2>4. DOMAIN zips \subseteq DOMAIN Paths
    BY <1>1 DEF MapTreeOk
  <2> HIDE DEF dirs, zips
  <2> QED
    BY <2>1, <2>2, <2>3, <2>4, MapBecomes
<1> QED
  BY <1>2, <1>3, <1>4 DEF Positions!Changes

-----------------------------------------------------------------------------
(***************************************************************************)
(* A request goes on to the state w1.                                      *)
(***************************************************************************)
ViewerIs(w, pc, day, began, from, todo, left, records) ==
    /\ DOMAIN w = ViewerFields
    /\ w.pc = pc /\ w.day = day /\ w.began = began /\ w.from = from
    /\ w.todo = todo /\ w.left = left /\ w.records = records

LEMMA ViewerGoes ==
    ASSUME PositionsInv, NEW v \in Viewers, NEW w1, Positions!Goes(v, w1), ViewerOk(w1, trees, moment)
    PROVE  /\ ViewersOk(viewer', trees, moment) /\ UNCHANGED <<trees, moment>>
           /\ UNCHANGED _station_map_cache => PositionsInv'
<1>1. viewer' = [viewer EXCEPT ![v] = w1] /\ UNCHANGED <<trees, moment>>
  BY DEF Positions!Goes
<1>2. ViewersOk(viewer, trees, moment)
  BY DEF PositionsInv
<1>3. ViewersOk(viewer', trees, moment)
  BY <1>1, <1>2 DEF ViewersOk
<1>4. ASSUME UNCHANGED _station_map_cache PROVE PositionsInv'
  BY <1>1, <1>3, <1>4 DEF PositionsInv
<1> QED
  BY <1>1, <1>3, <1>4

LEMMA RefusedIsOk ==
    ASSUME PositionsInv, NEW v \in Viewers, NEW status \in {"400", "404", "500"}, Positions!IsRefused(v, status),
           UNCHANGED _station_map_cache
    PROVE  PositionsInv'
<1> DEFINE w1 == [Positions!Away EXCEPT !.pc = status]
<1>1. Positions!Goes(v, w1)
  BY Zenon DEF Positions!IsRefused
<1>2. DOMAIN w1 = ViewerFields /\ w1.pc = status
  BY DEF Positions!Away, ViewerFields
<1> HIDE DEF w1
<1>3. ViewerOk(w1, trees, moment)
  BY <1>2 DEF ViewerOk, ScanningPcs
<1> QED
  BY <1>1, <1>3, ViewerGoes

LEMMA AsksIsOk ==
    ASSUME PositionsInv, NEW v \in Viewers, NEW day, NEW refresh, Positions!Asks(v, day, refresh)
    PROVE  PositionsInv'
<1> DEFINE w1 == [Positions!Away EXCEPT !.pc = "asks", !.day = day, !.refresh = refresh, !.from = Len(trees)]
<1>1. Positions!Goes(v, w1) /\ UNCHANGED _station_map_cache
  BY Zenon DEF Positions!Asks
<1>2. /\ DOMAIN w1 = ViewerFields /\ w1.pc = "asks" /\ w1.from = Len(trees)
      /\ w1.left = {} /\ w1.records = {}
  BY DEF Positions!Away, ViewerFields
<1> HIDE DEF w1
<1>3. Len(trees) \in 1..Len(trees)
  BY TreeIsLast DEF PositionsInv
<1>4. ViewerOk(w1, trees, moment)
  BY <1>2, <1>3 DEF ViewerOk, ScanningPcs
<1> QED
  BY <1>1, <1>4, ViewerGoes

(* The state of a request whose scan goes on. *)
LEMMA ScanGoesOn ==
    ASSUME NEW v \in Viewers, PositionsInv, viewer[v].pc \in ScanningPcs, NEW w1,
           DOMAIN w1 = ViewerFields, w1.pc \in ScanningPcs, w1.from = viewer[v].from, w1.began = viewer[v].began,
           \A a \in 1..Len(trees) : Progress(viewer[v], trees, a) => Progress(w1, trees, a)
    PROVE  ViewerOk(w1, trees, moment)
<1> DEFINE w == viewer[v]
<1>1. ViewerOk(w, trees, moment)
  BY DEF PositionsInv, ViewersOk
<1>2. /\ w.from \in 1..Len(trees) /\ w.began \in Int /\ w.began <= moment /\ moment <= w.began + Slowest
  BY <1>1 DEF ViewerOk
<1>3. PICK a \in 1..Len(trees) : ScansSince(w, trees, a)
  BY <1>1 DEF ViewerOk
<1>4. ScansSince(w1, trees, a)
  BY <1>3 DEF ScansSince
<1>5. w1.pc # "asks" /\ w1.pc # "shown"
  BY DEF ScanningPcs
<1> QED
  BY <1>2, <1>4, <1>5 DEF ViewerOk

(* A page, or a scan that begins. *)
LEMMA LooksUpIsOk ==
    ASSUME PositionsInv, NEW v \in Viewers, Positions!LooksUp(v)
    PROVE  PositionsInv'
<1> DEFINE w == viewer[v]
           key == Positions!_build_cache_key(w.day)
<1>1. ViewerOk(w, trees, moment) /\ w.pc = "asks" /\ UNCHANGED _station_map_cache
  BY DEF PositionsInv, ViewersOk, Positions!LooksUp
<1>2. /\ w.from \in 1..Len(trees) /\ w.left = {} /\ w.records = {} /\ DOMAIN w = ViewerFields
  BY <1>1 DEF ViewerOk
<1>3. /\ MapTreesOk(trees, moment) /\ moment \in Int /\ Len(trees) \in Nat /\ Len(trees) \in 1..Len(trees)
      /\ DOMAIN trees = 1..Len(trees)
  BY TreeIsLast DEF PositionsInv, MapTreesOk
<1>4. MapTtl \in Nat /\ Slowest \in Nat
  BY PositionsAssumption
<1>5. \/ Positions!IsRefused(v, "404") \/ Positions!IsRefused(v, "400")
      \/ /\ Positions!Cached(v)
         /\ Positions!IsShown(v, Positions!HitSees(v), _station_map_cache[key].map)
      \/ Positions!Goes(v, [w EXCEPT !.pc = "walks", !.refresh = FALSE, !.began = moment])
  BY Zenon DEF Positions!LooksUp
<1>6. CASE Positions!IsRefused(v, "404") \/ Positions!IsRefused(v, "400")
  BY <1>1, <1>6, RefusedIsOk
<1>7. CASE Positions!Cached(v) /\ Positions!IsShown(v, Positions!HitSees(v), _station_map_cache[key].map)
  <2> DEFINE span == Positions!HitSees(v)
             map == _station_map_cache[key].map
             w1 == [Positions!Away EXCEPT !.pc = "shown", !.day = viewer[v].day, !.span = span, !.map = map]
  <2>1. Positions!Goes(v, w1)
    BY <1>7, Zenon DEF Positions!IsShown
  <2>2. key = w.day
    BY DEF Positions!_build_cache_key
  <2>3. key \in DOMAIN _station_map_cache /\ ~w.refresh /\ moment - _station_map_cache[key].at < MapTtl
    BY <1>7 DEF Positions!Cached
  <2>4. DOMAIN w1 = ViewerFields /\ w1.pc = "shown" /\ w1.day = w.day /\ w1.span = span /\ w1.map = map
    BY DEF Positions!Away, ViewerFields
  <2>5. span = {n \in DOMAIN trees : \A m \in DOMAIN trees : m > n => trees[m].at > moment - MapTtl - Slowest}
    BY <2>3 DEF Positions!HitSees
  <2> DEFINE c == _station_map_cache[key]
  <2> HIDE DEF w1, span, key
  <2>6. EntryOk(c, key, trees, moment)
    BY <2>3 DEF PositionsInv, CacheOk
  <2>7. c.at \in Int /\ moment - c.at < MapTtl
    BY <2>3, <2>6 DEF EntryOk
  <2>8. PICK R : \E a, b \in 1..Len(trees) :
            /\ a <= b
            /\ c.map = Positions!_scan_station_map(R) /\ Gathers(key, R, trees, a..b)
            /\ \A m \in (a + 1)..Len(trees) : trees[m].at >= c.at - Slowest
    BY <2>6 DEF EntryOk
  <2>9. PICK a \in 1..Len(trees), b \in 1..Len(trees) :
            /\ a <= b
            /\ c.map = Positions!_scan_station_map(R) /\ Gathers(key, R, trees, a..b)
            /\ \A m \in (a + 1)..Len(trees) : trees[m].at >= c.at - Slowest
    BY <2>8
  <2>10. a..b \subseteq span
    <3>1. ASSUME NEW n \in a..b, NEW m \in DOMAIN trees, m > n PROVE trees[m].at > moment - MapTtl - Slowest
      <4>1. m \in (a + 1)..Len(trees)
        BY <1>3, <3>1
      <4>2. trees[m].at >= c.at - Slowest /\ trees[m].at \in Int
        BY <1>3, <2>9, <4>1 DEF MapTreesOk
      <4> HIDE DEF c
      <4> QED
        BY <1>3, <1>4, <2>7, <4>2
    <3>2. a..b \subseteq DOMAIN trees
      BY <1>3
    <3> QED
      BY <2>5, <3>1, <3>2
  <2>11. Gathers(w.day, R, trees, span)
    BY <2>2, <2>9, <2>10, GathersInMore
  <2>12. span \subseteq 1..Len(trees)
    BY <1>3, <2>5
  <2>13. MapIsShown(w1, trees)
    BY <2>4, <2>9, <2>11, <2>12 DEF MapIsShown
  <2>14. ViewerOk(w1, trees, moment)
    BY <2>4, <2>13 DEF ViewerOk, ScanningPcs
  <2> QED
    BY <1>1, <2>1, <2>14, ViewerGoes
<1>8. CASE Positions!Goes(v, [w EXCEPT !.pc = "walks", !.refresh = FALSE, !.began = moment])
  <2> DEFINE w1 == [w EXCEPT !.pc = "walks", !.refresh = FALSE, !.began = moment]
  <2>1. /\ DOMAIN w1 = ViewerFields /\ w1.pc = "walks" /\ w1.began = moment /\ w1.from = w.from
        /\ w1.left = {} /\ w1.records = {}
    BY <1>2 DEF ViewerFields
  <2> HIDE DEF w1
  <2>2. Progress(w1, trees, Len(trees))
    BY <2>1 DEF Progress, StillToCome, OnePerPath
  <2>3. ScansSince(w1, trees, Len(trees))
    BY <1>2, <1>3, <2>1, <2>2 DEF ScansSince
  <2>4. moment <= moment /\ moment <= moment + Slowest
    BY <1>3, <1>4
  <2>5. ViewerOk(w1, trees, moment)
    BY <1>2, <1>3, <2>1, <2>3, <2>4 DEF ViewerOk, ScanningPcs
  <2> QED
    BY <1>1, <1>8, <2>5, ViewerGoes DEF w1
<1> QED
  BY <1>5, <1>6, <1>7, <1>8

(* What is told in every tree since a is told now. *)
LEMMA ToldNow ==
    ASSUME NEW a \in 1..Len(trees), MapTreesOk(trees, moment), NEW day, NEW r,
           \A n \in a..Len(trees) : ToldIn(day, trees[n], r)
    PROVE  /\ r.path \in DOMAIN Positions!Tree.zips /\ r.path \in DOMAIN Paths
           /\ day \in Positions!Above(Paths[r.path].folder)
           /\ r \in Positions!_extract_station_header_record(r.path, Positions!Tree.zips[r.path])
           /\ Positions!Above(Paths[r.path].folder) \subseteq Positions!Tree.dirs
<1>1. /\ Positions!Tree = trees[Len(trees)] /\ MapTreeOk(Positions!Tree) /\ Len(trees) \in a..Len(trees)
  BY TreeIsLast
<1>2. ToldIn(day, Positions!Tree, r)
  BY <1>1
<1> QED
  BY <1>1, <1>2, ToldBy

LEMMA StartsWalkIsOk ==
    ASSUME PositionsInv, NEW v \in Viewers, Positions!StartsWalk(v)
    PROVE  PositionsInv'
<1> DEFINE w == viewer[v]
<1>1. /\ ViewerOk(w, trees, moment) /\ w.pc = "walks" /\ UNCHANGED _station_map_cache
      /\ MapTreesOk(trees, moment) /\ DOMAIN w = ViewerFields
  BY DEF PositionsInv, ViewersOk, Positions!StartsWalk, ViewerOk
<1>2. CASE w.day \in Positions!Tree.dirs
  <2> DEFINE w1 == [viewer[v] EXCEPT !.pc = "zips", !.todo = <<viewer[v].day>>]
  <2>1. Positions!Goes(v, w1)
    BY <1>2, Zenon DEF Positions!StartsWalk
  <2>2. ViewerIs(w1, "zips", w.day, w.began, w.from, <<w.day>>, w.left, w.records)
    BY <1>1 DEF ViewerFields, ViewerIs
  <2> HIDE DEF w1
  <2>3. IsPath(w.day) /\ w.day \in Positions!Above(w.day)
    BY <1>1, <1>2, TreeIsLast, AboveItself DEF MapTreeOk
  <2>4. IsPath(<<w.day>>) /\ <<w.day>> # << >> /\ DOMAIN <<w.day>> = {1} /\ <<w.day>>[1] = w.day
    <3>1. <<w.day>> \in Seq({w.day}) /\ Len(<<w.day>>) = 1
      OBVIOUS
    <3>2. DOMAIN <<w.day>> = 1..1 /\ <<w.day>> # << >>
      BY <3>1
    <3>3. 1..1 = {1}
      OBVIOUS
    <3>4. IsPath(<<w.day>>)
      BY <3>1 DEF IsPath
    <3> QED
      BY <3>2, <3>3, <3>4
  <2>5. ASSUME NEW a \in 1..Len(trees), Progress(w, trees, a) PROVE Progress(w1, trees, a)
    <3>1. ASSUME NEW r, \A n \in a..Len(trees) : ToldIn(w.day, trees[n], r)
          PROVE  StillToCome(w1, r.path)
      <4>1. w.day \in Positions!Above(Paths[r.path].folder)
        BY <1>1, <3>1, ToldNow
      <4> QED
        BY <2>2, <2>4, <4>1 DEF StillToCome, ViewerIs
    <3>2. w1.todo = <<w.day>> /\ w1.day = w.day /\ w1.left = w.left /\ w1.records = w.records /\ w1.pc = "zips"
      BY <2>2 DEF ViewerIs
    <3>3. w.records = {}
      BY <1>1, <2>5 DEF Progress
    <3>4. \A n \in DOMAIN w1.todo : w1.todo[n] = w.day
      BY <2>4, <3>2
    <3> QED
      BY <2>3, <2>4, <2>5, <3>1, <3>2, <3>3, <3>4 DEF Progress
  <2>6. ViewerOk(w1, trees, moment)
    BY <1>1, <2>2, <2>5, ScanGoesOn DEF ViewerIs, ScanningPcs
  <2> QED
    BY <1>1, <2>1, <2>6, ViewerGoes
<1>3. CASE w.day \notin Positions!Tree.dirs
  <2> DEFINE w1 == [viewer[v] EXCEPT !.pc = "reads"]
  <2>1. Positions!Goes(v, w1)
    BY <1>3, Zenon DEF Positions!StartsWalk
  <2>2. ViewerIs(w1, "reads", w.day, w.began, w.from, w.todo, w.left, w.records)
    BY <1>1 DEF ViewerFields, ViewerIs
  <2> HIDE DEF w1
  <2>3. ASSUME NEW a \in 1..Len(trees), Progress(w, trees, a) PROVE Progress(w1, trees, a)
    <3>1. ASSUME NEW r, \A n \in a..Len(trees) : ToldIn(w.day, trees[n], r) PROVE FALSE
      BY <1>1, <1>3, <3>1, ToldNow
    <3>2. w1.day = w.day /\ w1.left = w.left /\ w1.records = w.records /\ w1.pc = "reads"
      BY <2>2 DEF ViewerIs
    <3> QED
      BY <2>3, <3>1, <3>2 DEF Progress
  <2>4. ViewerOk(w1, trees, moment)
    BY <1>1, <2>2, <2>3, ScanGoesOn DEF ViewerIs, ScanningPcs
  <2> QED
    BY <1>1, <2>1, <2>4, ViewerGoes
<1> QED
  BY <1>2, <1>3

(* The folder at the head of what is to be walked. *)
LEMMA HeadIs ==
    ASSUME NEW s, IsPath(s), s # << >>
    PROVE  Head(s) = s[1] /\ 1 \in DOMAIN s
<1>1. PICK N : s \in Seq(N)
  BY DEF IsPath
<1> QED
  BY <1>1

LEMMA ListsZipsIsOk ==
    ASSUME PositionsInv, NEW v \in Viewers, Positions!ListsZips(v)
    PROVE  PositionsInv'
<1> DEFINE w == viewer[v]
           f == Head(viewer[v].todo)
           here == {i \in DOMAIN Positions!Tree.zips : Paths[i].folder = f}
<1>1. /\ ViewerOk(w, trees, moment) /\ w.pc = "zips" /\ UNCHANGED _station_map_cache
      /\ MapTreesOk(trees, moment) /\ DOMAIN w = ViewerFields
  BY DEF PositionsInv, ViewersOk, Positions!ListsZips, ViewerOk
<1>2. CASE f \in Positions!Tree.dirs
  <2> DEFINE w1 == [viewer[v] EXCEPT !.pc = "folders", !.left = @ \cup here]
  <2>1. Positions!Goes(v, w1)
    BY <1>2, Zenon DEF Positions!ListsZips
  <2>2. ViewerIs(w1, "folders", w.day, w.began, w.from, w.todo, w.left \cup here, w.records)
    BY <1>1 DEF ViewerFields, ViewerIs
  <2> HIDE DEF w1
  <2>3. ASSUME NEW a \in 1..Len(trees), Progress(w, trees, a) PROVE Progress(w1, trees, a)
    <3>1. /\ w1.day = w.day /\ w1.left = w.left \cup here /\ w1.records = w.records /\ w1.pc = "folders"
          /\ w1.todo = w.todo
      BY <2>2 DEF ViewerIs
    <3>2. /\ w.records = {} /\ IsPath(w.todo) /\ w.todo # << >>
          /\ \A n \in DOMAIN w.todo : IsPath(w.todo[n]) /\ w.day \in Positions!Above(w.todo[n])
      BY <1>1, <2>3 DEF Progress
    <3>3. f = w.todo[1] /\ 1 \in DOMAIN w.todo
      BY <3>2, HeadIs
    <3>4. here \subseteq DOMAIN Paths
      BY <1>1, TreeIsLast DEF MapTreeOk
    <3>5. \A i \in here : w.day \in Positions!Above(Paths[i].folder)
      BY <3>2, <3>3
    <3>6. ASSUME NEW r, \A n \in a..Len(trees) : ToldIn(w.day, trees[n], r)
          PROVE  StillToCome(w1, r.path)
      <4>1. r.path \in DOMAIN Positions!Tree.zips
        BY <1>1, <3>6, ToldNow
      <4>2. StillToCome(w, r.path)
        BY <2>3, <3>2, <3>6 DEF Progress
      <4>3. CASE Paths[r.path].folder = f
        BY <3>1, <4>1, <4>3 DEF StillToCome
      <4>4. CASE Paths[r.path].folder # f
        <5>1. CASE r.path \in w.left
          BY <3>1, <5>1 DEF StillToCome
        <5>2. CASE \E n \in DOMAIN w.todo : w.todo[n] \in Positions!Above(Paths[r.path].folder)
          BY <3>1, <3>3, <4>4, <5>2 DEF StillToCome
        <5> QED
          BY <1>1, <4>2, <5>1, <5>2 DEF StillToCome
      <4> QED
        BY <4>3, <4>4
    <3> HIDE DEF here
    <3> QED
      BY <2>3, <3>1, <3>2, <3>4, <3>5, <3>6 DEF Progress
  <2>4. ViewerOk(w1, trees, moment)
    BY <1>1, <2>2, <2>3, ScanGoesOn DEF ViewerIs, ScanningPcs
  <2> QED
    BY <1>1, <2>1, <2>4, ViewerGoes
<1>3. CASE f \notin Positions!Tree.dirs
  <2>1. Positions!IsRefused(v, "404")
    BY <1>3, Zenon DEF Positions!ListsZips
  <2> QED
    BY <1>1, <2>1, RefusedIsOk
<1> QED
  BY <1>2, <1>3

(* The orders of a finite set are sequences with all of its elements. *)
LEMMA OrdersAreWhole ==
    ASSUME NEW S, IsFiniteSet(S), NEW order \in Positions!SetToSeqs(S)
    PROVE  order \in Seq(S) /\ \A y \in S : \E n \in 1..Len(order) : order[n] = y
<1> DEFINE k == Cardinality(S)
<1>1. k \in Nat
  BY FS_CardinalityType
<1>2. order \in [1..k -> S] /\ \A i, j \in 1..k : i # j => order[i] # order[j]
  BY SameSize DEF Positions!SetToSeqs
<1>3. order \in Injection(1..k, S)
  BY <1>2 DEF Injection, IsInjective
<1>4. Cardinality(1..k) = k
  BY <1>1, FS_Interval
<1>5. order \in Surjection(1..k, S)
  BY <1>3, <1>4, FS_Injection
<1> HIDE DEF k
<1>6. order \in Seq(S) /\ Len(order) = k
  BY <1>1, <1>2
<1> QED
  BY <1>5, <1>6 DEF Surjection

(* Subfolders first, then the rest of what is to be walked. *)
Joins(all, order, todo) ==
    /\ IsPath(all)
    /\ \A n \in DOMAIN all : \/ \E k \in 1..Len(order) : all[n] = order[k]
                             \/ \E k \in DOMAIN todo : all[n] = todo[k]
    /\ \A k \in 1..Len(order) : \E n \in DOMAIN all : all[n] = order[k]
    /\ \A k \in DOMAIN todo : k # 1 => \E n \in DOMAIN all : all[n] = todo[k]

LEMMA WalksOn ==
    ASSUME NEW order, IsPath(order), NEW todo, IsPath(todo), todo # << >>,
           NEW all, all = order \o Tail(todo)
    PROVE  Joins(all, order, todo)
<1>1. PICK N, S : todo \in Seq(N) /\ order \in Seq(S)
  BY DEF IsPath
<1> DEFINE rest == Tail(todo)
<1>2. /\ rest \in Seq(N) /\ Len(rest) = Len(todo) - 1 /\ \A i \in 1..Len(rest) : rest[i] = todo[i + 1]
      /\ Len(todo) \in Nat /\ Len(rest) \in Nat /\ DOMAIN todo = 1..Len(todo)
  BY <1>1, HeadTailProperties, LenProperties
<1>2a. all = order \o rest
  OBVIOUS
<1> HIDE DEF rest
<1>3. order \in Seq(S \cup N) /\ rest \in Seq(S \cup N) /\ Len(order) \in Nat
  BY <1>1, <1>2, SeqMonotonic, LenProperties
<1>4. /\ all \in Seq(S \cup N) /\ Len(all) = Len(order) + Len(rest)
      /\ \A i \in 1..(Len(order) + Len(rest)) : all[i] = IF i <= Len(order) THEN order[i] ELSE rest[i - Len(order)]
  <2> DEFINE T == S \cup N
  <2>1. order \in Seq(T) /\ rest \in Seq(T)
    BY <1>3
  <2> HIDE DEF T
  <2>2. /\ order \o rest \in Seq(T) /\ Len(order \o rest) = Len(order) + Len(rest)
        /\ \A i \in 1..(Len(order) + Len(rest)) :
              (order \o rest)[i] = IF i <= Len(order) THEN order[i] ELSE rest[i - Len(order)]
    BY <2>1, ConcatProperties
  <2> QED
    BY <1>2a, <2>2 DEF T
<1>5. DOMAIN all = 1..(Len(order) + Len(rest))
  BY <1>4, LenProperties
<1>6. ASSUME NEW n \in DOMAIN all
      PROVE  (\E k \in 1..Len(order) : all[n] = order[k]) \/ (\E k \in DOMAIN todo : all[n] = todo[k])
  <2>1. CASE n <= Len(order)
    BY <1>3, <1>4, <1>5, <2>1
  <2>2. CASE ~(n <= Len(order))
    <3>1. n - Len(order) \in 1..Len(rest) /\ n - Len(order) + 1 \in DOMAIN todo
      BY <1>2, <1>3, <1>5, <2>2
    <3>2. all[n] = todo[n - Len(order) + 1]
      BY <1>2, <1>4, <1>5, <2>2, <3>1
    <3> QED
      BY <3>1, <3>2
  <2> QED
    BY <2>1, <2>2
<1>7. ASSUME NEW k \in 1..Len(order) PROVE \E n \in DOMAIN all : all[n] = order[k]
  <2>1. k \in DOMAIN all /\ k <= Len(order)
    BY <1>2, <1>3, <1>5
  <2> QED
    BY <1>4, <1>5, <2>1
<1>8. ASSUME NEW k \in DOMAIN todo, k # 1 PROVE \E n \in DOMAIN all : all[n] = todo[k]
  <2>1. k - 1 \in 1..Len(rest) /\ Len(order) + k - 1 \in DOMAIN all /\ ~(Len(order) + k - 1 <= Len(order))
    BY <1>2, <1>3, <1>5, <1>8
  <2>2. all[Len(order) + k - 1] = rest[k - 1]
    <3>1. (Len(order) + k - 1) - Len(order) = k - 1
      BY <1>2, <1>3
    <3> QED
      BY <1>4, <1>5, <2>1, <3>1
  <2>3. rest[k - 1] = todo[k]
    BY <1>2, <2>1
  <2> QED
    BY <2>1, <2>2, <2>3
<1>9. IsPath(all)
  BY <1>4 DEF IsPath
<1> QED
  BY <1>6, <1>7, <1>8, <1>9 DEF Joins

LEMMA ListsFoldersIsOk ==
    ASSUME PositionsInv, NEW v \in Viewers, Positions!ListsFolders(v)
    PROVE  PositionsInv'
<1> DEFINE w == viewer[v]
           f == Head(viewer[v].todo)
           below == {g \in Positions!Tree.dirs : g # << >> /\ Positions!Front(g) = f}
<1>1. /\ ViewerOk(w, trees, moment) /\ w.pc = "folders" /\ UNCHANGED _station_map_cache
      /\ MapTreesOk(trees, moment) /\ DOMAIN w = ViewerFields
  BY DEF PositionsInv, ViewersOk, Positions!ListsFolders, ViewerOk
<1>2. MapTreeOk(Positions!Tree)
  BY <1>1, TreeIsLast
<1>3. CASE f \notin Positions!Tree.dirs
  <2>1. Positions!IsRefused(v, "404")
    BY <1>3, Zenon DEF Positions!ListsFolders
  <2> QED
    BY <1>1, <2>1, RefusedIsOk
<1>4. CASE f \in Positions!Tree.dirs
  <2>1. PICK order \in Positions!SetToSeqs(below) :
            LET todo == order \o Tail(viewer[v].todo)
            IN  Positions!Goes(v, [viewer[v] EXCEPT !.todo = todo, !.pc = IF todo = << >> THEN "reads" ELSE "zips"])
    BY <1>4, Zenon DEF Positions!ListsFolders
  <2> DEFINE todo1 == order \o Tail(viewer[v].todo)
             w1 == [viewer[v] EXCEPT !.todo = todo1, !.pc = IF todo1 = << >> THEN "reads" ELSE "zips"]
  <2>2. Positions!Goes(v, w1)
    BY <2>1
  <2>3. IsFiniteSet(below) /\ \A g \in below : IsPath(g) /\ g # << >> /\ Positions!Front(g) = f
    BY <1>2, FS_Subset DEF MapTreeOk
  <2>4. order \in Seq(below) /\ \A y \in below : \E n \in 1..Len(order) : order[n] = y
    <3>1. order \in Positions!SetToSeqs(below) /\ IsFiniteSet(below)
      BY <2>1, <2>3
    <3> HIDE DEF below
    <3> QED
      BY <3>1, OrdersAreWhole
  <2>5. \A n \in 1..Len(order) : order[n] \in below
    BY <2>4
  <2> DEFINE pc1 == IF todo1 = << >> THEN "reads" ELSE "zips"
  <2>6. ViewerIs(w1, pc1, w.day, w.began, w.from, todo1, w.left, w.records)
    BY <1>1 DEF ViewerFields, ViewerIs
  <2>7. (todo1 = << >> /\ pc1 = "reads") \/ (todo1 # << >> /\ pc1 = "zips")
    OBVIOUS
  <2> HIDE DEF w1, pc1
  <2>8. ASSUME NEW a \in 1..Len(trees), Progress(w, trees, a) PROVE Progress(w1, trees, a)
    <3>1. /\ w1.day = w.day /\ w1.left = w.left /\ w1.records = w.records /\ w1.pc = pc1
          /\ w1.todo = todo1
      BY <2>6 DEF ViewerIs
    <3>2. /\ w.records = {} /\ IsPath(w.todo) /\ w.todo # << >>
          /\ \A n \in DOMAIN w.todo : IsPath(w.todo[n]) /\ w.day \in Positions!Above(w.todo[n])
      BY <1>1, <2>8 DEF Progress
    <3>3. f = w.todo[1] /\ 1 \in DOMAIN w.todo
      BY <3>2, HeadIs
    <3>4. /\ IsPath(todo1)
          /\ \A n \in DOMAIN todo1 : \/ \E k \in 1..Len(order) : todo1[n] = order[k]
                                     \/ \E k \in DOMAIN w.todo : todo1[n] = w.todo[k]
          /\ \A k \in 1..Len(order) : \E n \in DOMAIN todo1 : todo1[n] = order[k]
          /\ \A k \in DOMAIN w.todo : k # 1 => \E n \in DOMAIN todo1 : todo1[n] = w.todo[k]
      <4>1. IsPath(order) /\ IsPath(w.todo) /\ w.todo # << >> /\ todo1 = order \o Tail(w.todo)
        BY <2>4, <3>2 DEF IsPath
      <4> HIDE DEF below, todo1, w
      <4>2. Joins(todo1, order, w.todo)
        BY <4>1, WalksOn
      <4> QED
        BY <4>2 DEF Joins
    <3> HIDE DEF todo1
    <3>5. \A g \in below : IsPath(g) /\ w.day \in Positions!Above(g)
      <4>1. ASSUME NEW g \in below PROVE IsPath(g) /\ f \in Positions!Above(g)
        BY <2>3, FrontIsAbove
      <4>2. w.day \in Positions!Above(f)
        BY <3>2, <3>3
      <4> QED
        BY <4>1, <4>2, AboveTrans
    <3>6. ASSUME NEW n \in DOMAIN todo1 PROVE IsPath(todo1[n]) /\ w.day \in Positions!Above(todo1[n])
      <4>1. CASE \E k \in 1..Len(order) : todo1[n] = order[k]
        BY <2>5, <3>5, <4>1
      <4>2. CASE \E k \in DOMAIN w.todo : todo1[n] = w.todo[k]
        BY <3>2, <4>2
      <4> QED
        BY <3>4, <4>1, <4>2
    <3>7. ASSUME NEW r, \A n \in a..Len(trees) : ToldIn(w.day, trees[n], r)
          PROVE  StillToCome(w1, r.path)
      <4> DEFINE F == Paths[r.path].folder
      <4>1. r.path \in DOMAIN Paths /\ Positions!Above(F) \subseteq Positions!Tree.dirs
        BY <1>1, <3>7, ToldNow
      <4>2. IsPath(F)
        BY <4>1, FoldersArePaths
      <4>3. StillToCome(w, r.path)
        BY <2>8, <3>2, <3>7 DEF Progress
      <4> HIDE DEF F
      <4>4. CASE r.path \in w.left
        BY <3>1, <4>4 DEF StillToCome
      <4>5. CASE \E n \in DOMAIN w.todo : w.todo[n] \in Positions!Above(F) /\ ~(n = 1 /\ w.todo[n] = F)
        <5>1. PICK k \in DOMAIN w.todo : w.todo[k] \in Positions!Above(F) /\ ~(k = 1 /\ w.todo[k] = F)
          BY <4>5
        <5>2. \E n \in DOMAIN todo1 : todo1[n] \in Positions!Above(F)
          <6>1. CASE k = 1
            <7>1. PICK h \in Positions!Above(F) : h # << >> /\ Positions!Front(h) = f
              BY <3>3, <4>2, <5>1, <6>1, NextBelow
            <7>2. h \in below
              BY <4>1, <7>1
            <7>3. PICK j \in 1..Len(order) : order[j] = h
              BY <2>4, <7>2
            <7> QED
              BY <3>4, <7>1, <7>3
          <6>2. CASE k # 1
            BY <3>4, <5>1, <6>2
          <6> QED
            BY <6>1, <6>2
        <5>3. PICK n \in DOMAIN todo1 : todo1[n] \in Positions!Above(F)
          BY <5>2
        <5>4. w1.pc = "zips"
          <6>1. DOMAIN << >> = {}
            OBVIOUS
          <6>2. todo1 # << >>
            BY <5>3, <6>1
          <6> QED
            BY <2>7, <3>1, <6>2
        <5> QED
          BY <3>1, <5>3, <5>4 DEF StillToCome, F
      <4> QED
        BY <1>1, <4>3, <4>4, <4>5 DEF StillToCome, F
    <3>8. w1.pc \in {"zips", "folders"} => todo1 # << >>
      BY <2>7, <3>1
    <3> HIDE DEF below
    <3> QED
      BY <2>8, <3>1, <3>2, <3>4, <3>6, <3>7, <3>8 DEF Progress
  <2>9. w1.pc \in ScanningPcs /\ DOMAIN w1 = ViewerFields /\ w1.from = w.from /\ w1.began = w.began
    BY <2>6, <2>7 DEF ViewerIs, ScanningPcs
  <2>10. ViewerOk(w1, trees, moment)
    BY <1>1, <2>8, <2>9, ScanGoesOn DEF ScanningPcs
  <2> QED
    BY <1>1, <2>2, <2>10, ViewerGoes
<1> QED
  BY <1>3, <1>4

LEMMA OpensIsOk ==
    ASSUME PositionsInv, NEW v \in Viewers, Positions!Opens(v)
    PROVE  PositionsInv'
<1> DEFINE w == viewer[v]
           i == Positions!Min(viewer[v].left)
           record == IF i \in DOMAIN Positions!Tree.zips
                     THEN Positions!_extract_station_header_record(i, Positions!Tree.zips[i]) ELSE {}
           left1 == IF record # {} THEN w.left \ {i} ELSE Positions!GoesOn(w.left, i)
           w1 == [viewer[v] EXCEPT !.records = @ \cup record,
                    !.left = IF record # {} THEN @ \ {i} ELSE Positions!GoesOn(@, i)]
<1>1. /\ ViewerOk(w, trees, moment) /\ w.pc = "reads" /\ w.left # {} /\ UNCHANGED _station_map_cache
      /\ MapTreesOk(trees, moment) /\ DOMAIN w = ViewerFields
  BY DEF PositionsInv, ViewersOk, Positions!Opens, ViewerOk
<1>2. Positions!IsRefused(v, "500") \/ Positions!Goes(v, w1)
  BY Zenon DEF Positions!Opens
<1>3. left1 = w.left \ {i}
  BY DEF Positions!GoesOn
<1>4. ViewerIs(w1, "reads", w.day, w.began, w.from, w.todo, w.left \ {i}, w.records \cup record)
  <2>1. ViewerIs(w1, "reads", w.day, w.began, w.from, w.todo, left1, w.records \cup record)
    BY <1>1 DEF ViewerFields, ViewerIs
  <2> QED
    BY <1>3, <2>1
<1> HIDE DEF w1, left1
<1>5. ASSUME NEW a \in 1..Len(trees), Progress(w, trees, a) PROVE Progress(w1, trees, a)
  <2>1. /\ w1.day = w.day /\ w1.left = w.left \ {i} /\ w1.records = w.records \cup record /\ w1.pc = "reads"
    BY <1>4 DEF ViewerIs
  <2>2. \A j \in w.left : j \in DOMAIN Paths /\ w.day \in Positions!Above(Paths[j].folder)
    BY <1>5 DEF Progress
  <2>3. i \in w.left
    BY <1>1, <2>2, PathsAre, EndsOfGroup
  <2>4. /\ Positions!Tree = trees[Len(trees)] /\ MapTreeOk(Positions!Tree) /\ Len(trees) \in a..Len(trees)
    BY <1>1, TreeIsLast
  <2>5. /\ \A r \in record : r.path = i /\ ToldIn(w.day, trees[Len(trees)], r)
        /\ \A q, r \in record : q = r
    <3>1. CASE i \in DOMAIN Positions!Tree.zips
      <4>1. record = Positions!_extract_station_header_record(i, Positions!Tree.zips[i])
        BY <3>1
      <4>2. IsZip(Positions!Tree.zips[i])
        BY <2>4, <3>1 DEF MapTreeOk
      <4> HIDE DEF record
      <4>3. (\A r \in record : r.path = i) /\ (\A q, r \in record : q = r)
        BY <4>1, <4>2, HeaderTells
      <4>4. \A r \in record : ToldIn(w.day, Positions!Tree, r)
        BY <2>2, <2>3, <3>1, <4>1 DEF ToldIn
      <4> QED
        BY <2>4, <4>3, <4>4
    <3>2. CASE i \notin DOMAIN Positions!Tree.zips
      BY <3>2
    <3> QED
      BY <3>1, <3>2
  <2>6. \A r \in w.records : r.path \notin w.left /\ \E n \in a..Len(trees) : ToldIn(w.day, trees[n], r)
    BY <1>5 DEF Progress
  <2>7. OnePerPath(w.records)
    BY <1>5 DEF Progress
  <2>8. ASSUME NEW r, \A n \in a..Len(trees) : ToldIn(w.day, trees[n], r)
        PROVE  r \in w.records \cup record \/ r.path \in w.left \ {i}
    <3>1. r \in w.records \/ r.path \in w.left
      BY <1>1, <1>5, <2>8 DEF Progress, StillToCome
    <3>2. /\ r.path \in DOMAIN Positions!Tree.zips
          /\ r \in Positions!_extract_station_header_record(r.path, Positions!Tree.zips[r.path])
      BY <1>1, <2>8, ToldNow
    <3>3. r.path = i => r \in record
      BY <3>2
    <3> QED
      BY <3>1, <3>3
  <2> HIDE DEF record, i
  <2>9. OnePerPath(w.records \cup record)
    BY <2>3, <2>5, <2>6, <2>7 DEF OnePerPath
  <2>10. \A r \in w.records \cup record :
            r.path \notin w.left \ {i} /\ \E n \in a..Len(trees) : ToldIn(w.day, trees[n], r)
    BY <2>4, <2>5, <2>6
  <2> QED
    BY <2>1, <2>2, <2>8, <2>9, <2>10 DEF Progress, StillToCome
<1>6. ViewerOk(w1, trees, moment)
  BY <1>1, <1>4, <1>5, ScanGoesOn DEF ViewerIs, ScanningPcs
<1>7. CASE Positions!IsRefused(v, "500")
  BY <1>1, <1>7, RefusedIsOk
<1>8. CASE Positions!Goes(v, w1)
  BY <1>1, <1>6, <1>8, ViewerGoes
<1> QED
  BY <1>2, <1>7, <1>8

LEMMA StoresIsOk ==
    ASSUME PositionsInv, NEW v \in Viewers, Positions!Stores(v)
    PROVE  PositionsInv'
<1> DEFINE w == viewer[v]
           map == Positions!_scan_station_map(viewer[v].records)
           key == Positions!_build_cache_key(viewer[v].day)
           entry == [at |-> moment, map |-> map]
           cache1 == [d \in DOMAIN _station_map_cache \cup {key} |->
                        IF d = key THEN [at |-> moment, map |-> map] ELSE _station_map_cache[d]]
           span == w.from..Len(trees)
           w1 == [Positions!Away EXCEPT !.pc = "shown", !.day = viewer[v].day, !.span = span, !.map = map]
<1>1. /\ ViewerOk(w, trees, moment) /\ w.pc = "reads" /\ w.left = {} /\ _station_map_cache' = cache1
      /\ MapTreesOk(trees, moment) /\ moment \in Int /\ Slowest \in Nat
      /\ CacheOk(_station_map_cache, trees, moment)
  BY PositionsAssumption DEF PositionsInv, ViewersOk, Positions!Stores, ViewerOk, MapTreesOk
<1>2. Positions!Goes(v, w1)
  <2>1. Positions!IsShown(v, span, map)
    BY Zenon DEF Positions!Stores
  <2> QED
    BY <2>1, Zenon DEF Positions!IsShown
<1>3. key = w.day
  BY DEF Positions!_build_cache_key
<1>4. /\ w.from \in 1..Len(trees) /\ w.began \in Int /\ moment <= w.began + Slowest
  BY <1>1 DEF ViewerOk, ScanningPcs
<1>5. PICK a \in 1..Len(trees) : ScansSince(w, trees, a)
  BY <1>1 DEF ViewerOk, ScanningPcs
<1>6. /\ a \in w.from..Len(trees) /\ Progress(w, trees, a)
      /\ \A m \in (a + 1)..Len(trees) : trees[m].at >= w.began
  BY <1>5 DEF ScansSince
<1>7. Len(trees) \in 1..Len(trees) /\ a <= Len(trees)
  BY <1>1, TreeIsLast
<1>8. Gathers(w.day, w.records, trees, a..Len(trees))
  BY <1>1, <1>6 DEF Gathers, Progress, StillToCome
<1>9. a..Len(trees) \subseteq span /\ span \subseteq 1..Len(trees)
  BY <1>4, <1>6
<1>10. DOMAIN w1 = ViewerFields /\ w1.pc = "shown" /\ w1.day = w.day /\ w1.span = span /\ w1.map = map
  BY DEF Positions!Away, ViewerFields
<1>11. entry.at = moment /\ entry.map = map
  OBVIOUS
<1>12. /\ \A d \in DOMAIN cache1 : d # key => d \in DOMAIN _station_map_cache /\ cache1[d] = _station_map_cache[d]
       /\ key \in DOMAIN cache1 => cache1[key] = entry
  OBVIOUS
<1> HIDE DEF span, w1, cache1, entry
<1>13. ViewerOk(w1, trees, moment)
  <2>1. Gathers(w.day, w.records, trees, span)
    BY <1>8, <1>9, GathersInMore
  <2>2. MapIsShown(w1, trees)
    BY <1>9, <1>10, <2>1 DEF MapIsShown
  <2> QED
    BY <1>10, <2>2 DEF ViewerOk, ScanningPcs
<1>14. EntryOk(entry, key, trees, moment)
  <2>1. ASSUME NEW m \in (a + 1)..Len(trees) PROVE trees[m].at >= entry.at - Slowest
    <3>1. trees[m].at >= w.began /\ trees[m].at \in Int
      BY <1>1, <1>6, <2>1 DEF MapTreesOk
    <3> QED
      BY <1>1, <1>4, <1>11, <3>1
  <2>2. moment <= moment
    BY <1>1
  <2> QED
    BY <1>1, <1>3, <1>7, <1>8, <1>11, <2>1, <2>2 DEF EntryOk
<1>15. CacheOk(cache1, trees, moment)
  BY <1>1, <1>12, <1>14 DEF CacheOk
<1> QED
  BY <1>1, <1>2, <1>13, <1>15, ViewerGoes DEF PositionsInv

(* A map of stations is of the archive as it was in its span, for any      *)
(* archive, changes of it, requests, and bounds on its age.                *)
THEOREM MapOfLate == Spec => []MapIsOfLate
<1>1. Init => PositionsInv
  <2> SUFFICES ASSUME Init PROVE PositionsInv
    OBVIOUS
  <2>1. /\ trees \in {<<t>> : t \in Trees0} /\ moment = 0
        /\ _station_map_cache = [d \in {} |-> [at |-> 0, map |-> Positions!NoMap]]
        /\ viewer = [v \in Viewers |-> Positions!Away]
    BY DEF Init, Positions!Init
  <2>2. PICK t \in Trees0 : trees = <<t>>
    BY <2>1
  <2>3. MapTreeOk(t) /\ t.at \in Int /\ t.at <= 0
    BY PositionsAssumption DEF MapTreeOk, Positions!Above, IsPath, IsList
  <2>4. trees \in Seq({t}) /\ Len(trees) = 1 /\ trees[1] = t
    BY <2>2
  <2>5. IsPath(trees)
    BY <2>4 DEF IsPath
  <2>6. MapTreesOk(trees, moment)
    <3>1. \A n \in 1..1 : n = 1
      OBVIOUS
    <3> QED
      BY <2>1, <2>3, <2>4, <2>5, <3>1 DEF MapTreesOk
  <2>7. CacheOk(_station_map_cache, trees, moment)
    BY <2>1 DEF CacheOk
  <2>8. DOMAIN Positions!Away = ViewerFields /\ Positions!Away.pc = "idle"
    BY DEF Positions!Away, ViewerFields
  <2>9. ViewersOk(viewer, trees, moment)
    BY <2>1, <2>8 DEF ViewersOk, ViewerOk, ScanningPcs
  <2> QED
    BY <2>6, <2>7, <2>9 DEF PositionsInv
<1>2. PositionsInv /\ [Next]_hubVars => PositionsInv'
  <2> SUFFICES ASSUME PositionsInv, [Next]_hubVars PROVE PositionsInv'
    OBVIOUS
  <2>1. CASE UNCHANGED OfPositions
    BY <2>1 DEF OfPositions, PositionsInv
  <2>2. CASE Positions!Next
    <3>1. ASSUME NEW v \in Viewers, Positions!list_rinex_station_map(v) PROVE PositionsInv'
      BY <3>1, LooksUpIsOk, StartsWalkIsOk, ListsZipsIsOk, ListsFoldersIsOk, OpensIsOk, StoresIsOk
         DEF Positions!list_rinex_station_map
    <3> QED
      BY <2>2, <3>1, MapChanges, MapTicks, AsksIsOk DEF Positions!Next
  <2> QED
    BY <2>1, <2>2 DEF Next, hubVars
<1>3. PositionsInv => MapIsOfLate
  <2> SUFFICES ASSUME PositionsInv, NEW v \in Viewers, viewer[v].pc = "shown"
               PROVE  LET told == {Positions!Told(v, t) : t \in Positions!Span(v)}
                          ever == UNION told
                          always == {r \in ever : \A records \in told : r \in records}
                      IN  ShowsStations(viewer[v].map.stations, always, ever)
    BY DEF MapIsOfLate, Positions!MapIsOfLate, ShowsStations
  <2> DEFINE w == viewer[v]
             told == {Positions!Told(v, t) : t \in Positions!Span(v)}
             ever == UNION told
             always == {r \in ever : \A records \in told : r \in records}
  <2>1. MapIsShown(w, trees) /\ MapTreesOk(trees, moment)
    BY DEF PositionsInv, ViewersOk, ViewerOk
  <2>2. PICK R : w.map = Positions!_scan_station_map(R) /\ Gathers(w.day, R, trees, w.span)
    BY <2>1 DEF MapIsShown
  <2>3. \A t, r : r \in Positions!Told(v, t) <=> ToldIn(w.day, t, r)
    BY DEF Positions!Told, ToldIn
  <2>4. \A r : r \in ever <=> \E n \in w.span : ToldIn(w.day, trees[n], r)
    BY <2>3 DEF Positions!Span
  <2>5. \A r \in always : \A n \in w.span : ToldIn(w.day, trees[n], r)
    BY <2>3 DEF Positions!Span
  <2> HIDE DEF told, ever, always
  <2>6. always \subseteq R
    BY <2>2, <2>5 DEF Gathers
  <2>7. R \subseteq ever /\ OnePerPath(R)
    BY <2>2, <2>4 DEF Gathers
  <2>8. RecordsOk(ever)
    <3>1. \A n \in w.span : MapTreeOk(trees[n])
      BY <2>1 DEF MapIsShown, MapTreesOk
    <3> QED
      BY <2>4, <3>1, ToldBy DEF RecordsOk
  <2>9. ShowsStations(w.map.stations, always, ever)
    BY <2>2, <2>6, <2>7, <2>8, MapShows
  <2> QED
    BY <2>9 DEF told, ever, always
<1> QED
  BY <1>1, <1>2, <1>3, PTL DEF Spec, hubVars
==============================================================================
