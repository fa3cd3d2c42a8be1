------------------------------- MODULE HubProofs -----------------------------
(***************************************************************************)
(* Properties of the hub's parts, for any number of clients, folders,      *)
(* requests and whatever else they are given.                              *)
(***************************************************************************)
EXTENDS MCHub, SequenceTheorems, WellFoundedInduction, TLAPS

hubVars == <<part, OfLimiter, accountsVars, containersVars, OfForms, OfRemoval, OfAnimation,
             basemapVars, OfClient, OfScan, OfPositions>>

-----------------------------------------------------------------------------
(***************************************************************************)
(* LoginLimiter.  What a key's bucket has of the window is what was        *)
(* guessed in it, whoever was looked at or purged in between.              *)
(***************************************************************************)
FreshAt(at, times) == [t \in {u \in DOMAIN times : at - u < Window} |-> times[t]]
Counted(at, times) ==
    [t \in DOMAIN times \cup {at} |->
        (IF t \in DOMAIN times THEN times[t] ELSE 0) + (IF t = at THEN 1 ELSE 0)]
BucketOf(b, k) == IF k \in DOMAIN b THEN b[k] ELSE Limiter!NoTimes

Times(a) == DOMAIN a \subseteq Int

LimiterOk(b, at, g) ==
    /\ at \in Int
    /\ b = [k \in DOMAIN b |-> b[k]] /\ g = [k \in Keys |-> g[k]]
    /\ \A k \in DOMAIN b : Times(b[k])
    /\ \A k \in Keys : Times(g[k]) /\ FreshAt(at, BucketOf(b, k)) = FreshAt(at, g[k])

(* The module's operators, as they are at one time. *)
LEMMA LimiterNames ==
    /\ \A times : Limiter!Fresh(times) = FreshAt(now, times)
    /\ \A times : Limiter!WithNow(times) = Counted(now, times)
    /\ \A k : Limiter!Bucket(k) = BucketOf(buckets, k)
BY DEF Limiter!Fresh, Limiter!IsFresh, FreshAt, Limiter!WithNow, Counted, Limiter!Bucket, BucketOf

(* What is fresh is fresh when it is looked at again, and in nothing there *)
(* is nothing fresh.                                                       *)
LEMMA FreshTwice ==
    ASSUME NEW at \in Int, NEW a, Times(a)
    PROVE  FreshAt(at, FreshAt(at, a)) = FreshAt(at, a) /\ Times(FreshAt(at, a))
BY DEF FreshAt, Times

(* What agrees now agrees later. *)
LEMMA FreshLater ==
    ASSUME NEW at \in Int, NEW a, NEW b, Times(a), Times(b), FreshAt(at, a) = FreshAt(at, b)
    PROVE  FreshAt(at + 1, a) = FreshAt(at + 1, b)
<1>1. ASSUME NEW x0, Times(x0) PROVE FreshAt(at + 1, x0) = FreshAt(at + 1, FreshAt(at, x0))
  BY <1>1, LimiterAssumption DEF FreshAt, Times
<1> QED
  BY <1>1

(* What agrees agrees with one time more. *)
LEMMA FreshCounted ==
    ASSUME NEW at \in Int, NEW a, NEW b, Times(a), Times(b), FreshAt(at, a) = FreshAt(at, b)
    PROVE  FreshAt(at, Counted(at, a)) = FreshAt(at, Counted(at, b)) /\ Times(Counted(at, a))
<1>1. ASSUME NEW x0, Times(x0) PROVE FreshAt(at, Counted(at, x0)) = FreshAt(at, Counted(at, FreshAt(at, x0)))
  <2> DEFINE y == FreshAt(at, x0)
  <2>1. /\ DOMAIN y = {u \in DOMAIN x0 : at - u < Window}
        /\ \A t \in DOMAIN y : y[t] = x0[t]
    BY DEF FreshAt
  <2> HIDE DEF y
  <2>2. {u \in DOMAIN Counted(at, x0) : at - u < Window} = {u \in DOMAIN Counted(at, y) : at - u < Window}
    BY <2>1, <1>1 DEF Counted, Times
  <2>3. ASSUME NEW t \in {u \in DOMAIN Counted(at, x0) : at - u < Window}
        PROVE  Counted(at, x0)[t] = Counted(at, y)[t]
    <3>1. t \in DOMAIN y <=> t \in DOMAIN x0
      BY <2>1
    <3>2. /\ Counted(at, x0)[t] = (IF t \in DOMAIN x0 THEN x0[t] ELSE 0) + (IF t = at THEN 1 ELSE 0)
          /\ Counted(at, y)[t] = (IF t \in DOMAIN y THEN y[t] ELSE 0) + (IF t = at THEN 1 ELSE 0)
      BY <2>2 DEF Counted
    <3> QED
      BY <2>1, <3>1, <3>2
  <2> QED
    BY <2>2, <2>3 DEF FreshAt, y
<1>2. Times(Counted(at, a))
  BY DEF Counted, Times
<1> QED
  BY <1>1, <1>2

(* A key is looked at: the bucket keeps what is fresh, or that and one     *)
(* time more.                                                              *)
LEMMA LimiterLooks ==
    ASSUME NEW b, NEW at, NEW g, LimiterOk(b, at, g), NEW key \in Keys,
           NEW c, c = [k \in DOMAIN b \cup {key} |-> IF k = key THEN FreshAt(at, BucketOf(b, key)) ELSE b[k]]
    PROVE  /\ LimiterOk(c, at, g)
           /\ LimiterOk([c EXCEPT ![key] = Counted(at, @)], at, [g EXCEPT ![key] = Counted(at, @)])
<1>1. at \in Int /\ Times(BucketOf(b, key)) /\ Times(g[key]) /\ FreshAt(at, BucketOf(b, key)) = FreshAt(at, g[key])
  BY DEF LimiterOk, BucketOf, Limiter!NoTimes, Times
<1>2. /\ Times(c[key]) /\ FreshAt(at, c[key]) = FreshAt(at, g[key])
      /\ DOMAIN c = DOMAIN b \cup {key} /\ c = [k \in DOMAIN c |-> c[k]]
      /\ \A k \in DOMAIN b : k # key => c[k] = b[k]
  BY <1>1, FreshTwice
<1>3. \A k : k # key => BucketOf(c, k) = BucketOf(b, k)
  BY <1>2 DEF BucketOf
<1>4. BucketOf(c, key) = c[key]
  BY <1>2 DEF BucketOf
<1>5. LimiterOk(c, at, g)
  BY <1>1, <1>2, <1>3, <1>4 DEF LimiterOk
<1> DEFINE d == [c EXCEPT ![key] = Counted(at, @)]
           h == [g EXCEPT ![key] = Counted(at, @)]
<1>6. /\ DOMAIN d = DOMAIN c /\ d = [k \in DOMAIN d |-> d[k]] /\ d[key] = Counted(at, c[key])
      /\ \A k \in DOMAIN c : k # key => d[k] = c[k]
  BY <1>2
<1>7. /\ h = [k \in Keys |-> h[k]] /\ h[key] = Counted(at, g[key])
      /\ \A k \in Keys : k # key => h[k] = g[k]
  BY DEF LimiterOk
<1> HIDE DEF d, h
<1>8. FreshAt(at, d[key]) = FreshAt(at, h[key]) /\ Times(d[key]) /\ Times(h[key])
  BY <1>1, <1>2, <1>6, <1>7, FreshCounted
<1>9. BucketOf(d, key) = d[key] /\ \A k : k # key => BucketOf(d, k) = BucketOf(c, k)
  BY <1>2, <1>6 DEF BucketOf
<1>10. LimiterOk(d, at, h)
  BY <1>5, <1>6, <1>7, <1>8, <1>9 DEF LimiterOk
<1> QED
  BY <1>5, <1>10 DEF d, h

(* Too many buckets: what goes had nothing fresh in it. *)
LEMMA LimiterPurges ==
    ASSUME NEW g, NEW b, LimiterOk(b, now, g)
    PROVE  LimiterOk(Limiter!Purged(b), now, g)
<1>1. CASE Limiter!Purged(b) = b
  BY <1>1
<1>2. CASE Limiter!Purged(b) # b
  <2> DEFINE kept == {k \in DOMAIN b : FreshAt(now, b[k]) # Limiter!NoTimes}
             c == [k \in kept |-> FreshAt(now, b[k])]
  <2>1. Limiter!Purged(b) = c
    BY <1>2, LimiterNames DEF Limiter!Purged
  <2>2. /\ DOMAIN c = kept /\ c = [k \in DOMAIN c |-> c[k]]
        /\ \A k \in kept : c[k] = FreshAt(now, b[k])
    OBVIOUS
  <2> HIDE DEF c
  <2>3. \A k \in DOMAIN c : Times(c[k])
    BY <2>2, FreshTwice DEF LimiterOk
  <2>4. ASSUME NEW k \in Keys PROVE FreshAt(now, BucketOf(c, k)) = FreshAt(now, BucketOf(b, k))
    <3>1. CASE k \in kept
      BY <2>2, <3>1, FreshTwice DEF LimiterOk, BucketOf
    <3>2. CASE k \in DOMAIN b \ kept
      <4>1. FreshAt(now, b[k]) = Limiter!NoTimes /\ BucketOf(b, k) = b[k] /\ BucketOf(c, k) = Limiter!NoTimes
        BY <2>2, <3>2 DEF BucketOf
      <4>2. FreshAt(now, Limiter!NoTimes) = Limiter!NoTimes
        BY DEF FreshAt, Limiter!NoTimes
      <4> QED
        BY <4>1, <4>2
    <3>3. CASE k \notin DOMAIN b
      BY <2>2, <3>3 DEF BucketOf
    <3> QED
      BY <3>1, <3>2, <3>3
  <2>5. LimiterOk(c, now, g)
    BY <2>2, <2>3, <2>4 DEF LimiterOk
  <2> QED
    BY <2>1, <2>5
<1> QED
  BY <1>1, <1>2

(* One step of a limiter that is on. *)
LEMMA LimiterStep ==
    ASSUME LOGIN_RATE_LIMIT_ENABLED, LimiterOk(buckets, now, guesses), [Limiter!Next]_OfLimiter
    PROVE  LimiterOk(buckets', now', guesses')
<1>1. CASE UNCHANGED OfLimiter
  BY <1>1 DEF OfLimiter
<1>2. ASSUME NEW key \in Keys, Limiter!IsRefused(key) \/ Limiter!IsDeactivated(key)
      PROVE  LimiterOk(buckets', now', guesses')
  <2>1. buckets' = Limiter!Looked(key) /\ now' = now /\ guesses' = guesses
    BY <1>2 DEF Limiter!IsRefused, Limiter!IsDeactivated
  <2>2. buckets' = [k \in DOMAIN buckets \cup {key} |->
                      IF k = key THEN FreshAt(now, BucketOf(buckets, key)) ELSE buckets[k]]
    BY <2>1, LimiterNames DEF Limiter!Looked, Limiter!Kept
  <2>3. LimiterOk(buckets', now, guesses)
    BY <2>2, LimiterLooks
  <2> QED
    BY <2>1, <2>3
<1>3. ASSUME NEW key \in Keys, Limiter!Fails(key) PROVE LimiterOk(buckets', now', guesses')
  <2> DEFINE c == Limiter!Kept(key)
             d == [c EXCEPT ![key] = Counted(now, @)]
             h == [guesses EXCEPT ![key] = Counted(now, @)]
  <2>1. buckets' = Limiter!Purged(d) /\ now' = now /\ guesses' = h
    BY <1>3, LimiterNames DEF Limiter!Fails, Limiter!_record_login_failure
  <2>2. c = [k \in DOMAIN buckets \cup {key} |-> IF k = key THEN FreshAt(now, BucketOf(buckets, key)) ELSE buckets[k]]
    BY LimiterNames DEF Limiter!Kept
  <2>3. LimiterOk(d, now, h)
    <3> HIDE DEF c
    <3> QED
      BY <2>2, LimiterLooks
  <2> HIDE DEF d, h
  <2> QED
    BY <2>1, <2>3, LimiterPurges
<1>4. ASSUME NEW key \in Keys, Limiter!Succeeds(key) PROVE LimiterOk(buckets', now', guesses')
  <2>1. /\ buckets' = [k \in DOMAIN buckets \ {key} |-> buckets[k]] /\ now' = now
        /\ guesses' = [guesses EXCEPT ![key] = Limiter!NoTimes]
    BY <1>4 DEF Limiter!Succeeds, Limiter!_clear_login_failures
  <2>2. BucketOf(buckets', key) = Limiter!NoTimes /\ \A k : k # key => BucketOf(buckets', k) = BucketOf(buckets, k)
    BY <2>1 DEF BucketOf
  <2>3. Times(Limiter!NoTimes)
    BY DEF Times, Limiter!NoTimes
  <2> QED
    BY <2>1, <2>2, <2>3 DEF LimiterOk
<1>5. CASE Limiter!Tick
  <2>1. now' = now + 1 /\ buckets' = buckets /\ guesses' = guesses
    BY <1>5 DEF Limiter!Tick
  <2>2. \A k \in Keys : Times(BucketOf(buckets, k))
    BY DEF LimiterOk, BucketOf, Times, Limiter!NoTimes
  <2>3. \A k \in Keys : FreshAt(now + 1, BucketOf(buckets, k)) = FreshAt(now + 1, guesses[k])
    BY <2>2, FreshLater DEF LimiterOk
  <2> QED
    BY <2>1, <2>3 DEF LimiterOk
<1>6. CASE Limiter!Restart
  <2>1. /\ buckets' = Limiter!NoBuckets /\ now' = now /\ guesses' = [k \in Keys |-> Limiter!NoTimes]
    BY <1>6 DEF Limiter!Restart
  <2> QED
    BY <2>1 DEF LimiterOk, BucketOf, Limiter!NoBuckets, Limiter!NoTimes, Times
<1> QED
  BY <1>1, <1>2, <1>3, <1>4, <1>5, <1>6 DEF Limiter!Next, Limiter!login_submit

(* A login is refused exactly when the key has used up its wrong passwords *)
(* of the window, whatever was purged for others, for any number of keys,  *)
(* any window and any limits, and never when the limiter is off.           *)
THEOREM LockExact == Spec => []LockIsExact
<1> DEFINE Inv == LOGIN_RATE_LIMIT_ENABLED => LimiterOk(buckets, now, guesses)
<1>1. Init => Inv
  <2> SUFFICES ASSUME Init PROVE LimiterOk(buckets, now, guesses)
    OBVIOUS
  <2>1. buckets = Limiter!NoBuckets /\ now = 0 /\ guesses = [k \in Keys |-> Limiter!NoTimes]
    BY DEF Init, Limiter!Init
  <2> QED
    BY <2>1 DEF LimiterOk, BucketOf, Limiter!NoBuckets, Limiter!NoTimes, Times
<1>2. Inv /\ [Next]_hubVars => Inv'
  BY LimiterStep DEF Next, hubVars
<1>3. Inv => LockIsExact
  BY LimiterNames DEF LimiterOk, LockIsExact, Limiter!LockIsExact, Limiter!login_is_locked
<1> QED
  BY <1>1, <1>2, <1>3, PTL DEF Spec, hubVars

-----------------------------------------------------------------------------
(***************************************************************************)
(* AbstecRemoval.  What a removal has moved is its batch, with what the    *)
(* preview saw; what it has yet to move is as it was seen, or gone.        *)
(***************************************************************************)
Entry(r, saw, f) == [by |-> r, folder |-> f, version |-> saw[f]]
BatchOf(t0, r) == {t \in t0 : t.by = r}
Confirmed(q) == {f \in Folders : q.seen[f] # Removal!Gone}
Moved(r, q, fs) == {Entry(r, q.seen, f) : f \in fs}

RemoverOk(r, q, now0, t0) ==
    /\ q.pc \in {"idle", "seen", "failed"} => BatchOf(t0, r) = {}
    /\ q.pc \in {"moving", "restoring"} =>
          /\ BatchOf(t0, r) = Moved(r, q, q.moved)
          /\ \A f \in q.moved : now0[f] = Removal!Gone
    /\ q.pc = "moving" =>
          /\ Confirmed(q) = q.todo \cup q.moved /\ q.todo \cap q.moved = {}
          /\ \A f \in q.todo : now0[f] \in {q.seen[f], Removal!Gone}
    /\ q.pc = "done" => BatchOf(t0, r) = Moved(r, q, Confirmed(q))

RemovalOk(now0, t0, q0, spoilt) ==
    /\ now0 = [f \in Folders |-> now0[f]] /\ q0 = [r \in Removers |-> q0[r]]
    /\ \A r \in Removers :
          /\ DOMAIN q0[r] = {"pc", "seen", "todo", "moved"}
          /\ q0[r].moved \subseteq Folders /\ q0[r].todo \subseteq Folders
          /\ q0[r].pc \in {"idle", "seen"} => q0[r].moved = {}
          /\ r \in spoilt \/ RemoverOk(r, q0[r], now0, t0)

(* A step that changes one removal, nothing in the others' batches, and no *)
(* folder but to take it away.                                             *)
LEMMA RemovalMoves ==
    ASSUME RemovalOk(folder, trash, remover, late), NEW r \in Removers, NEW q,
           remover' = [remover EXCEPT ![r] = q],
           DOMAIN q = {"pc", "seen", "todo", "moved"}, q.moved \subseteq Folders, q.todo \subseteq Folders,
           q.pc \in {"idle", "seen"} => q.moved = {},
           folder' = [f \in Folders |-> folder'[f]],
           \A f \in Folders : folder'[f] \in {folder[f], Removal!Gone},
           \A p \in Removers \ {r} : BatchOf(trash', p) = BatchOf(trash, p),
           r \in late \/ RemoverOk(r, q, folder', trash'),
           late' = late
    PROVE  RemovalOk(folder', trash', remover', late')
<1>1. remover' = [p \in Removers |-> remover'[p]] /\ remover'[r] = q /\ \A p \in Removers \ {r} : remover'[p] = remover[p]
  BY DEF RemovalOk
<1>2. ASSUME NEW p \in Removers \ {r}, RemoverOk(p, remover[p], folder, trash),
             remover[p].moved \subseteq Folders, remover[p].todo \subseteq Folders
      PROVE  RemoverOk(p, remover[p], folder', trash')
  BY <1>2 DEF RemoverOk
<1> QED
  BY <1>1, <1>2 DEF RemovalOk

(* One step. *)
LEMMA RemovalStep ==
    ASSUME RemovalOk(folder, trash, remover, late), [Removal!Next]_OfRemoval
    PROVE  RemovalOk(folder', trash', remover', late')
<1>0. /\ folder = [f \in Folders |-> folder[f]] /\ remover = [r \in Removers |-> remover[r]]
      /\ \A r \in Removers :
            /\ DOMAIN remover[r] = {"pc", "seen", "todo", "moved"}
            /\ remover[r].moved \subseteq Folders /\ remover[r].todo \subseteq Folders
            /\ remover[r].pc \in {"idle", "seen"} => remover[r].moved = {}
            /\ r \in late \/ RemoverOk(r, remover[r], folder, trash)
  BY DEF RemovalOk
<1>1. CASE UNCHANGED OfRemoval
  BY <1>1 DEF OfRemoval
<1>2. CASE Removal!Mounts
  BY <1>2 DEF Removal!Mounts
<1>3. ASSUME NEW f \in Folders, Removal!ConverterWrites(f) PROVE RemovalOk(folder', trash', remover', late')
  <2>1. /\ folder' = [g \in Folders |-> folder'[g]]
        /\ trash' = trash /\ remover' = remover
        /\ late' = late \cup {r \in Removers : remover[r].pc \in {"moving", "restoring"}}
    BY <1>0, <1>3 DEF Removal!ConverterWrites, Removal!UnderWay
  <2>2. ASSUME NEW r \in Removers, r \notin late', RemoverOk(r, remover[r], folder, trash)
        PROVE  RemoverOk(r, remover[r], folder', trash)
    BY <2>1, <2>2 DEF RemoverOk
  <2>3. \A r \in Removers : r \in late' \/ RemoverOk(r, remover'[r], folder', trash')
    BY <1>0, <2>1, <2>2
  <2> QED
    BY <1>0, <2>1, <2>3 DEF RemovalOk
<1>4. CASE Removal!Restart
  <2>1. /\ folder' = folder /\ trash' = trash /\ late' = late
        /\ remover' = [r \in Removers |-> remover'[r]]
        /\ \A r \in Removers : remover'[r] = remover[r] \/ remover'[r] = [remover[r] EXCEPT !.pc = "dead"]
    BY <1>4 DEF Removal!Restart
  <2>2. ASSUME NEW r \in Removers
        PROVE  /\ DOMAIN remover'[r] = {"pc", "seen", "todo", "moved"}
               /\ remover'[r].moved \subseteq Folders /\ remover'[r].todo \subseteq Folders
               /\ remover'[r].pc \in {"idle", "seen"} => remover'[r].moved = {}
               /\ r \in late' \/ RemoverOk(r, remover'[r], folder', trash')
    <3>1. CASE remover'[r] = remover[r]
      BY <1>0, <2>1, <3>1
    <3>2. CASE remover'[r] = [remover[r] EXCEPT !.pc = "dead"]
      <4>1. /\ DOMAIN remover'[r] = {"pc", "seen", "todo", "moved"} /\ remover'[r].pc = "dead"
            /\ remover'[r].moved = remover[r].moved /\ remover'[r].todo = remover[r].todo
        BY <1>0, <3>2
      <4> QED
        BY <1>0, <4>1 DEF RemoverOk
    <3> QED
      BY <2>1, <3>1, <3>2
  <2> QED
    BY <1>0, <2>1, <2>2 DEF RemovalOk
<1>5. ASSUME NEW r \in Removers, Removal!preview_abstec_removal(r) \/ Removal!IsRejected(r) \/ Removal!MakesBatches(r)
      PROVE  RemovalOk(folder', trash', remover', late')
  <2> DEFINE idle == Removal!Idle
             looked == [idle EXCEPT !.pc = "seen", !.seen = folder]
             targets == {f \in Folders : folder[f] # Removal!Gone}
             pc0 == IF \E f \in targets : f.kind \in readonly THEN "failed" ELSE "moving"
             made == [remover[r] EXCEPT !.pc = pc0, !.todo = targets]
  <2>1. folder' = folder /\ trash' = trash /\ late' = late /\ remover[r].pc \in {"idle", "seen"}
    BY <1>5 DEF Removal!preview_abstec_removal, Removal!IsRejected, Removal!MakesBatches
  <2>2. r \in late \/ BatchOf(trash, r) = {}
    BY <1>0, <2>1 DEF RemoverOk
  <2>3. CASE Removal!preview_abstec_removal(r) \/ Removal!IsRejected(r)
    <3>1. PICK q : q \in {idle, looked} /\ remover' = [remover EXCEPT ![r] = q]
      <4>1. remover' = [remover EXCEPT ![r] = idle] \/ remover' = [remover EXCEPT ![r] = looked]
        BY <2>3 DEF Removal!preview_abstec_removal, Removal!IsRejected
      <4> HIDE DEF idle, looked
      <4> QED
        BY <4>1
    <3>2. DOMAIN q = {"pc", "seen", "todo", "moved"} /\ q.pc \in {"idle", "seen"} /\ q.todo = {} /\ q.moved = {}
      <4>1. /\ DOMAIN idle = {"pc", "seen", "todo", "moved"}
            /\ idle.pc = "idle" /\ idle.todo = {} /\ idle.moved = {}
        BY DEF Removal!Idle
      <4> HIDE DEF idle
      <4>2. /\ DOMAIN looked = {"pc", "seen", "todo", "moved"}
            /\ looked.pc = "seen" /\ looked.todo = {} /\ looked.moved = {}
        BY <4>1
      <4> HIDE DEF looked
      <4> QED
        BY <3>1, <4>1, <4>2
    <3>3. r \in late \/ RemoverOk(r, q, folder, trash)
      BY <2>2, <3>2 DEF RemoverOk
    <3> HIDE DEF idle, looked
    <3> QED
      BY <1>0, <2>1, <3>1, <3>2, <3>3, RemovalMoves
  <2>4. CASE Removal!MakesBatches(r)
    <3>1. remover' = [remover EXCEPT ![r] = made] /\ remover[r].seen = folder
      <4>1. /\ Removal!_removal_targets = targets /\ remover[r].seen = folder
            /\ remover' = [remover EXCEPT ![r].pc = pc0, ![r].todo = targets]
        BY <2>4 DEF Removal!MakesBatches, Removal!_removal_targets, Removal!DigestAgrees
      <4> HIDE DEF pc0, targets
      <4> QED
        BY <1>0, <4>1
    <3>2. /\ DOMAIN made = {"pc", "seen", "todo", "moved"} /\ made.pc \in {"failed", "moving"}
          /\ made.seen = folder /\ made.todo = targets /\ made.moved = remover[r].moved
      <4> HIDE DEF targets
      <4> QED
        BY <1>0, <3>1
    <3>3. remover[r].moved = {} /\ targets \subseteq Folders
      BY <1>0, <2>1
    <3>4. r \in late \/ RemoverOk(r, made, folder, trash)
      <4> HIDE DEF made
      <4> QED
        BY <2>2, <3>2, <3>3 DEF RemoverOk, Confirmed, Moved
    <3> HIDE DEF made
    <3> QED
      BY <1>0, <2>1, <3>1, <3>2, <3>3, <3>4, RemovalMoves
  <2> QED
    BY <1>5, <2>3, <2>4
<1>6. ASSUME NEW r \in Removers, NEW f \in Folders, Removal!Renames(r, f)
      PROVE  RemovalOk(folder', trash', remover', late')
  <2> DEFINE q == [remover[r] EXCEPT !.todo = @ \ {f}, !.moved = @ \cup {f}]
             entry == [by |-> r, folder |-> f, version |-> folder[f]]
  <2>1. /\ remover[r].pc = "moving" /\ f \in remover[r].todo /\ folder[f] # Removal!Gone
        /\ folder' = [folder EXCEPT ![f] = Removal!Gone]
        /\ trash' = trash \cup {entry} /\ late' = late
        /\ remover' = [remover EXCEPT ![r].todo = @ \ {f}, ![r].moved = @ \cup {f}]
    BY <1>6 DEF Removal!Renames, Removal!IsFirst
  <2>2. /\ DOMAIN q = {"pc", "seen", "todo", "moved"} /\ q.pc = "moving" /\ q.seen = remover[r].seen
        /\ q.todo = remover[r].todo \ {f} /\ q.moved = remover[r].moved \cup {f}
    BY <1>0, <2>1
  <2>3. remover' = [remover EXCEPT ![r] = q]
    BY <1>0, <2>1
  <2>4. /\ folder' = [g \in Folders |-> folder'[g]] /\ folder'[f] = Removal!Gone
        /\ \A g \in Folders \ {f} : folder'[g] = folder[g]
    BY <1>0, <2>1
  <2> HIDE DEF q
  <2>5. \A p \in Removers \ {r} : BatchOf(trash', p) = BatchOf(trash, p)
    BY <2>1 DEF BatchOf
  <2>6. ASSUME r \notin late PROVE RemoverOk(r, q, folder', trash')
    <3>1. RemoverOk(r, remover[r], folder, trash)
      BY <1>0, <2>6
    <3>2. folder[f] = q.seen[f]
      BY <2>1, <2>2, <3>1 DEF RemoverOk
    <3>3. BatchOf(trash', r) = BatchOf(trash, r) \cup {entry} /\ entry = Entry(r, q.seen, f)
      BY <2>1, <3>2 DEF BatchOf, Entry
    <3> HIDE DEF entry
    <3>4. BatchOf(trash, r) = Moved(r, q, remover[r].moved) /\ Confirmed(q) = Confirmed(remover[r])
      BY <2>1, <2>2, <3>1 DEF RemoverOk, Moved, Confirmed
    <3>5. BatchOf(trash', r) = Moved(r, q, q.moved)
      BY <2>2, <3>3, <3>4 DEF Moved
    <3>6. \A g \in q.moved : folder'[g] = Removal!Gone
      BY <1>0, <2>1, <2>2, <2>4, <3>1 DEF RemoverOk
    <3>7. \A g \in q.todo : folder'[g] \in {q.seen[g], Removal!Gone}
      BY <1>0, <2>1, <2>2, <2>4, <3>1 DEF RemoverOk
    <3>8. Confirmed(q) = q.todo \cup q.moved /\ q.todo \cap q.moved = {}
      BY <2>1, <2>2, <3>1, <3>4 DEF RemoverOk
    <3> QED
      BY <2>2, <3>5, <3>6, <3>7, <3>8 DEF RemoverOk
  <2>7. q.moved \subseteq Folders /\ q.todo \subseteq Folders /\ (q.pc \in {"idle", "seen"} => q.moved = {})
    BY <1>0, <2>2
  <2>8. late' = late /\ \A g \in Folders : folder'[g] \in {folder[g], Removal!Gone}
    BY <2>1, <2>4
  <2> QED
    BY <2>2, <2>3, <2>4, <2>5, <2>6, <2>7, <2>8, RemovalMoves
<1>7. ASSUME NEW r \in Removers, Removal!RenameFails(r) \/ Removal!Ends(r)
      PROVE  RemovalOk(folder', trash', remover', late')
  <2>1. PICK pc0 :
           /\ remover' = [remover EXCEPT ![r].pc = pc0]
           /\ \/ remover[r].pc = "moving" /\ pc0 = "restoring"
              \/ remover[r].pc = "moving" /\ remover[r].todo = {} /\ pc0 = "done"
              \/ remover[r].pc = "restoring" /\ remover[r].moved = {} /\ pc0 = "failed"
    BY <1>7 DEF Removal!RenameFails, Removal!Ends
  <2>2. folder' = folder /\ trash' = trash /\ late' = late
    BY <1>7 DEF Removal!RenameFails, Removal!Ends
  <2> DEFINE q == [remover[r] EXCEPT !.pc = pc0]
  <2>3. /\ DOMAIN q = {"pc", "seen", "todo", "moved"} /\ q.pc = pc0 /\ q.seen = remover[r].seen
        /\ q.todo = remover[r].todo /\ q.moved = remover[r].moved
    BY <1>0
  <2>4. remover' = [remover EXCEPT ![r] = q]
    BY <1>0, <2>1
  <2> HIDE DEF q
  <2>5. ASSUME r \notin late PROVE RemoverOk(r, q, folder, trash)
    <3>1. RemoverOk(r, remover[r], folder, trash)
      BY <1>0, <2>5
    <3>2. Confirmed(q) = Confirmed(remover[r]) /\ Moved(r, q, q.moved) = Moved(r, remover[r], remover[r].moved)
      BY <2>3 DEF Confirmed, Moved
    <3>3. remover[r].moved = {} => Moved(r, q, q.moved) = {}
      BY <2>3 DEF Moved
    <3>4. remover[r].pc = "moving" /\ remover[r].todo = {} => Confirmed(q) = q.moved
      BY <2>3, <3>1, <3>2 DEF RemoverOk
    <3> QED
      BY <2>1, <2>3, <3>1, <3>2, <3>3, <3>4 DEF RemoverOk
  <2> QED
    BY <1>0, <2>1, <2>2, <2>3, <2>4, <2>5, RemovalMoves
<1>8. ASSUME NEW r \in Removers, NEW f \in Folders, Removal!Restores(r, f)
      PROVE  RemovalOk(folder', trash', remover', late')
  <2>0. remover[r].pc = "restoring" /\ f \in remover[r].moved
    BY <1>8 DEF Removal!Restores, Removal!IsLast
  <2>1. PICK t \in trash :
           /\ t.by = r /\ t.folder = f
           /\ folder' = [folder EXCEPT ![f] = t.version] /\ trash' = trash \ {t}
           /\ remover' = [remover EXCEPT ![r].moved = @ \ {f}]
           /\ late' = late \cup (Removal!UnderWay \ {r})
    BY <1>8 DEF Removal!Restores
  <2> DEFINE q == [remover[r] EXCEPT !.moved = @ \ {f}]
  <2>2. /\ DOMAIN q = {"pc", "seen", "todo", "moved"} /\ q.pc = "restoring" /\ q.seen = remover[r].seen
        /\ q.todo = remover[r].todo /\ q.moved = remover[r].moved \ {f}
    BY <1>0, <2>0
  <2>3. remover' = [remover EXCEPT ![r] = q]
    BY <1>0, <2>1
  <2> HIDE DEF q
  <2>4. remover' = [p \in Removers |-> remover'[p]] /\ remover'[r] = q /\ \A p \in Removers \ {r} : remover'[p] = remover[p]
    BY <1>0, <2>3
  <2>5. folder' = [g \in Folders |-> folder'[g]] /\ \A g \in Folders \ {f} : folder'[g] = folder[g]
    BY <1>0, <2>1
  <2>6. ASSUME r \notin late PROVE RemoverOk(r, q, folder', trash')
    <3>1. BatchOf(trash, r) = Moved(r, remover[r], remover[r].moved) /\ \A g \in remover[r].moved : folder[g] = Removal!Gone
      BY <1>0, <2>0, <2>6 DEF RemoverOk
    <3>2. \A g \in remover[r].moved : folder'[g] = Removal!Gone \/ g = f
      BY <1>0, <2>5, <3>1
    <3>3. t = Entry(r, q.seen, f)
      BY <2>1, <2>2, <3>1 DEF BatchOf, Moved, Entry
    <3>4. BatchOf(trash', r) = BatchOf(trash, r) \ {t}
      BY <2>1 DEF BatchOf
    <3>5. BatchOf(trash', r) = Moved(r, q, q.moved)
      BY <2>2, <3>1, <3>3, <3>4 DEF Moved, Entry
    <3> QED
      BY <2>2, <3>2, <3>5 DEF RemoverOk
  <2>7. ASSUME NEW p \in Removers \ {r}, p \notin late' PROVE RemoverOk(p, remover[p], folder', trash')
    <3>1. remover[p].pc \notin {"moving", "restoring"} /\ RemoverOk(p, remover[p], folder, trash)
      BY <1>0, <2>1, <2>7 DEF Removal!UnderWay
    <3>2. BatchOf(trash', p) = BatchOf(trash, p)
      BY <2>1 DEF BatchOf
    <3> QED
      BY <3>1, <3>2 DEF RemoverOk
  <2>8. ASSUME NEW p \in Removers
        PROVE  /\ DOMAIN remover'[p] = {"pc", "seen", "todo", "moved"}
               /\ remover'[p].moved \subseteq Folders /\ remover'[p].todo \subseteq Folders
               /\ remover'[p].pc \in {"idle", "seen"} => remover'[p].moved = {}
               /\ p \in late' \/ RemoverOk(p, remover'[p], folder', trash')
    BY <1>0, <2>1, <2>2, <2>4, <2>6, <2>7
  <2> QED
    BY <2>4, <2>5, <2>8 DEF RemovalOk
<1>9. ASSUME NEW r \in Removers, Removal!RestoreFails(r)
      PROVE  RemovalOk(folder', trash', remover', late')
  <2>1. /\ remover[r].pc = "restoring" /\ remover' = [remover EXCEPT ![r].pc = "failed"]
        /\ folder' = folder /\ trash' = trash /\ late' = late \cup {r}
    BY <1>9 DEF Removal!RestoreFails
  <2>2. /\ DOMAIN remover'[r] = {"pc", "seen", "todo", "moved"} /\ remover'[r].pc = "failed"
        /\ remover'[r].todo = remover[r].todo /\ remover'[r].moved = remover[r].moved
    BY <1>0, <2>1
  <2>3. remover' = [p \in Removers |-> remover'[p]] /\ \A p \in Removers \ {r} : remover'[p] = remover[p]
    BY <1>0, <2>1
  <2>4. ASSUME NEW p \in Removers
        PROVE  /\ DOMAIN remover'[p] = {"pc", "seen", "todo", "moved"}
               /\ remover'[p].moved \subseteq Folders /\ remover'[p].todo \subseteq Folders
               /\ remover'[p].pc \in {"idle", "seen"} => remover'[p].moved = {}
               /\ p \in late' \/ RemoverOk(p, remover'[p], folder', trash')
    BY <1>0, <2>1, <2>2, <2>3
  <2> QED
    BY <1>0, <2>1, <2>3, <2>4 DEF RemovalOk
<1> QED
  BY <1>1, <1>2, <1>3, <1>4, <1>5, <1>6, <1>7, <1>8, <1>9 DEF Removal!Next, Removal!remove_abstec_output

(* A removal is all that was confirmed or nothing, for any folders and any *)
(* number of administrators, read-only roots and failing renames included, *)
(* unless a converter or another's restoring writes while it moves, or a   *)
(* folder cannot be put back.                                              *)
THEOREM AllOrNothing == Spec => []RemovesAllOrNothing
<1> DEFINE Inv == RemovalOk(folder, trash, remover, late)
<1>1. Init => Inv
  <2> SUFFICES ASSUME Init PROVE Inv
    OBVIOUS
  <2>1. folder = [f \in Folders |-> Removal!Gone] /\ trash = {} /\ remover = [r \in Removers |-> Removal!Idle] /\ late = {}
    BY DEF Init, Removal!Init
  <2>2. /\ DOMAIN Removal!Idle = {"pc", "seen", "todo", "moved"}
        /\ Removal!Idle.pc = "idle" /\ Removal!Idle.todo = {} /\ Removal!Idle.moved = {}
    BY DEF Removal!Idle
  <2>3. \A r \in Removers : RemoverOk(r, remover[r], folder, trash)
    BY <2>1, <2>2 DEF RemoverOk, BatchOf
  <2> QED
    BY <2>1, <2>2, <2>3 DEF RemovalOk
<1>2. Inv /\ [Next]_hubVars => Inv'
  BY RemovalStep DEF Next, hubVars
<1>3. Inv => RemovesAllOrNothing
  BY DEF RemovalOk, RemoverOk, RemovesAllOrNothing, Removal!RemovesAllOrNothing, Removal!Batch, BatchOf,
         Moved, Entry, Confirmed
<1> QED
  BY <1>1, <1>2, <1>3, PTL DEF Spec, hubVars

-----------------------------------------------------------------------------
(***************************************************************************)
(* IndexerClient.  What is cached, fetched or shown was the indexer's tree *)
(* at a time that each of them bounds.                                     *)
(***************************************************************************)
WasTrue(newest, ends, tree0, since) ==
    \E v \in 1..newest : Client!FoldersIn(tree0) = Client!FoldersIn(Documents[v]) /\ ends[v] >= since

EntryOk(newest, ends, time, c) ==
    /\ DOMAIN c = {"at", "tree"} /\ c.at \in Int /\ c.at <= time
    /\ c.at >= 0 => WasTrue(newest, ends, c.tree, c.at - Timeout)

ShownOk(newest, ends, time, a) ==
    /\ a.shown.at \in Int /\ a.shown.at <= time
    /\ a.shown.ok => WasTrue(newest, ends, a.shown.tree,
                             IF a.refresh THEN a.since ELSE a.shown.at - Ttl - Timeout)

FetchOk(newest, ends, time, a) ==
    /\ a.todo # << >>
    /\ a.sent \in Int /\ a.since <= a.sent /\ a.sent <= time /\ time - a.sent <= Timeout
    /\ a.pc = "waits" => WasTrue(newest, ends, a.reply, a.sent)

AskOk(newest, ends, time, a) ==
    \/ a = Client!Asleep
    \/ /\ DOMAIN a = {"pc", "todo", "refresh", "since", "sent", "reply", "shown"}
       /\ a.pc \in {"asks", "fetches", "waits"}
       /\ a.todo \in Seq(Endpoints) /\ a.refresh \in BOOLEAN
       /\ a.since \in Int /\ a.since <= time
       /\ ShownOk(newest, ends, time, a)
       /\ a.pc \in {"fetches", "waits"} => FetchOk(newest, ends, time, a)

TimesOk(newest, ends, time) ==
    /\ newest \in DOMAIN Documents /\ time \in 0..EndOfTime
    /\ ends = [v \in DOMAIN Documents |-> ends[v]]
    /\ \A v \in DOMAIN Documents : ends[v] \in Int /\ (v >= newest => ends[v] = EndOfTime)

ClientOk(newest, ends, time, c0, a0) ==
    /\ TimesOk(newest, ends, time)
    /\ c0 = [e \in Endpoints |-> c0[e]] /\ \A e \in Endpoints : EntryOk(newest, ends, time, c0[e])
    /\ a0 = [r \in Requests |-> a0[r]] /\ \A r \in Requests : AskOk(newest, ends, time, a0[r])

(* The trees there were ceased to be the newest at some time. *)
LEMMA EndsAreTimes ==
    ASSUME NEW newest, NEW ends, NEW time, TimesOk(newest, ends, time)
    PROVE  \A v \in 1..newest : ends[v] \in Int
<1>1. DOMAIN Documents = 1..Len(Documents) /\ Len(Documents) \in Nat
  BY ClientAssumption
<1>2. newest \in DOMAIN Documents
  BY DEF TimesOk
<1>3. 1..newest \subseteq DOMAIN Documents
  BY <1>1, <1>2
<1> QED
  BY <1>3 DEF TimesOk

(* A folder of a tree, by its year and its day. *)
HasFolderAt(tree0, p) ==
    \E y \in tree0 : \E d \in y.days : y.year # "" /\ d.day # "" /\ p = <<y.year, d.day>>

LEMMA FoldersNamed ==
    ASSUME NEW tree0, NEW p
    PROVE  p \in Client!FoldersIn(tree0) <=> HasFolderAt(tree0, p)
<1> DEFINE Of(y) == {<<y.year, d.day>> : d \in {n \in y.days : n.day # ""}}
<1>1. ASSUME NEW y PROVE p \in Of(y) <=> \E d \in y.days : d.day # "" /\ p = <<y.year, d.day>>
  OBVIOUS
<1>2. Client!FoldersIn(tree0) = UNION {Of(y) : y \in {n \in tree0 : n.year # ""}}
  BY DEF Client!FoldersIn
<1> HIDE DEF Of
<1>3. p \in Client!FoldersIn(tree0) <=> \E y \in tree0 : y.year # "" /\ p \in Of(y)
  BY <1>2
<1> QED
  BY <1>1, <1>3 DEF HasFolderAt

(* The parsers leave out no folder that has a name. *)
LEMMA ParsedFolders ==
    ASSUME NEW e, NEW document
    PROVE  Client!FoldersIn(Client!Parsed(e, document)) = Client!FoldersIn(document)
<1> DEFINE parsed == Client!Parsed(e, document)
<1>1. ASSUME NEW p, HasFolderAt(parsed, p) PROVE HasFolderAt(document, p)
  <2>1. PICK z \in parsed : \E d \in z.days : z.year # "" /\ d.day # "" /\ p = <<z.year, d.day>>
    BY <1>1 DEF HasFolderAt
  <2>2. PICK d \in z.days : z.year # "" /\ d.day # "" /\ p = <<z.year, d.day>>
    BY <2>1
  <2>3. PICK y \in document : y.year # "" /\ z = [year |-> y.year, days |-> Client!ParsedDays(e, y.days)]
    BY <2>1 DEF Client!Parsed
  <2>4. z.year = y.year /\ z.days = Client!ParsedDays(e, y.days)
    BY <2>3
  <2>5. PICK n \in y.days : n.day # "" /\ d = [day |-> n.day, leaves |-> Client!Leaves(e, n)]
    BY <2>2, <2>4 DEF Client!ParsedDays
  <2>6. d.day = n.day
    BY <2>5
  <2> QED
    BY <2>2, <2>3, <2>4, <2>5, <2>6 DEF HasFolderAt
<1>2. ASSUME NEW p, HasFolderAt(document, p) PROVE HasFolderAt(parsed, p)
  <2>1. PICK y \in document : \E d \in y.days : y.year # "" /\ d.day # "" /\ p = <<y.year, d.day>>
    BY <1>2 DEF HasFolderAt
  <2>2. PICK n \in y.days : y.year # "" /\ n.day # "" /\ p = <<y.year, n.day>>
    BY <2>1
  <2> DEFINE d == [day |-> n.day, leaves |-> Client!Leaves(e, n)]
             z == [year |-> y.year, days |-> Client!ParsedDays(e, y.days)]
  <2>3. d \in Client!ParsedDays(e, y.days) /\ d.day = n.day
    BY <2>2 DEF Client!ParsedDays
  <2>4. z \in parsed /\ z.year = y.year /\ z.days = Client!ParsedDays(e, y.days)
    BY <2>2 DEF Client!Parsed
  <2> HIDE DEF d, z, parsed
  <2> QED
    BY <2>2, <2>3, <2>4 DEF HasFolderAt
<1> HIDE DEF parsed
<1>3. \A p : p \in Client!FoldersIn(parsed) <=> p \in Client!FoldersIn(document)
  BY <1>1, <1>2, FoldersNamed
<1> QED
  BY <1>3 DEF parsed

(* What was true stays so, for a time that is not to come, when the tree   *)
(* changes.                                                                *)
LEMMA TrueStays ==
    ASSUME NEW n, NEW ends, NEW time, TimesOk(n, ends, time), n < Len(Documents)
    PROVE  /\ TimesOk(n + 1, [ends EXCEPT ![n] = time], time)
           /\ \A tree0, since : since \in Int /\ since <= time /\ WasTrue(n, ends, tree0, since) =>
                                   WasTrue(n + 1, [ends EXCEPT ![n] = time], tree0, since)
<1>1. /\ Len(Documents) \in Nat /\ DOMAIN Documents = 1..Len(Documents)
      /\ n \in 1..Len(Documents) /\ time \in Int /\ time <= EndOfTime /\ EndOfTime \in Int
  BY ClientAssumption DEF TimesOk
<1> DEFINE later == [ends EXCEPT ![n] = time]
<1>2. /\ later = [v \in DOMAIN Documents |-> later[v]] /\ later[n] = time
      /\ \A v \in DOMAIN Documents \ {n} : later[v] = ends[v]
  BY <1>1 DEF TimesOk
<1> HIDE DEF later
<1>3. TimesOk(n + 1, later, time)
  BY <1>1, <1>2 DEF TimesOk
<1>4. ASSUME NEW tree0, NEW since \in Int, since <= time, WasTrue(n, ends, tree0, since)
      PROVE  WasTrue(n + 1, later, tree0, since)
  <2>1. PICK v \in 1..n : Client!FoldersIn(tree0) = Client!FoldersIn(Documents[v]) /\ ends[v] >= since
    BY <1>4 DEF WasTrue
  <2>2. v \in 1..(n + 1) /\ later[v] >= since
    BY <1>1, <1>2, <1>4, <2>1
  <2> QED
    BY <2>1, <2>2 DEF WasTrue
<1> QED
  BY <1>3, <1>4 DEF later

(* An answer is taken, or the failure to get one. *)
LEMMA Taken ==
    ASSUME NEW n, NEW ends, NEW time, TimesOk(n, ends, time), NEW a, AskOk(n, ends, time, a),
           a # Client!Asleep, a.todo # << >>, NEW ok, NEW tree0,
           ok => WasTrue(n, ends, tree0, IF a.refresh THEN a.since ELSE time - Ttl - Timeout),
           NEW b, b = [a EXCEPT !.shown = [ok |-> ok, tree |-> tree0, at |-> time],
                                !.todo = Tail(a.todo), !.pc = "asks", !.sent = -1, !.reply = {}]
    PROVE  AskOk(n, ends, time, b)
<1>1. /\ DOMAIN a = {"pc", "todo", "refresh", "since", "sent", "reply", "shown"}
      /\ a.todo \in Seq(Endpoints) /\ a.refresh \in BOOLEAN /\ a.since \in Int /\ a.since <= time
  BY DEF AskOk
<1>2. /\ DOMAIN b = {"pc", "todo", "refresh", "since", "sent", "reply", "shown"} /\ b.pc = "asks"
      /\ b.todo = Tail(a.todo) /\ b.refresh = a.refresh /\ b.since = a.since
      /\ b.shown = [ok |-> ok, tree |-> tree0, at |-> time]
  BY <1>1
<1>3. Tail(a.todo) \in Seq(Endpoints)
  BY <1>1
<1>4. b.shown.ok = ok /\ b.shown.tree = tree0 /\ b.shown.at = time
  BY <1>2
<1>5. ShownOk(n, ends, time, b)
  BY <1>2, <1>4 DEF ShownOk, TimesOk
<1> QED
  BY <1>1, <1>2, <1>3, <1>5 DEF AskOk

(* A step of one request, and what it leaves in the cache. *)
LEMMA ClientMoves ==
    ASSUME ClientOk(truth, until, clock, _cache, asks), NEW r \in Requests, NEW a,
           asks' = [asks EXCEPT ![r] = a], AskOk(truth, until, clock, a),
           UNCHANGED <<truth, until, clock>>,
           _cache' = [e \in Endpoints |-> _cache'[e]],
           \A e \in Endpoints : EntryOk(truth, until, clock, _cache'[e])
    PROVE  ClientOk(truth', until', clock', _cache', asks')
<1>1. asks' = [p \in Requests |-> asks'[p]] /\ asks'[r] = a /\ \A p \in Requests \ {r} : asks'[p] = asks[p]
  BY DEF ClientOk
<1>2. \A p \in Requests : AskOk(truth, until, clock, asks'[p])
  BY <1>1 DEF ClientOk
<1>3. truth' = truth /\ until' = until /\ clock' = clock
  OBVIOUS
<1> QED
  BY <1>1, <1>2, <1>3 DEF ClientOk

(* What bounds a request as time passes, and as the tree changes. *)
LEMMA AskLater ==
    ASSUME NEW n, NEW ends, NEW time, TimesOk(n, ends, time), time < EndOfTime,
           NEW a, AskOk(n, ends, time, a),
           a.pc \in {"fetches", "waits"} => time - a.sent < Timeout
    PROVE  AskOk(n, ends, time + 1, a)
<1>1. time \in Int /\ Timeout \in Nat
  BY ClientAssumption DEF TimesOk
<1>2. CASE a = Client!Asleep
  BY <1>2 DEF AskOk
<1>3. CASE a # Client!Asleep
  <2>1. a.since <= time + 1 /\ ShownOk(n, ends, time + 1, a)
    BY <1>1, <1>3 DEF AskOk, ShownOk
  <2>2. a.pc \in {"fetches", "waits"} => FetchOk(n, ends, time + 1, a)
    BY <1>1, <1>3 DEF AskOk, FetchOk
  <2> QED
    BY <1>3, <2>1, <2>2 DEF AskOk
<1> QED
  BY <1>2, <1>3

LEMMA AskOnNewTree ==
    ASSUME NEW n, NEW ends, NEW time, TimesOk(n, ends, time), n < Len(Documents),
           NEW a, AskOk(n, ends, time, a)
    PROVE  AskOk(n + 1, [ends EXCEPT ![n] = time], time, a)
<1> DEFINE later == [ends EXCEPT ![n] = time]
           m == n + 1
<1>1. \A tree0, since : since \in Int /\ since <= time /\ WasTrue(n, ends, tree0, since) =>
                            WasTrue(m, later, tree0, since)
  BY TrueStays
<1> HIDE DEF later, m
<1>2. time \in Int /\ Timeout \in Nat /\ Ttl \in Nat
  BY ClientAssumption DEF TimesOk
<1>3. ASSUME a = Client!Asleep PROVE AskOk(m, later, time, a)
  BY <1>3 DEF AskOk
<1>4. ASSUME a # Client!Asleep PROVE AskOk(m, later, time, a)
  <2>1. ShownOk(m, later, time, a)
    BY <1>1, <1>2, <1>4 DEF AskOk, ShownOk
  <2>2. a.pc \in {"fetches", "waits"} => FetchOk(m, later, time, a)
    BY <1>1, <1>2, <1>4 DEF AskOk, FetchOk
  <2>3. /\ DOMAIN a = {"pc", "todo", "refresh", "since", "sent", "reply", "shown"}
        /\ a.pc \in {"asks", "fetches", "waits"}
        /\ a.todo \in Seq(Endpoints) /\ a.refresh \in BOOLEAN
        /\ a.since \in Int /\ a.since <= time
    BY <1>4 DEF AskOk
  <2> QED
    BY <2>1, <2>2, <2>3 DEF AskOk
<1>5. AskOk(m, later, time, a)
  BY <1>3, <1>4
<1> QED
  BY <1>5 DEF later, m

(* One step. *)
LEMMA ClientStep ==
    ASSUME ClientOk(truth, until, clock, _cache, asks), [Client!Next]_OfClient
    PROVE  ClientOk(truth', until', clock', _cache', asks')
<1>0. /\ TimesOk(truth, until, clock) /\ clock \in Nat /\ Timeout \in Nat /\ Ttl \in Nat
      /\ truth \in 1..Len(Documents) /\ Len(Documents) \in Nat /\ EndOfTime \in Nat
      /\ _cache = [e \in Endpoints |-> _cache[e]] /\ \A e \in Endpoints : EntryOk(truth, until, clock, _cache[e])
      /\ asks = [r \in Requests |-> asks[r]] /\ \A r \in Requests : AskOk(truth, until, clock, asks[r])
  BY ClientAssumption DEF ClientOk, TimesOk
<1>e. EntryOk(truth, until, clock, Client!NoEntry)
  BY <1>0 DEF EntryOk, Client!NoEntry
<1>1. CASE UNCHANGED OfClient
  BY <1>1 DEF OfClient
<1>2. ASSUME NEW r \in Requests, NEW todo \in Seq(Endpoints), NEW refresh \in BOOLEAN, NEW clears \in BOOLEAN,
             Client!Visits(r, todo, refresh, clears)
      PROVE  ClientOk(truth', until', clock', _cache', asks')
  <2> DEFINE shown0 == [ok |-> FALSE, tree |-> {}, at |-> clock]
             a == [pc |-> "asks", todo |-> todo, refresh |-> refresh, since |-> clock, sent |-> -1,
                   reply |-> {}, shown |-> shown0]
  <2>1. /\ asks' = [asks EXCEPT ![r] = a] /\ UNCHANGED <<truth, until, clock>>
        /\ _cache' = IF clears THEN [e \in Endpoints |-> Client!NoEntry] ELSE _cache
    BY <1>2 DEF Client!Visits
  <2>2. /\ DOMAIN a = {"pc", "todo", "refresh", "since", "sent", "reply", "shown"} /\ a.pc = "asks"
        /\ a.todo = todo /\ a.refresh = refresh /\ a.since = clock /\ a.shown.ok = FALSE /\ a.shown.at = clock
    OBVIOUS
  <2> HIDE DEF a
  <2>3. AskOk(truth, until, clock, a)
    BY <1>0, <2>2 DEF AskOk, ShownOk
  <2>4. _cache' = [e \in Endpoints |-> _cache'[e]] /\ \A e \in Endpoints : EntryOk(truth, until, clock, _cache'[e])
    BY <1>0, <1>e, <2>1
  <2> QED
    BY <2>1, <2>3, <2>4, ClientMoves
<1>3. ASSUME NEW r \in Requests, Client!AnswersFromCache(r) PROVE ClientOk(truth', until', clock', _cache', asks')
  <2> DEFINE e == Head(asks[r].todo)
             b == [asks[r] EXCEPT !.shown = [ok |-> TRUE, tree |-> _cache[e].tree, at |-> clock],
                                  !.todo = Tail(asks[r].todo), !.pc = "asks", !.sent = -1, !.reply = {}]
  <2>1. /\ asks[r].pc = "asks" /\ asks[r].todo # << >> /\ ~asks[r].refresh
        /\ Client!_get_cache(e) # Client!NoEntry /\ UNCHANGED <<truth, until, clock, _cache>>
        /\ asks' = Client!Shows(r, TRUE, _cache[e].tree)
    BY <1>3 DEF Client!AnswersFromCache, Client!Asking
  <2>2. AskOk(truth, until, clock, asks[r]) /\ asks[r] # Client!Asleep
    BY <1>0, <2>1 DEF Client!Asleep
  <2>3. e \in Endpoints
    BY <2>1, <2>2 DEF AskOk
  <2>4. asks' = [asks EXCEPT ![r] = b]
    BY <1>0, <2>1 DEF Client!Shows
  <2>5. _cache[e].at >= 0 /\ clock - _cache[e].at <= Ttl
    BY <2>1 DEF Client!_get_cache
  <2>6. WasTrue(truth, until, _cache[e].tree, clock - Ttl - Timeout)
    <3>1. _cache[e].at \in Int /\ WasTrue(truth, until, _cache[e].tree, _cache[e].at - Timeout)
      BY <1>0, <2>3, <2>5 DEF EntryOk
    <3>2. \A v \in 1..truth : until[v] \in Int
      BY <1>0, EndsAreTimes
    <3>3. PICK v \in 1..truth : /\ Client!FoldersIn(_cache[e].tree) = Client!FoldersIn(Documents[v])
                               /\ until[v] >= _cache[e].at - Timeout
      BY <3>1 DEF WasTrue
    <3> HIDE DEF e
    <3>4. until[v] >= clock - Ttl - Timeout
      BY <1>0, <2>5, <3>1, <3>2, <3>3
    <3> QED
      BY <3>3, <3>4 DEF WasTrue
  <2> HIDE DEF e
  <2>7. AskOk(truth, until, clock, b)
    BY <1>0, <2>1, <2>2, <2>6, Taken
  <2> HIDE DEF b
  <2> QED
    BY <1>0, <2>1, <2>4, <2>7, ClientMoves
<1>4. ASSUME NEW r \in Requests, Client!Fetches(r) PROVE ClientOk(truth', until', clock', _cache', asks')
  <2> DEFINE b == [asks[r] EXCEPT !.pc = "fetches", !.sent = clock]
  <2>1. /\ asks[r].pc = "asks" /\ asks[r].todo # << >> /\ UNCHANGED <<truth, until, clock>>
        /\ asks' = [asks EXCEPT ![r].pc = "fetches", ![r].sent = clock]
        /\ _cache' = _cache \/ _cache' = [_cache EXCEPT ![Head(asks[r].todo)] = Client!NoEntry]
    BY <1>4 DEF Client!Fetches, Client!Asking
  <2>2. AskOk(truth, until, clock, asks[r]) /\ asks[r] # Client!Asleep
    BY <1>0, <2>1 DEF Client!Asleep
  <2>3. asks' = [asks EXCEPT ![r] = b]
    BY <1>0, <2>1
  <2>4. /\ DOMAIN b = {"pc", "todo", "refresh", "since", "sent", "reply", "shown"} /\ b.pc = "fetches"
        /\ b.todo = asks[r].todo /\ b.refresh = asks[r].refresh /\ b.since = asks[r].since
        /\ b.shown = asks[r].shown /\ b.sent = clock
    BY <2>2 DEF AskOk
  <2> HIDE DEF b
  <2>5. AskOk(truth, until, clock, b)
    BY <1>0, <2>1, <2>2, <2>4 DEF AskOk, ShownOk, FetchOk
  <2>6. _cache' = [e \in Endpoints |-> _cache'[e]] /\ \A e \in Endpoints : EntryOk(truth, until, clock, _cache'[e])
    BY <1>0, <1>e, <2>1
  <2> QED
    BY <2>1, <2>3, <2>5, <2>6, ClientMoves
<1>5. ASSUME NEW r \in Requests, Client!IndexerReplies(r) PROVE ClientOk(truth', until', clock', _cache', asks')
  <2> DEFINE b == [asks[r] EXCEPT !.pc = "waits", !.reply = Documents[truth]]
  <2>1. /\ asks[r].pc = "fetches" /\ UNCHANGED <<truth, until, clock, _cache>>
        /\ asks' = [asks EXCEPT ![r].pc = "waits", ![r].reply = Documents[truth]]
    BY <1>5 DEF Client!IndexerReplies
  <2>2. AskOk(truth, until, clock, asks[r]) /\ asks[r] # Client!Asleep
    BY <1>0, <2>1 DEF Client!Asleep
  <2>3. asks' = [asks EXCEPT ![r] = b]
    BY <1>0, <2>1
  <2>4. /\ DOMAIN b = {"pc", "todo", "refresh", "since", "sent", "reply", "shown"} /\ b.pc = "waits"
        /\ b.todo = asks[r].todo /\ b.refresh = asks[r].refresh /\ b.since = asks[r].since
        /\ b.shown = asks[r].shown /\ b.sent = asks[r].sent /\ b.reply = Documents[truth]
    BY <2>2 DEF AskOk
  <2> HIDE DEF b
  <2>5. FetchOk(truth, until, clock, asks[r])
    BY <2>1, <2>2 DEF AskOk
  <2>6. until[truth] = EndOfTime /\ clock <= EndOfTime
    BY <1>0 DEF TimesOk
  <2>7. WasTrue(truth, until, b.reply, b.sent)
    BY <1>0, <2>4, <2>5, <2>6 DEF WasTrue, FetchOk
  <2>8. AskOk(truth, until, clock, b)
    BY <2>2, <2>4, <2>5, <2>7 DEF AskOk, ShownOk, FetchOk
  <2> QED
    BY <1>0, <2>1, <2>3, <2>8, ClientMoves
<1>6. ASSUME NEW r \in Requests, Client!Arrives(r) PROVE ClientOk(truth', until', clock', _cache', asks')
  <2> DEFINE e == Head(asks[r].todo)
             tree0 == Client!Parsed(e, asks[r].reply)
             b == [asks[r] EXCEPT !.shown = [ok |-> TRUE, tree |-> tree0, at |-> clock],
                                  !.todo = Tail(asks[r].todo), !.pc = "asks", !.sent = -1, !.reply = {}]
             c == [at |-> clock, tree |-> tree0]
  <2>1. /\ asks[r].pc = "waits" /\ UNCHANGED <<truth, until, clock>>
        /\ asks' = Client!Shows(r, TRUE, tree0) /\ _cache' = [_cache EXCEPT ![e] = c]
    BY <1>6 DEF Client!Arrives, Client!_set_cache
  <2>2. AskOk(truth, until, clock, asks[r]) /\ asks[r] # Client!Asleep
    BY <1>0, <2>1 DEF Client!Asleep
  <2>3. FetchOk(truth, until, clock, asks[r]) /\ WasTrue(truth, until, asks[r].reply, asks[r].sent)
    BY <2>1, <2>2 DEF AskOk, FetchOk
  <2>4. asks' = [asks EXCEPT ![r] = b]
    BY <1>0, <2>1 DEF Client!Shows
  <2>5. Client!FoldersIn(tree0) = Client!FoldersIn(asks[r].reply)
    BY ParsedFolders
  <2> HIDE DEF tree0, e
  <2>6. \A v \in 1..truth : until[v] \in Int
    BY <1>0, EndsAreTimes
  <2>7. asks[r].since \in Int /\ asks[r].sent \in Int /\ asks[r].since <= asks[r].sent /\ asks[r].sent >= clock - Timeout
    BY <1>0, <2>2, <2>3 DEF AskOk, FetchOk
  <2>8. WasTrue(truth, until, tree0, asks[r].since) /\ WasTrue(truth, until, tree0, clock - Timeout)
        /\ WasTrue(truth, until, tree0, clock - Ttl - Timeout)
    <3>1. PICK v \in 1..truth :
             Client!FoldersIn(asks[r].reply) = Client!FoldersIn(Documents[v]) /\ until[v] >= asks[r].sent
      BY <2>3 DEF WasTrue
    <3>2. until[v] >= asks[r].since /\ until[v] >= clock - Timeout /\ until[v] >= clock - Ttl - Timeout
      BY <1>0, <2>6, <2>7, <3>1
    <3> QED
      BY <2>5, <3>1, <3>2 DEF WasTrue
  <2>9. AskOk(truth, until, clock, b)
    BY <1>0, <2>2, <2>3, <2>8, Taken DEF FetchOk
  <2> HIDE DEF b
  <2>10. EntryOk(truth, until, clock, c)
    BY <1>0, <2>8 DEF EntryOk
  <2> HIDE DEF c
  <2>11. _cache' = [d \in Endpoints |-> _cache'[d]] /\ \A d \in Endpoints : EntryOk(truth, until, clock, _cache'[d])
    BY <1>0, <2>1, <2>10
  <2> QED
    BY <2>1, <2>4, <2>9, <2>11, ClientMoves
<1>7. ASSUME NEW r \in Requests, Client!FetchFails(r) PROVE ClientOk(truth', until', clock', _cache', asks')
  <2> DEFINE b == [asks[r] EXCEPT !.shown = [ok |-> FALSE, tree |-> {}, at |-> clock],
                                  !.todo = Tail(asks[r].todo), !.pc = "asks", !.sent = -1, !.reply = {}]
  <2>1. /\ asks[r].pc \in {"fetches", "waits"} /\ UNCHANGED <<truth, until, clock, _cache>>
        /\ asks' = Client!Shows(r, FALSE, {})
    BY <1>7 DEF Client!FetchFails
  <2>2. AskOk(truth, until, clock, asks[r]) /\ asks[r] # Client!Asleep
    BY <1>0, <2>1 DEF Client!Asleep
  <2>3. FetchOk(truth, until, clock, asks[r])
    BY <2>1, <2>2 DEF AskOk
  <2>4. asks' = [asks EXCEPT ![r] = b]
    BY <1>0, <2>1 DEF Client!Shows
  <2>5. AskOk(truth, until, clock, b)
    BY <1>0, <2>2, <2>3, Taken DEF FetchOk
  <2> HIDE DEF b
  <2> QED
    BY <1>0, <2>1, <2>4, <2>5, ClientMoves
<1>8. ASSUME NEW r \in Requests, Client!Renders(r) PROVE ClientOk(truth', until', clock', _cache', asks')
  <2>1. asks' = [asks EXCEPT ![r] = Client!Asleep] /\ UNCHANGED <<truth, until, clock, _cache>>
    BY <1>8 DEF Client!Renders
  <2>2. AskOk(truth, until, clock, Client!Asleep)
    BY DEF AskOk
  <2> QED
    BY <1>0, <2>1, <2>2, ClientMoves
<1>9. CASE Client!TreeChanges
  <2>1. /\ truth < Len(Documents) /\ truth' = truth + 1 /\ until' = [until EXCEPT ![truth] = clock]
        /\ clock' = clock /\ _cache' = _cache /\ asks' = asks
    BY <1>9 DEF Client!TreeChanges
  <2>2. TimesOk(truth', until', clock')
    BY <1>0, <2>1, TrueStays
  <2>3. \A r \in Requests : AskOk(truth', until', clock', asks'[r])
    BY <1>0, <2>1, AskOnNewTree
  <2>4. ASSUME NEW e \in Endpoints PROVE EntryOk(truth', until', clock', _cache'[e])
    <3>1. EntryOk(truth, until, clock, _cache[e])
      BY <1>0
    <3>2. _cache[e].at \in Int /\ _cache[e].at - Timeout \in Int /\ _cache[e].at - Timeout <= clock
      BY <1>0, <3>1 DEF EntryOk
    <3>3. WasTrue(truth, until, _cache[e].tree, _cache[e].at - Timeout) =>
             WasTrue(truth', until', _cache[e].tree, _cache[e].at - Timeout)
      BY <1>0, <2>1, <3>2, TrueStays
    <3> QED
      BY <2>1, <3>1, <3>3 DEF EntryOk
  <2> QED
    BY <1>0, <2>1, <2>2, <2>3, <2>4 DEF ClientOk
<1>10. CASE Client!Ticks
  <2>1. /\ clock < EndOfTime /\ clock' = clock + 1 /\ UNCHANGED <<truth, until, _cache, asks>>
        /\ \A r \in Requests : asks[r].pc \in {"fetches", "waits"} => clock - asks[r].sent < Timeout
    BY <1>10 DEF Client!Ticks
  <2>2. TimesOk(truth, until, clock')
    BY <1>0, <2>1 DEF TimesOk
  <2>3. \A r \in Requests : AskOk(truth, until, clock', asks[r])
    BY <1>0, <2>1, AskLater
  <2>4. \A e \in Endpoints : EntryOk(truth, until, clock', _cache[e])
    BY <1>0, <2>1 DEF EntryOk
  <2> QED
    BY <1>0, <2>1, <2>2, <2>3, <2>4 DEF ClientOk
<1>11. CASE Client!Restarts
  <2>1. /\ _cache' = [e \in Endpoints |-> Client!NoEntry] /\ asks' = [r \in Requests |-> Client!Asleep]
        /\ truth' = truth /\ until' = until /\ clock' = clock
    BY <1>11 DEF Client!Restarts
  <2>2. \A r \in Requests : AskOk(truth, until, clock, asks'[r])
    BY <2>1 DEF AskOk
  <2> QED
    BY <1>0, <1>e, <2>1, <2>2 DEF ClientOk
<1>12. \A e \in Endpoints : <<e>> \in Seq(Endpoints)
  OBVIOUS
<1>13. IndexedTrees \in Seq(Endpoints)
  BY ClientAssumption
<1> QED
  BY <1>1, <1>2, <1>3, <1>4, <1>5, <1>6, <1>7, <1>8, <1>9, <1>10, <1>11, <1>12, <1>13 DEF Client!Next

(* What a page shows as the indexer's answer was its tree not longer ago   *)
(* than the cache keeps an entry and a fetch takes, and after a refresh    *)
(* not before the page was asked for: for any number of requests and trees *)
(* and whatever these times are.                                           *)
THEOREM ShownTrueLately == Spec => []ShownWasTrueLately
<1> DEFINE Inv == ClientOk(truth, until, clock, _cache, asks)
<1>1. Init => Inv
  <2> SUFFICES ASSUME Init PROVE Inv
    OBVIOUS
  <2>1. /\ truth = 1 /\ until = [v \in DOMAIN Documents |-> EndOfTime] /\ clock = 0
        /\ _cache = [e \in Endpoints |-> Client!NoEntry] /\ asks = [r \in Requests |-> Client!Asleep]
    BY DEF Init, Client!Init
  <2>2. Len(Documents) \in Nat /\ DOMAIN Documents = 1..Len(Documents) /\ 1 \in DOMAIN Documents
    BY ClientAssumption
  <2>3. TimesOk(truth, until, clock)
    BY <2>1, <2>2, ClientAssumption DEF TimesOk
  <2>4. EntryOk(truth, until, clock, Client!NoEntry)
    BY <2>1 DEF EntryOk, Client!NoEntry
  <2>5. AskOk(truth, until, clock, Client!Asleep)
    BY DEF AskOk
  <2> QED
    BY <2>1, <2>3, <2>4, <2>5 DEF ClientOk
<1>2. Inv /\ [Next]_hubVars => Inv'
  BY ClientStep DEF Next, hubVars
<1>3. Inv => ShownWasTrueLately
  <2> SUFFICES ASSUME Inv, NEW r \in Requests, asks[r].pc # "idle", asks[r].shown.ok
               PROVE  \E v \in 1..truth :
                         /\ Client!FoldersIn(asks[r].shown.tree) = Client!FoldersIn(Documents[v])
                         /\ until[v] >= IF asks[r].refresh THEN asks[r].since
                                        ELSE asks[r].shown.at - Ttl - Timeout
    BY DEF ShownWasTrueLately, Client!ShownWasTrueLately
  <2>1. AskOk(truth, until, clock, asks[r]) /\ asks[r] # Client!Asleep
    BY DEF ClientOk, Client!Asleep
  <2>2. ShownOk(truth, until, clock, asks[r])
    BY <2>1 DEF AskOk
  <2> QED
    BY <2>2 DEF ShownOk, WasTrue
<1> QED
  BY <1>1, <1>2, <1>3, PTL DEF Spec, hubVars

-----------------------------------------------------------------------------
(***************************************************************************)
(* Accounts, for any names, browsers and passwords.                        *)
(***************************************************************************)
Accountable == [admin : BOOLEAN, active : BOOLEAN, pw : Passwords \cup {Weak}, must : BOOLEAN]

(* The table: it is never empty again, and its rows are accounts. *)
TableOk ==
    /\ users = [n \in DOMAIN users |-> users[n]] /\ DOMAIN users # {}
    /\ \A n \in DOMAIN users : users[n] \in Accountable
    /\ crossed \in BOOLEAN

(* A request was checked for an account there is.  Whatever its handler    *)
(* reads, its password is as it was read with the request, unless it was   *)
(* changed since, and then not to the weak one without a hand in it.       *)
RequestsOk ==
    /\ session \in [Browsers -> DOMAIN users \cup {NoName}]
    /\ DOMAIN request = Browsers
    /\ \A b \in Browsers : request[b] # NoRequest =>
          /\ request[b].by \in DOMAIN users
          /\ request[b].kind = "toggle" => users[request[b].by].admin
          /\ users[request[b].by].pw = Weak /\ request[b].pw # Weak => request[b].by \in chose

AccountsOk == TableOk /\ RequestsOk /\ AdminRemains

-----------------------------------------------------------------------------
(* An account, as a start leaves it. *)
LEMMA Flagged ==
    ASSUME NEW a \in Accountable,
           NEW c, c = IF a.admin /\ a.pw = Weak THEN [a EXCEPT !.must = TRUE] ELSE a
    PROVE  /\ c \in Accountable /\ (c.admin /\ c.pw = Weak => c.must)
           /\ c.admin = a.admin /\ c.active = a.active /\ c.pw = a.pw
BY DEF Accountable

(* A new one. *)
LEMMA NewAccount ==
    ASSUME NEW admin \in BOOLEAN, NEW pw \in Passwords \cup {Weak}, NEW must \in BOOLEAN
    PROVE  /\ Account(admin, pw, must) \in Accountable /\ Account(admin, pw, must).admin = admin
           /\ Account(admin, pw, must).active /\ Account(admin, pw, must).pw = pw
BY DEF Account, Accountable

(* An empty table is seeded, and a start flags the weak administrators. *)
LEMMA StartFlags ==
    ASSUME NEW table, table = << >> \/ DOMAIN table # {},
           \A n \in DOMAIN table : table[n] \in Accountable,
           NEW started, started = Started(table)
    PROVE  /\ DOMAIN started = IF table = << >> THEN {Seeded} ELSE DOMAIN table
           /\ started = [n \in DOMAIN started |-> started[n]]
           /\ \A n \in DOMAIN started :
                 /\ started[n] \in Accountable
                 /\ started[n].admin /\ started[n].pw = Weak => started[n].must
           /\ table = << >> => started[Seeded].admin /\ started[Seeded].active
           /\ table # << >> => \A n \in DOMAIN table :
                 /\ started[n].admin = table[n].admin /\ started[n].active = table[n].active
                 /\ started[n].pw = table[n].pw
<1> DEFINE seeded == IF table = << >> THEN [n \in {Seeded} |-> Account(TRUE, Weak, TRUE)] ELSE table
<1>1. started = [n \in DOMAIN seeded |-> IF seeded[n].admin /\ seeded[n].pw = Weak
                                         THEN [seeded[n] EXCEPT !.must = TRUE] ELSE seeded[n]]
  BY DEF Started
<1>2. CASE table = << >>
  <2>1. seeded = [n \in {Seeded} |-> Account(TRUE, Weak, TRUE)]
    BY <1>2
  <2>2. DOMAIN seeded = {Seeded} /\ seeded[Seeded] = Account(TRUE, Weak, TRUE)
    BY <2>1
  <2> HIDE DEF seeded
  <2>3. /\ seeded[Seeded] \in Accountable /\ seeded[Seeded].admin /\ seeded[Seeded].active
    <3>1. [admin |-> TRUE, active |-> TRUE, pw |-> Weak, must |-> TRUE] \in Accountable
      BY DEF Accountable
    <3>2. seeded[Seeded] = [admin |-> TRUE, active |-> TRUE, pw |-> Weak, must |-> TRUE]
      BY <2>2 DEF Account
    <3> QED
      BY <3>1, <3>2
  <2>4. /\ DOMAIN started = {Seeded} /\ started = [n \in DOMAIN started |-> started[n]]
        /\ started[Seeded] = IF seeded[Seeded].admin /\ seeded[Seeded].pw = Weak
                             THEN [seeded[Seeded] EXCEPT !.must = TRUE] ELSE seeded[Seeded]
    BY <1>1, <2>2
  <2>5. /\ started[Seeded] \in Accountable
        /\ started[Seeded].admin /\ started[Seeded].pw = Weak => started[Seeded].must
        /\ started[Seeded].admin = seeded[Seeded].admin /\ started[Seeded].active = seeded[Seeded].active
    BY <2>3, <2>4, Flagged
  <2> QED
    BY <1>2, <2>3, <2>4, <2>5
<1>3. CASE table # << >>
  <2>1. seeded = table
    BY <1>3
  <2> HIDE DEF seeded
  <2>2. DOMAIN started = DOMAIN table
    BY <1>1, <2>1
  <2>3. ASSUME NEW n \in DOMAIN table
        PROVE  /\ started[n] \in Accountable
               /\ started[n].admin /\ started[n].pw = Weak => started[n].must
               /\ started[n].admin = table[n].admin /\ started[n].active = table[n].active
               /\ started[n].pw = table[n].pw
    <3>1. started[n] = IF table[n].admin /\ table[n].pw = Weak
                       THEN [table[n] EXCEPT !.must = TRUE] ELSE table[n]
      BY <1>1, <2>1, <2>3
    <3>2. table[n] \in Accountable
      BY <2>3
    <3> QED
      BY <3>1, <3>2, Flagged
  <2> QED
    BY <1>1, <1>3, <2>2, <2>3
<1> QED
  BY <1>2, <1>3

(* The first start seeds the administrator. *)
LEMMA AccountsBegin == AccountsInit => AccountsOk
<1> SUFFICES ASSUME AccountsInit PROVE AccountsOk
  OBVIOUS
<1>1. users = Started(<< >>)
  BY DEF AccountsInit
<1>2. \A n \in DOMAIN << >> : FALSE
  OBVIOUS
<1>3. /\ DOMAIN users = {Seeded} /\ users = [n \in DOMAIN users |-> users[n]]
      /\ users[Seeded].admin /\ users[Seeded].active
      /\ \A n \in DOMAIN users :
            /\ users[n] \in Accountable
            /\ users[n].admin /\ users[n].pw = Weak => users[n].must
  BY <1>1, <1>2, StartFlags
<1>4. RequestsOk
  BY DEF AccountsInit, RequestsOk
<1> QED
  BY <1>3, <1>4 DEF AccountsOk, TableOk, AdminRemains, AccountsInit

(* What leaves the table alone and gives up or begins a request. *)
LEMMA SameTable ==
    ASSUME AccountsOk, UNCHANGED <<users, chose, crossed>>, RequestsOk'
    PROVE  AccountsOk'
BY DEF AccountsOk, TableOk, AdminRemains

(* One step. *)
LEMMA AccountsStep ==
    ASSUME AccountsOk, [AccountsNext]_accountsVars
    PROVE  AccountsOk'
<1>0. TableOk /\ RequestsOk /\ AdminRemains
  BY DEF AccountsOk
<1>1. CASE UNCHANGED accountsVars
  <2>1. RequestsOk'
    BY <1>0, <1>1 DEF RequestsOk, accountsVars
  <2> QED
    BY <1>1, <2>1, SameTable DEF accountsVars
<1>2. ASSUME NEW b \in Browsers, NEW n \in Names, NEW p \in Passwords, login_submit(b, n, p) PROVE AccountsOk'
  <2>1. RequestsOk'
    BY <1>0, <1>2 DEF RequestsOk, login_submit
  <2> QED
    BY <1>2, <2>1, SameTable DEF login_submit
<1>3. ASSUME NEW b \in Browsers, logout(b) \/ IsTurnedAway(b) PROVE AccountsOk'
  <2>1. RequestsOk'
    BY <1>0, <1>3 DEF RequestsOk, logout, IsTurnedAway
  <2> QED
    BY <1>3, <2>1, SameTable DEF logout, IsTurnedAway
<1>4. ASSUME NEW b \in Browsers, NEW what \in {"create", "toggle", "password"}, Arrives(b, what) PROVE AccountsOk'
  <2>1. /\ UNCHANGED <<users, session, chose, crossed>>
        /\ request' = [request EXCEPT ![b] = [kind |-> what, by |-> session[b], pw |-> users[session[b]].pw]]
        /\ session[b] \in DOMAIN users
        /\ what = "toggle" => users[session[b]].admin
    BY <1>0, <1>4 DEF Arrives, get_current_user, RequestsOk
  <2>2. RequestsOk'
    BY <1>0, <2>1 DEF RequestsOk
  <2> QED
    BY <2>1, <2>2, SameTable
<1>5. ASSUME NEW b \in Browsers, NEW n \in Names, NEW admin \in BOOLEAN, NEW p \in Passwords,
             create_user(b, n, admin, p)
      PROVE  AccountsOk'
  <2>1. request' = [request EXCEPT ![b] = NoRequest] /\ UNCHANGED <<session, crossed>>
    BY <1>5 DEF create_user, Handled
  <2>2. CASE n \in DOMAIN users
    <3>1. UNCHANGED <<users, chose>>
      BY <1>5, <2>2 DEF create_user
    <3>2. RequestsOk'
      BY <1>0, <2>1, <3>1 DEF RequestsOk
    <3> QED
      BY <2>1, <3>1, <3>2, SameTable
  <2>3. CASE n \notin DOMAIN users
    <3>1. /\ users' = [m \in DOMAIN users \cup {n} |-> IF m = n THEN Account(admin, p, FALSE) ELSE users[m]]
          /\ chose' = chose \cup (IF p = Weak THEN {n} ELSE {})
      BY <1>5, <2>3 DEF create_user
    <3>2. /\ DOMAIN users' = {n} \cup DOMAIN users
          /\ users' = [m \in DOMAIN users' |-> users'[m]]
          /\ users'[n] = Account(admin, p, FALSE)
          /\ \A m \in DOMAIN users : users'[m] = users[m]
      BY <2>3, <3>1
    <3>6. users'[n] \in Accountable /\ users'[n].pw = p
      <4>1. FALSE \in BOOLEAN /\ p \in Passwords \cup {Weak}
        OBVIOUS
      <4>2. Account(admin, p, FALSE) \in Accountable /\ Account(admin, p, FALSE).pw = p
        BY <4>1, NewAccount
      <4> QED
        BY <3>2, <4>2
    <3>3. TableOk'
      BY <1>0, <2>1, <3>2, <3>6 DEF TableOk
    <3>4. RequestsOk'
      BY <1>0, <2>1, <3>1, <3>2, <3>6 DEF RequestsOk
    <3>5. AdminRemains'
      BY <1>0, <2>1, <3>1, <3>2, <3>6 DEF AdminRemains
    <3> QED
      BY <3>3, <3>4, <3>5 DEF AccountsOk
  <2> QED
    BY <2>2, <2>3
<1>6. ASSUME NEW b \in Browsers, NEW n \in Names, toggle_user(b, n) PROVE AccountsOk'
  <2>1. /\ request' = [request EXCEPT ![b] = NoRequest] /\ UNCHANGED <<session, chose>>
        /\ request[b].kind = "toggle"
    BY <1>6 DEF toggle_user, Handled
  <2>2. CASE n \notin DOMAIN users \/ n = request[b].by
    <3>1. UNCHANGED <<users, crossed>>
      BY <1>6, <2>2 DEF toggle_user
    <3>2. RequestsOk'
      BY <1>0, <2>1, <3>1 DEF RequestsOk
    <3> QED
      BY <2>1, <3>1, <3>2, SameTable
  <2>3. CASE n \in DOMAIN users /\ n # request[b].by
    <3> DEFINE a == request[b].by
    <3>1. /\ users' = [users EXCEPT ![n].active = ~@]
          /\ crossed' = (crossed \/ ~users[a].active)
      BY <1>6, <2>3 DEF toggle_user
    <3>2. a \in DOMAIN users /\ users[a].admin /\ a # n
      BY <1>0, <2>1, <2>3 DEF RequestsOk, NoRequest
    <3> HIDE DEF a
    <3>3. /\ DOMAIN users' = DOMAIN users
          /\ users' = [m \in DOMAIN users' |-> users'[m]]
          /\ \A m \in DOMAIN users : m # n => users'[m] = users[m]
          /\ users'[n] = [users[n] EXCEPT !.active = ~@]
      BY <1>0, <2>3, <3>1 DEF TableOk
    <3>4. /\ users'[n] \in Accountable
          /\ users'[n].admin = users[n].admin /\ users'[n].pw = users[n].pw /\ users'[n].must = users[n].must
      BY <1>0, <2>3, <3>3 DEF TableOk, Accountable
    <3>5. TableOk'
      <4>1. crossed' \in BOOLEAN
        BY <3>1
      <4> QED
        BY <1>0, <3>2, <3>3, <3>4, <4>1 DEF TableOk
    <3>6. RequestsOk'
      <4>1. \A m \in DOMAIN users : users'[m].admin = users[m].admin /\ users'[m].pw = users[m].pw
        BY <3>3, <3>4
      <4>2. DOMAIN users' = DOMAIN users /\ chose' = chose
        BY <2>1, <3>3
      <4>3. /\ DOMAIN request = Browsers /\ DOMAIN request' = Browsers
            /\ session' \in [Browsers -> DOMAIN users' \cup {NoName}]
        BY <1>0, <2>1, <4>2 DEF RequestsOk
      <4>4. ASSUME NEW c \in Browsers, request'[c] # NoRequest
            PROVE  request[c] # NoRequest /\ request'[c] = request[c]
        <5>1. request'[c] = IF c = b THEN NoRequest ELSE request[c]
          BY <2>1, <4>3
        <5> QED
          BY <4>4, <5>1
      <4>5. ASSUME NEW c \in Browsers, request'[c] # NoRequest
            PROVE  /\ request'[c].by \in DOMAIN users'
                   /\ request'[c].kind = "toggle" => users'[request'[c].by].admin
                   /\ users'[request'[c].by].pw = Weak /\ request'[c].pw # Weak
                         => request'[c].by \in chose'
        <5>1. /\ request[c].by \in DOMAIN users
              /\ request[c].kind = "toggle" => users[request[c].by].admin
              /\ users[request[c].by].pw = Weak /\ request[c].pw # Weak => request[c].by \in chose
          BY <1>0, <4>4, <4>5 DEF RequestsOk
        <5>2. request'[c] = request[c]
          BY <4>4, <4>5
        <5> QED
          BY <4>1, <4>2, <5>1, <5>2
      <4> QED
        BY <4>3, <4>5 DEF RequestsOk
    <3>7. crossed' \/ \E m \in DOMAIN users' : users'[m].admin /\ users'[m].active
      <4>1. CASE users[a].active
        <5>1. users'[a] = users[a] /\ a \in DOMAIN users'
          BY <3>2, <3>3
        <5> QED
          BY <3>2, <4>1, <5>1
      <4>2. CASE ~users[a].active
        BY <3>1, <4>2
      <4> QED
        BY <4>1, <4>2
    <3>8. AdminRemains'
      BY <1>0, <2>1, <3>3, <3>4, <3>7 DEF AdminRemains
    <3> QED
      BY <3>5, <3>6, <3>8 DEF AccountsOk
  <2> QED
    BY <2>2, <2>3
<1>7. ASSUME NEW b \in Browsers, NEW old \in Passwords, NEW new \in Passwords,
             change_password_submit(b, old, new)
      PROVE  AccountsOk'
  <2>1. /\ request' = [request EXCEPT ![b] = NoRequest] /\ UNCHANGED <<session, crossed>>
        /\ request[b].kind = "password"
    BY <1>7 DEF change_password_submit, Handled
  <2>2. CASE ~(old = request[b].pw /\ new \notin Short /\ new # request[b].pw)
    <3>1. UNCHANGED <<users, chose>>
      BY <1>7, <2>2 DEF change_password_submit
    <3>2. RequestsOk'
      BY <1>0, <2>1, <3>1 DEF RequestsOk
    <3> QED
      BY <2>1, <3>1, <3>2, SameTable
  <2>3. CASE old = request[b].pw /\ new \notin Short /\ new # request[b].pw
    <3> DEFINE a == request[b].by
    <3>1. /\ users' = [users EXCEPT ![a].pw = new, ![a].must = FALSE]
          /\ chose' = IF new = Weak /\ users[a].pw # Weak THEN chose \cup {a} ELSE chose
      BY <1>7, <2>3 DEF change_password_submit, ChangesTo
    <3>2. /\ a \in DOMAIN users
          /\ users[a].pw = Weak /\ request[b].pw # Weak => a \in chose
      BY <1>0, <2>1 DEF RequestsOk, NoRequest
    <3>3. new = Weak => a \in chose'
      BY <2>3, <3>1, <3>2
    <3> HIDE DEF a
    <3>4. /\ DOMAIN users' = DOMAIN users
          /\ users' = [m \in DOMAIN users' |-> users'[m]]
          /\ \A m \in DOMAIN users : m # a => users'[m] = users[m]
      BY <1>0, <3>1, <3>2 DEF TableOk
    <3>5. /\ users'[a] \in Accountable
          /\ users'[a].admin = users[a].admin /\ users'[a].active = users[a].active
          /\ users'[a].pw = new
      BY <1>0, <3>1, <3>2 DEF TableOk, Accountable
    <3>6. chose \subseteq chose'
      BY <3>1
    <3>7. TableOk'
      BY <1>0, <2>1, <3>4, <3>5 DEF TableOk
    <3>8. RequestsOk'
      BY <1>0, <2>1, <3>3, <3>4, <3>5, <3>6 DEF RequestsOk
    <3>9. AdminRemains'
      BY <1>0, <2>1, <3>3, <3>4, <3>5, <3>6 DEF AdminRemains
    <3> QED
      BY <3>7, <3>8, <3>9 DEF AccountsOk
  <2> QED
    BY <2>2, <2>3
<1>8. CASE Restart
  <2>1. users' = Started(users) /\ request' = [b \in Browsers |-> NoRequest] /\ UNCHANGED <<session, chose, crossed>>
    BY <1>8 DEF Restart
  <2>2. users # << >>
    BY <1>0 DEF TableOk
  <2>3. /\ DOMAIN users' = DOMAIN users
        /\ users' = [n \in DOMAIN users' |-> users'[n]]
        /\ \A n \in DOMAIN users' :
              /\ users'[n] \in Accountable
              /\ users'[n].admin /\ users'[n].pw = Weak => users'[n].must
        /\ \A n \in DOMAIN users : users'[n].admin = users[n].admin /\ users'[n].active = users[n].active
    BY <1>0, <2>1, <2>2, StartFlags DEF TableOk
  <2>4. TableOk'
    BY <1>0, <2>1, <2>3 DEF TableOk
  <2>5. RequestsOk'
    BY <1>0, <2>1, <2>3 DEF RequestsOk
  <2>6. AdminRemains'
    BY <1>0, <2>1, <2>3 DEF AdminRemains
  <2> QED
    BY <2>4, <2>5, <2>6 DEF AccountsOk
<1> QED
  BY <1>1, <1>2, <1>3, <1>4, <1>5, <1>6, <1>7, <1>8 DEF AccountsNext

(* An active administrator remains, unless two requests crossed, and none  *)
(* is left unflagged on the password the hub was deployed with, through    *)
(* any requests, their delays and restarts.                                *)
THEOREM AdminStays == AccountsSpec => []AdminRemains
<1>1. AccountsInit => AccountsOk
  BY AccountsBegin
<1>2. AccountsOk /\ [AccountsNext]_accountsVars => AccountsOk'
  BY AccountsStep
<1>3. AccountsOk => AdminRemains
  BY DEF AccountsOk
<1> QED
  BY <1>1, <1>2, <1>3, PTL DEF AccountsSpec

-----------------------------------------------------------------------------
(***************************************************************************)
(* BasemapTiles, for any number of maps, any tiles at any zooms, any limit *)
(* on their number and any modes.                                          *)
(***************************************************************************)
(* A map's tiles are those of the zoom it tries, whatever these are. *)
SheetsOk ==
    /\ sheet = [m \in Maps |-> sheet[m]]
    /\ \A m \in Maps :
          /\ DOMAIN sheet[m] = {"mode", "at", "zoom", "tile"}
          /\ sheet[m].tile = [t \in DOMAIN sheet[m].tile |-> sheet[m].tile[t]]

DiskOk == disk = [p \in Tiles |-> disk[p]]

(* The writer of a torn tile that nothing spoiled is still at it: no map   *)
(* turns to another zoom before all its threads have ended.                *)
TornIsWritten == \A p \in Tiles : disk[p] = "torn" => p \in spoiled \/ \E m \in Maps : Writes(m, p)

BasemapOk == SheetsOk /\ DiskOk /\ TornIsWritten

-----------------------------------------------------------------------------
(* The fields of a sheet that takes up a zoom, or is done with one. *)
LEMMA Fields ==
    ASSUME NEW s, DOMAIN s = {"mode", "at", "zoom", "tile"}, NEW a, NEW z, NEW f,
           NEW t, \/ t = [s EXCEPT !.at = a, !.zoom = z, !.tile = f]
                  \/ t = [s EXCEPT !.at = a, !.tile = f] /\ z = s.zoom
    PROVE  DOMAIN t = {"mode", "at", "zoom", "tile"} /\ t.at = a /\ t.zoom = z /\ t.tile = f
OBVIOUS

(* At first nothing is drawn and nothing is cached. *)
LEMMA BasemapBegin == BasemapInit => BasemapOk
BY DEF BasemapInit, BasemapOk, SheetsOk, DiskOk, TornIsWritten, Blank

(* A map that was not writing anything, and what the disk does not feel. *)
LEMMA Unfelt ==
    ASSUME BasemapOk, NEW m \in Maps, NEW s, Becomes(m, s), UNCHANGED <<disk, spoiled>>,
           DOMAIN s = {"mode", "at", "zoom", "tile"},
           s.tile = [t \in DOMAIN s.tile |-> s.tile[t]],
           \A p \in Tiles : Writes(m, p) =>
               s.at = "loads" /\ s.zoom = p[1] /\ p[2] \in DOMAIN s.tile /\ s.tile[p[2]] \in {"writes", "writesJunk"}
    PROVE  BasemapOk'
<1>1. /\ sheet' = [sheet EXCEPT ![m] = s] /\ spoiled' = spoiled /\ disk' = disk
  BY DEF Becomes
<1>2. /\ sheet' = [n \in Maps |-> sheet'[n]] /\ sheet'[m] = s
      /\ \A n \in Maps : n # m => sheet'[n] = sheet[n]
  BY <1>1 DEF BasemapOk, SheetsOk
<1>3. SheetsOk'
  BY <1>2 DEF BasemapOk, SheetsOk
<1>4. DiskOk'
  BY <1>1 DEF BasemapOk, DiskOk
<1>5. ASSUME NEW p \in Tiles, NEW n \in Maps, Writes(n, p) PROVE Writes(n, p)'
  BY <1>2, <1>5 DEF Writes
<1>6. TornIsWritten'
  BY <1>1, <1>5 DEF BasemapOk, TornIsWritten
<1> QED
  BY <1>3, <1>4, <1>6 DEF BasemapOk

(* A map that was writing nothing ends, or takes up a zoom. *)
LEMMA Leaves ==
    ASSUME BasemapOk, NEW m \in Maps, NEW at, Becomes(m, Ended(at)), UNCHANGED <<disk, spoiled>>,
           \A p \in Tiles : ~Writes(m, p)
    PROVE  BasemapOk'
<1> DEFINE f == [t \in {} |-> "asks"]
           s == Ended(at)
<1>1. DOMAIN s = {"mode", "at", "zoom", "tile"} /\ s.tile = f
  BY DEF Ended, Blank
<1>2. f = [t \in DOMAIN f |-> f[t]]
  OBVIOUS
<1> HIDE DEF f, s
<1>3. s.tile = [t \in DOMAIN s.tile |-> s.tile[t]]
  BY <1>1, <1>2
<1>4. Becomes(m, s)
  BY DEF s
<1> QED
  BY <1>1, <1>3, <1>4, Unfelt

LEMMA Restarts ==
    ASSUME BasemapOk, NEW m \in Maps, NEW b, DOMAIN b = {"mode", "at", "zoom", "tile"}, NEW z,
           Becomes(m, Tries(b, z)), UNCHANGED <<disk, spoiled>>, \A p \in Tiles : ~Writes(m, p)
    PROVE  BasemapOk'
<1> DEFINE f == [t \in TilesAt[z] |-> IF Refused(z) THEN "failed" ELSE "asks"]
           s == Tries(b, z)
<1>1. s = [b EXCEPT !.at = "loads", !.zoom = z, !.tile = f]
  BY DEF Tries
<1>2. f = [t \in DOMAIN f |-> f[t]]
  OBVIOUS
<1> HIDE DEF f, s
<1>3. Becomes(m, s)
  BY DEF s
<1>4. DOMAIN s = {"mode", "at", "zoom", "tile"} /\ s.tile = f
  <2>1. DOMAIN b = {"mode", "at", "zoom", "tile"}
    OBVIOUS
  <2> QED
    BY <1>1, <2>1, Fields, Zenon
<1>5. s.tile = [t \in DOMAIN s.tile |-> s.tile[t]]
  BY <1>2, <1>4
<1> QED
  BY <1>3, <1>4, <1>5, Unfelt

(* A tile's thread takes its next step; the file may be cut or filled. *)
LEMMA TileMoves ==
    ASSUME BasemapOk, NEW m \in Maps, NEW t \in DOMAIN sheet[m].tile, NEW state, sheet[m].at = "loads",
           TileIs(m, t, state), NEW q, q = <<sheet[m].zoom, t>>,
           \/ UNCHANGED <<disk, spoiled>> /\ sheet[m].tile[t] \notin {"writes", "writesJunk"}
           \/ /\ disk' = [disk EXCEPT ![q] = "torn"] /\ spoiled' = spoiled
              /\ state \in {"writes", "writesJunk"}
           \/ disk' = [disk EXCEPT ![q] = "whole"] /\ spoiled' = spoiled \ {q}
           \/ /\ disk' = disk \/ disk' = [disk EXCEPT ![q] = "torn"]
              /\ spoiled' = spoiled \cup {q}
    PROVE  BasemapOk'
<1>1. /\ sheet' = [sheet EXCEPT ![m] = [sheet[m] EXCEPT !.tile[t] = state]]
  BY DEF TileIs, Becomes
<1>2. /\ sheet' = [n \in Maps |-> sheet'[n]] /\ sheet'[m] = [sheet[m] EXCEPT !.tile[t] = state]
      /\ \A n \in Maps : n # m => sheet'[n] = sheet[n]
  BY <1>1 DEF BasemapOk, SheetsOk
<1>3. /\ DOMAIN sheet'[m] = {"mode", "at", "zoom", "tile"}
      /\ sheet'[m].at = "loads" /\ sheet'[m].zoom = sheet[m].zoom
      /\ sheet'[m].tile = [sheet[m].tile EXCEPT ![t] = state]
  BY <1>2 DEF BasemapOk, SheetsOk
<1>4. /\ DOMAIN sheet'[m].tile = DOMAIN sheet[m].tile
      /\ sheet'[m].tile = [u \in DOMAIN sheet[m].tile |-> sheet'[m].tile[u]]
      /\ sheet'[m].tile[t] = state
      /\ \A u \in DOMAIN sheet[m].tile : u # t => sheet'[m].tile[u] = sheet[m].tile[u]
  BY <1>3 DEF BasemapOk, SheetsOk
<1>5. SheetsOk'
  BY <1>2, <1>3, <1>4 DEF BasemapOk, SheetsOk
<1>6. DiskOk'
  BY <1>1 DEF BasemapOk, DiskOk
<1>7. \A p \in Tiles : p # q => disk'[p] = disk[p] /\ (p \in spoiled => p \in spoiled')
  BY DEF BasemapOk, DiskOk
<1>8. ASSUME NEW p \in Tiles, disk'[p] = "torn", p \notin spoiled' PROVE \E n \in Maps : Writes(n, p)'
  <2>0. p = <<p[1], p[2]>>
    BY DEF Tiles
  <2>1. CASE p = q /\ ~UNCHANGED <<disk, spoiled>>
    <3>1. p # q \/ ~(disk' = [disk EXCEPT ![q] = "whole"])
      BY <1>8 DEF BasemapOk, DiskOk
    <3>2. state \in {"writes", "writesJunk"}
      BY <1>8, <2>1, <3>1
    <3>3. p[1] = sheet[m].zoom /\ p[2] = t
      BY <2>1
    <3>4. Writes(m, p)'
      BY <1>3, <1>4, <3>2, <3>3 DEF Writes
    <3> QED
      BY <3>4
  <2>2. CASE p # q \/ UNCHANGED <<disk, spoiled>>
    <3>1. disk[p] = "torn" /\ p \notin spoiled
      BY <1>7, <1>8, <2>2
    <3>2. PICK n \in Maps : Writes(n, p)
      BY <3>1 DEF BasemapOk, TornIsWritten
    <3>3. CASE n # m
      <4>1. Writes(n, p)'
        BY <1>2, <3>2, <3>3 DEF Writes
      <4> QED
        BY <4>1
    <3>4. CASE n = m
      <4>1. p[1] = sheet[m].zoom /\ p[2] \in DOMAIN sheet[m].tile
            /\ sheet[m].tile[p[2]] \in {"writes", "writesJunk"}
        BY <3>2, <3>4 DEF Writes
      <4>2. p[2] = t => p = q
        BY <2>0, <4>1
      <4>3. p[2] = t => state \in {"writes", "writesJunk"}
        <5> SUFFICES ASSUME p = q PROVE state \in {"writes", "writesJunk"}
          BY <4>2
        <5>1. UNCHANGED <<disk, spoiled>> /\ sheet[m].tile[t] \in {"writes", "writesJunk"}
          BY <2>2, <4>1
        <5>2. q \notin spoiled' /\ disk'[q] = "torn" /\ q \in Tiles
          BY <1>8
        <5>3. disk' # [disk EXCEPT ![q] = "whole"]
          BY <5>2 DEF BasemapOk, DiskOk
        <5>4. ~(spoiled' = spoiled \cup {q})
          BY <5>2
        <5> QED
          BY <5>1, <5>3, <5>4
      <4>4. Writes(m, p)'
        BY <1>3, <1>4, <4>1, <4>3 DEF Writes
      <4> QED
        BY <4>4
    <3> QED
      BY <3>3, <3>4
  <2> QED
    BY <2>1, <2>2
<1>9. TornIsWritten'
  BY <1>8 DEF TornIsWritten
<1> QED
  BY <1>5, <1>6, <1>9 DEF BasemapOk

(* Every step. *)
LEMMA BasemapStep ==
    ASSUME BasemapOk, [BasemapNext]_basemapVars
    PROVE  BasemapOk'
<1>1. CASE UNCHANGED basemapVars
  BY <1>1 DEF BasemapOk, SheetsOk, DiskOk, TornIsWritten, Writes, basemapVars
<1>2. CASE Crash
  <2>1. /\ spoiled' = spoiled \cup {p \in Tiles : \E m \in Maps : Writes(m, p)}
        /\ sheet' = [m \in Maps |-> Blank] /\ disk' = disk
    BY <1>2 DEF Crash
  <2>2. \A p \in Tiles : disk'[p] = "torn" => p \in spoiled'
    BY <2>1 DEF BasemapOk, TornIsWritten
  <2> QED
    BY <2>1, <2>2 DEF BasemapOk, SheetsOk, DiskOk, TornIsWritten, Blank
<1>3. ASSUME NEW m \in Maps, NEW mode, NEW zoom, BeginsMap(m, mode, zoom) PROVE BasemapOk'
  <2> DEFINE b == [Blank EXCEPT !.mode = mode]
  <2>1. \A p \in Tiles : ~Writes(m, p)
    BY <1>3 DEF BeginsMap, Writes
  <2>2. DOMAIN b = {"mode", "at", "zoom", "tile"} /\ UNCHANGED <<disk, spoiled>>
    BY <1>3 DEF BeginsMap, Blank
  <2>3. Becomes(m, Ended("plain")) \/ \E z : Becomes(m, Tries(b, z))
    BY <1>3 DEF BeginsMap
  <2> HIDE DEF b
  <2> QED
    BY <2>1, <2>2, <2>3, Restarts, Leaves
<1>4. ASSUME NEW m \in Maps, NEW t \in DOMAIN sheet[m].tile, AsksCache(m, t) \/ Fetches(m, t) PROVE BasemapOk'
  <2>1. /\ sheet[m].at = "loads" /\ UNCHANGED <<disk, spoiled>>
        /\ sheet[m].tile[t] \notin {"writes", "writesJunk"}
    BY <1>4 DEF AsksCache, Fetches
  <2>2. PICK state : TileIs(m, t, state)
    BY <1>4 DEF AsksCache, Fetches
  <2> QED
    BY <2>1, <2>2, TileMoves
<1>5. ASSUME NEW m \in Maps, NEW t \in DOMAIN sheet[m].tile, CutsFile(m, t) PROVE BasemapOk'
  <2>1. /\ sheet[m].at = "loads" /\ spoiled' = spoiled
        /\ disk' = [disk EXCEPT ![<<sheet[m].zoom, t>>] = "torn"]
    BY <1>5 DEF CutsFile
  <2>2. \E state \in {"writes", "writesJunk"} : TileIs(m, t, state)
    BY <1>5 DEF CutsFile
  <2> QED
    BY <2>1, <2>2, TileMoves
<1>6. ASSUME NEW m \in Maps, NEW t \in DOMAIN sheet[m].tile, FillsFile(m, t) \/ WriteFails(m, t) PROVE BasemapOk'
  <2> DEFINE q == <<sheet[m].zoom, t>>
  <2>1. CASE FillsFile(m, t)
    <3>1. /\ sheet[m].at = "loads"
          /\ \/ TileIs(m, t, "got") /\ disk' = [disk EXCEPT ![q] = "whole"] /\ spoiled' = spoiled \ {q}
             \/ TileIs(m, t, "failed") /\ disk' = [disk EXCEPT ![q] = "torn"] /\ spoiled' = spoiled \cup {q}
      BY <2>1 DEF FillsFile
    <3> QED
      BY <3>1, TileMoves
  <2>2. CASE WriteFails(m, t)
    <3>1. /\ sheet[m].at = "loads" /\ TileIs(m, t, "failed") /\ disk' = disk
          /\ \/ spoiled' = spoiled /\ sheet[m].tile[t] \notin {"writes", "writesJunk"}
             \/ spoiled' = spoiled \cup {q}
      BY <2>2 DEF WriteFails
    <3> QED
      BY <3>1, TileMoves
  <2> QED
    BY <1>6, <2>1, <2>2
<1>7. ASSUME NEW m \in Maps, TilesAreIn(sheet[m]) PROVE \A p \in Tiles : ~Writes(m, p)
  BY <1>7 DEF TilesAreIn, Writes
<1>8. ASSUME NEW m \in Maps, Stitches(m) PROVE BasemapOk'
  <2>1. Becomes(m, Ended("layer")) /\ UNCHANGED <<disk, spoiled>> /\ \A p \in Tiles : ~Writes(m, p)
    BY <1>7, <1>8 DEF Stitches
  <2> QED
    BY <2>1, Leaves
<1>9. ASSUME NEW m \in Maps, FallsBack(m) PROVE BasemapOk'
  <2>1. UNCHANGED <<disk, spoiled>> /\ \A p \in Tiles : ~Writes(m, p)
    BY <1>7, <1>9 DEF FallsBack
  <2>2. Becomes(m, Ended("plain")) \/ \E z : Becomes(m, Tries(sheet[m], z))
    BY <1>9 DEF FallsBack
  <2>3. DOMAIN sheet[m] = {"mode", "at", "zoom", "tile"}
    BY DEF BasemapOk, SheetsOk
  <2> QED
    BY <2>1, <2>2, <2>3, Restarts, Leaves
<1> QED
  BY <1>1, <1>2, <1>3, <1>4, <1>5, <1>6, <1>8, <1>9 DEF BasemapNext, Loads

(* Maps that share the tile cache without a lock, that fetch the same tile *)
(* at once or give a zoom up leave no half-written tile behind: one on     *)
(* disk has its writer, or its last write failed, brought no image or was  *)
(* cut short by a crash.                                                   *)
THEOREM NoTornTile == BasemapSpec => []TornTileHasACause
<1>1. BasemapInit => BasemapOk
  BY BasemapBegin
<1>2. BasemapOk /\ [BasemapNext]_basemapVars => BasemapOk'
  BY BasemapStep
<1>3. BasemapOk => TornTileHasACause
  BY DEF BasemapOk, TornIsWritten, Writes, TornTileHasACause
<1> QED
  BY <1>1, <1>2, <1>3, PTL DEF BasemapSpec

-----------------------------------------------------------------------------
(***************************************************************************)
(* JobForms.  What the registry's tables have in common: a key has one     *)
(* flag, a flag with a mount is text, and the default of a number is       *)
(* spelled as int() would.                                                 *)
(***************************************************************************)
FlagOk(flag) ==
    /\ flag.volume # "" => flag.type = "text"
    /\ flag.type = "number" => flag.default # "007"

IsEntry(flag, key, volume) == flag.key = key /\ flag.volume = volume /\ FlagOk(flag)

RegistryOk(flags, n) ==
    /\ DOMAIN flags = 1..n
    /\ \A i \in 1..n : FlagOk(flags[i])
    /\ \A i, j \in 1..n : flags[i].key = flags[j].key => i = j
    /\ \A i \in 1..n : flags[i].key \notin {"root_subpath", "dataset_profile", "dst_subpath"}

LEMMA FieldIs ==
    ASSUME NEW k, NEW t, NEW d, d # "007"
    PROVE  IsEntry(Forms!Field(k, t, d), k, "")
BY Zenon DEF Forms!Field, FlagOk, IsEntry

LEMMA VolumeIs ==
    ASSUME NEW k, NEW d
    PROVE  IsEntry(Forms!Volume(k, d), k, d)
<1>1. "text" # "number"
  BY Zenon
<1> QED
  BY <1>1, Zenon DEF Forms!Volume, FlagOk, IsEntry

LEMMA JoinedAre ==
    ASSUME NEW s, NEW t, NEW m \in Nat, NEW n \in Nat, s = [i \in 1..m |-> s[i]], t = [i \in 1..n |-> t[i]]
    PROVE  /\ DOMAIN (s \o t) = 1..(m + n)
           /\ \A i \in 1..m : (s \o t)[i] = s[i]
           /\ \A i \in (m + 1)..(m + n) : (s \o t)[i] = t[i - m]
<1> DEFINE S == {s[i] : i \in 1..m} \cup {t[i] : i \in 1..n}
<1>1. s \in [1..m -> S] /\ t \in [1..n -> S]
  <2>1. \A i \in 1..m : s[i] \in S
    BY Zenon
  <2>2. \A i \in 1..n : t[i] \in S
    BY Zenon
  <2> HIDE DEF S
  <2> QED
    BY <2>1, <2>2
<1>2. s \in Seq(S) /\ t \in Seq(S)
  BY <1>1, SeqDef
<1>3. Len(s) = m /\ Len(t) = n
  BY <1>1, <1>2, LenProperties
<1> HIDE DEF S
<1> QED
  BY <1>2, <1>3

(* The three tables of the registry. *)
LEMMA TecTable ==
    LET flags == Forms!Flags["tec"]
    IN  /\ RegistryOk(flags, 5)
        /\ flags[1].key = "root" /\ flags[1].volume = "/data/rinex"
        /\ \A i \in {2, 3, 4, 5} : flags[i].volume = ""
<1> DEFINE flags == Forms!TecSuite
<1>1. Forms!Flags["tec"] = flags
  BY Zenon DEF Forms!Flags
<1>2. DOMAIN flags = 1..5
  BY DEF Forms!TecSuite
<1>3. /\ flags[1] = Forms!Volume("root", "/data/rinex") /\ flags[2] = Forms!Field("jobs", "number", "1")
      /\ flags[3] = Forms!Field("days", "text", "")
      /\ flags[4] = Forms!Field("verbose", "checkbox", "False")
      /\ flags[5] = Forms!Field("cleanup", "checkbox", "True")
  BY DEF Forms!TecSuite
<1> HIDE DEF flags
<1>4. /\ IsEntry(flags[1], "root", "/data/rinex") /\ IsEntry(flags[2], "jobs", "")
      /\ IsEntry(flags[3], "days", "") /\ IsEntry(flags[4], "verbose", "")
      /\ IsEntry(flags[5], "cleanup", "")
  BY <1>3, FieldIs, VolumeIs, Zenon
<1>5. /\ flags[1].key = "root" /\ flags[2].key = "jobs" /\ flags[3].key = "days"
      /\ flags[4].key = "verbose" /\ flags[5].key = "cleanup"
  BY <1>4, Zenon DEF IsEntry
<1>6. /\ FlagOk(flags[1]) /\ FlagOk(flags[2]) /\ FlagOk(flags[3]) /\ FlagOk(flags[4]) /\ FlagOk(flags[5])
  BY <1>4, Zenon DEF IsEntry
<1>7. /\ flags[1].volume = "/data/rinex"
  BY <1>4, Zenon DEF IsEntry
<1>8. /\ flags[2].volume = "" /\ flags[3].volume = "" /\ flags[4].volume = "" /\ flags[5].volume = ""
  BY <1>4, Zenon DEF IsEntry
<1>9. \A i, j \in 1..5 : flags[i].key = flags[j].key => i = j
  BY <1>5
<1>10. \A i \in 1..5 : FlagOk(flags[i])
  BY <1>6
<1>11. \A i \in {2, 3, 4, 5} : flags[i].volume = ""
  BY <1>8
<1>12. \A i \in 1..5 : flags[i].key \notin {"root_subpath", "dataset_profile", "dst_subpath"}
  BY <1>5
<1>13. RegistryOk(flags, 5)
  BY <1>2, <1>9, <1>10, <1>12 DEF RegistryOk
<1>14. /\ flags[1].key = "root"
  BY <1>5, Zenon
<1> QED
  BY <1>1, <1>7, <1>11, <1>13, <1>14, Zenon

LEMMA ParquetTable ==
    LET flags == Forms!Flags["parquet"]
    IN  /\ RegistryOk(flags, 6)
        /\ flags[2].key = "src" /\ flags[2].volume = "/input"
        /\ flags[3].key = "dst" /\ flags[3].volume = "/output"
        /\ \A i \in {1, 4, 5, 6} : flags[i].volume = ""
<1> DEFINE flags == Forms!DatParquet
<1>1. Forms!Flags["parquet"] = flags
  BY Zenon DEF Forms!Flags
<1>2. DOMAIN flags = 1..6
  BY DEF Forms!DatParquet
<1>3. /\ flags[1] = Forms!Field("direction", "select", "dat-to-parquet")
      /\ flags[2] = Forms!Volume("src", "/input") /\ flags[3] = Forms!Volume("dst", "/output")
      /\ flags[4] = Forms!Field("overwrite", "checkbox", "False")
      /\ flags[5] = Forms!Field("day_from", "number", "")
      /\ flags[6] = Forms!Field("day_to", "number", "")
  BY DEF Forms!DatParquet
<1> HIDE DEF flags
<1>4. /\ IsEntry(flags[1], "direction", "") /\ IsEntry(flags[2], "src", "/input")
      /\ IsEntry(flags[3], "dst", "/output") /\ IsEntry(flags[4], "overwrite", "")
      /\ IsEntry(flags[5], "day_from", "") /\ IsEntry(flags[6], "day_to", "")
  BY <1>3, FieldIs, VolumeIs, Zenon
<1>5. /\ flags[1].key = "direction" /\ flags[2].key = "src" /\ flags[3].key = "dst"
      /\ flags[4].key = "overwrite" /\ flags[5].key = "day_from" /\ flags[6].key = "day_to"
  BY <1>4, Zenon DEF IsEntry
<1>6. /\ FlagOk(flags[1]) /\ FlagOk(flags[2]) /\ FlagOk(flags[3]) /\ FlagOk(flags[4]) /\ FlagOk(flags[5])
      /\ FlagOk(flags[6])
  BY <1>4, Zenon DEF IsEntry
<1>7. /\ flags[2].volume = "/input" /\ flags[3].volume = "/output"
  BY <1>4, Zenon DEF IsEntry
<1>8. /\ flags[1].volume = "" /\ flags[4].volume = "" /\ flags[5].volume = "" /\ flags[6].volume = ""
  BY <1>4, Zenon DEF IsEntry
<1>9. \A i, j \in 1..6 : flags[i].key = flags[j].key => i = j
  BY <1>5
<1>10. \A i \in 1..6 : FlagOk(flags[i])
  BY <1>6
<1>11. \A i \in {1, 4, 5, 6} : flags[i].volume = ""
  BY <1>8
<1>12. \A i \in 1..6 : flags[i].key \notin {"root_subpath", "dataset_profile", "dst_subpath"}
  BY <1>5
<1>13. RegistryOk(flags, 6)
  BY <1>2, <1>9, <1>10, <1>12 DEF RegistryOk
<1>14. /\ flags[2].key = "src" /\ flags[3].key = "dst"
  BY <1>5, Zenon
<1> QED
  BY <1>1, <1>7, <1>11, <1>13, <1>14, Zenon

LEMMA AbstecTable ==
    LET flags == Forms!Flags["abstec"]
    IN  /\ RegistryOk(flags, 18)
        /\ flags[1].key = "dat_path" /\ flags[1].volume = "/data/in"
        /\ flags[2].key = "output_dir" /\ flags[2].volume = "/data/out"
        /\ \A i \in {3, 4, 5, 6, 7, 8, 9, 10, 11, 12, 13, 14, 15, 16, 17, 18} : flags[i].volume = ""
<1> DEFINE flags == Forms!AbstecInput \o Forms!AbstecExecution
<1>1. Forms!Flags["abstec"] = flags
  BY Zenon DEF Forms!Flags
<1>2. /\ DOMAIN flags = 1..18
      /\ \A i \in 1..10 : flags[i] = Forms!AbstecInput[i]
      /\ \A i \in 11..18 : flags[i] = Forms!AbstecExecution[i - 10]
  <2>1. Forms!AbstecInput = [i \in 1..10 |-> Forms!AbstecInput[i]]
    BY DEF Forms!AbstecInput
  <2>2. Forms!AbstecExecution = [i \in 1..8 |-> Forms!AbstecExecution[i]]
    BY DEF Forms!AbstecExecution
  <2> QED
    BY <2>1, <2>2, JoinedAre
<1>3. /\ flags[1] = Forms!Volume("dat_path", "/data/in")
      /\ flags[2] = Forms!Volume("output_dir", "/data/out")
      /\ flags[3] = Forms!Field("workdir", "text", "/data/workdir")
      /\ flags[4] = Forms!Field("year", "text", "") /\ flags[5] = Forms!Field("day_of_year", "text", "")
      /\ flags[6] = Forms!Field("days", "text", "") /\ flags[7] = Forms!Field("site", "text", "")
      /\ flags[8] = Forms!Field("elevation_cutoff", "number", "10")
      /\ flags[9] = Forms!Field("time_step_hours", "text", "0.5")
      /\ flags[10] = Forms!Field("correction_coefficient", "text", "0.97")
      /\ flags[11] = Forms!Field("runner", "select", "auto")
      /\ flags[12] = Forms!Field("execution_timeout_seconds", "number", "")
      /\ flags[13] = Forms!Field("jobs", "number", "1")
      /\ flags[14] = Forms!Field("skip_existing", "checkbox", "False")
      /\ flags[15] = Forms!Field("clean_input", "checkbox", "False")
      /\ flags[16] = Forms!Field("max_consecutive_failures", "number", "25")
      /\ flags[17] = Forms!Field("min_data_rows", "number", "0")
      /\ flags[18] = Forms!Field("dry_run", "checkbox", "False")
  <2> HIDE DEF flags
  <2>1. /\ Forms!AbstecInput[1] = Forms!Volume("dat_path", "/data/in")
        /\ Forms!AbstecInput[2] = Forms!Volume("output_dir", "/data/out")
        /\ Forms!AbstecInput[3] = Forms!Field("workdir", "text", "/data/workdir")
        /\ Forms!AbstecInput[4] = Forms!Field("year", "text", "")
        /\ Forms!AbstecInput[5] = Forms!Field("day_of_year", "text", "")
        /\ Forms!AbstecInput[6] = Forms!Field("days", "text", "")
        /\ Forms!AbstecInput[7] = Forms!Field("site", "text", "")
        /\ Forms!AbstecInput[8] = Forms!Field("elevation_cutoff", "number", "10")
        /\ Forms!AbstecInput[9] = Forms!Field("time_step_hours", "text", "0.5")
        /\ Forms!AbstecInput[10] = Forms!Field("correction_coefficient", "text", "0.97")
    BY DEF Forms!AbstecInput
  <2>2. /\ Forms!AbstecExecution[1] = Forms!Field("runner", "select", "auto")
        /\ Forms!AbstecExecution[2] = Forms!Field("execution_timeout_seconds", "number", "")
        /\ Forms!AbstecExecution[3] = Forms!Field("jobs", "number", "1")
        /\ Forms!AbstecExecution[4] = Forms!Field("skip_existing", "checkbox", "False")
        /\ Forms!AbstecExecution[5] = Forms!Field("clean_input", "checkbox", "False")
        /\ Forms!AbstecExecution[6] = Forms!Field("max_consecutive_failures", "number", "25")
        /\ Forms!AbstecExecution[7] = Forms!Field("min_data_rows", "number", "0")
        /\ Forms!AbstecExecution[8] = Forms!Field("dry_run", "checkbox", "False")
    BY DEF Forms!AbstecExecution
  <2>3. /\ flags[1] = Forms!AbstecInput[1] /\ flags[2] = Forms!AbstecInput[2]
        /\ flags[3] = Forms!AbstecInput[3] /\ flags[4] = Forms!AbstecInput[4]
        /\ flags[5] = Forms!AbstecInput[5] /\ flags[6] = Forms!AbstecInput[6]
        /\ flags[7] = Forms!AbstecInput[7] /\ flags[8] = Forms!AbstecInput[8]
        /\ flags[9] = Forms!AbstecInput[9] /\ flags[10] = Forms!AbstecInput[10]
        /\ flags[11] = Forms!AbstecExecution[1] /\ flags[12] = Forms!AbstecExecution[2]
        /\ flags[13] = Forms!AbstecExecution[3] /\ flags[14] = Forms!AbstecExecution[4]
        /\ flags[15] = Forms!AbstecExecution[5] /\ flags[16] = Forms!AbstecExecution[6]
        /\ flags[17] = Forms!AbstecExecution[7] /\ flags[18] = Forms!AbstecExecution[8]
    BY <1>2
  <2> QED
    BY <2>1, <2>2, <2>3, Zenon
<1> HIDE DEF flags
<1>4. /\ IsEntry(flags[1], "dat_path", "/data/in") /\ IsEntry(flags[2], "output_dir", "/data/out")
      /\ IsEntry(flags[3], "workdir", "") /\ IsEntry(flags[4], "year", "")
      /\ IsEntry(flags[5], "day_of_year", "") /\ IsEntry(flags[6], "days", "")
      /\ IsEntry(flags[7], "site", "") /\ IsEntry(flags[8], "elevation_cutoff", "")
      /\ IsEntry(flags[9], "time_step_hours", "") /\ IsEntry(flags[10], "correction_coefficient", "")
      /\ IsEntry(flags[11], "runner", "") /\ IsEntry(flags[12], "execution_timeout_seconds", "")
      /\ IsEntry(flags[13], "jobs", "") /\ IsEntry(flags[14], "skip_existing", "")
      /\ IsEntry(flags[15], "clean_input", "") /\ IsEntry(flags[16], "max_consecutive_failures", "")
      /\ IsEntry(flags[17], "min_data_rows", "") /\ IsEntry(flags[18], "dry_run", "")
  <2>1. /\ IsEntry(flags[1], "dat_path", "/data/in")
        /\ IsEntry(flags[2], "output_dir", "/data/out")
        /\ IsEntry(flags[3], "workdir", "")
    <3>1. /\ flags[1] = Forms!Volume("dat_path", "/data/in")
          /\ flags[2] = Forms!Volume("output_dir", "/data/out")
          /\ flags[3] = Forms!Field("workdir", "text", "/data/workdir")
      BY <1>3, Zenon
    <3> QED
      BY <3>1, FieldIs, VolumeIs, Zenon
  <2>2. /\ IsEntry(flags[4], "year", "")
        /\ IsEntry(flags[5], "day_of_year", "")
        /\ IsEntry(flags[6], "days", "")
    <3>1. /\ flags[4] = Forms!Field("year", "text", "")
          /\ flags[5] = Forms!Field("day_of_year", "text", "")
          /\ flags[6] = Forms!Field("days", "text", "")
      BY <1>3, Zenon
    <3> QED
      BY <3>1, FieldIs, VolumeIs, Zenon
  <2>3. /\ IsEntry(flags[7], "site", "")
        /\ IsEntry(flags[8], "elevation_cutoff", "")
        /\ IsEntry(flags[9], "time_step_hours", "")
    <3>1. /\ flags[7] = Forms!Field("site", "text", "")
          /\ flags[8] = Forms!Field("elevation_cutoff", "number", "10")
          /\ flags[9] = Forms!Field("time_step_hours", "text", "0.5")
      BY <1>3, Zenon
    <3> QED
      BY <3>1, FieldIs, VolumeIs, Zenon
  <2>4. /\ IsEntry(flags[10], "correction_coefficient", "")
        /\ IsEntry(flags[11], "runner", "")
        /\ IsEntry(flags[12], "execution_timeout_seconds", "")
    <3>1. /\ flags[10] = Forms!Field("correction_coefficient", "text", "0.97")
          /\ flags[11] = Forms!Field("runner", "select", "auto")
          /\ flags[12] = Forms!Field("execution_timeout_seconds", "number", "")
      BY <1>3, Zenon
    <3> QED
      BY <3>1, FieldIs, VolumeIs, Zenon
  <2>5. /\ IsEntry(flags[13], "jobs", "")
        /\ IsEntry(flags[14], "skip_existing", "")
        /\ IsEntry(flags[15], "clean_input", "")
    <3>1. /\ flags[13] = Forms!Field("jobs", "number", "1")
          /\ flags[14] = Forms!Field("skip_existing", "checkbox", "False")
          /\ flags[15] = Forms!Field("clean_input", "checkbox", "False")
      BY <1>3, Zenon
    <3> QED
      BY <3>1, FieldIs, VolumeIs, Zenon
  <2>6. /\ IsEntry(flags[16], "max_consecutive_failures", "")
        /\ IsEntry(flags[17], "min_data_rows", "")
        /\ IsEntry(flags[18], "dry_run", "")
    <3>1. /\ flags[16] = Forms!Field("max_consecutive_failures", "number", "25")
          /\ flags[17] = Forms!Field("min_data_rows", "number", "0")
          /\ flags[18] = Forms!Field("dry_run", "checkbox", "False")
      BY <1>3, Zenon
    <3> QED
      BY <3>1, FieldIs, VolumeIs, Zenon
  <2> QED
    BY <2>1, <2>2, <2>3, <2>4, <2>5, <2>6
<1>5. /\ flags[1].key = "dat_path" /\ flags[2].key = "output_dir" /\ flags[3].key = "workdir"
      /\ flags[4].key = "year" /\ flags[5].key = "day_of_year" /\ flags[6].key = "days"
      /\ flags[7].key = "site" /\ flags[8].key = "elevation_cutoff" /\ flags[9].key = "time_step_hours"
      /\ flags[10].key = "correction_coefficient" /\ flags[11].key = "runner"
      /\ flags[12].key = "execution_timeout_seconds" /\ flags[13].key = "jobs"
      /\ flags[14].key = "skip_existing" /\ flags[15].key = "clean_input"
      /\ flags[16].key = "max_consecutive_failures" /\ flags[17].key = "min_data_rows"
      /\ flags[18].key = "dry_run"
  BY <1>4, Zenon DEF IsEntry
<1>6. /\ FlagOk(flags[1]) /\ FlagOk(flags[2]) /\ FlagOk(flags[3]) /\ FlagOk(flags[4]) /\ FlagOk(flags[5])
      /\ FlagOk(flags[6]) /\ FlagOk(flags[7]) /\ FlagOk(flags[8]) /\ FlagOk(flags[9]) /\ FlagOk(flags[10])
      /\ FlagOk(flags[11]) /\ FlagOk(flags[12]) /\ FlagOk(flags[13]) /\ FlagOk(flags[14])
      /\ FlagOk(flags[15]) /\ FlagOk(flags[16]) /\ FlagOk(flags[17]) /\ FlagOk(flags[18])
  BY <1>4, Zenon DEF IsEntry
<1>7. /\ flags[1].volume = "/data/in" /\ flags[2].volume = "/data/out"
  BY <1>4, Zenon DEF IsEntry
<1>8. /\ flags[3].volume = "" /\ flags[4].volume = "" /\ flags[5].volume = "" /\ flags[6].volume = ""
      /\ flags[7].volume = "" /\ flags[8].volume = "" /\ flags[9].volume = "" /\ flags[10].volume = ""
      /\ flags[11].volume = "" /\ flags[12].volume = "" /\ flags[13].volume = "" /\ flags[14].volume = ""
      /\ flags[15].volume = "" /\ flags[16].volume = "" /\ flags[17].volume = "" /\ flags[18].volume = ""
  BY <1>4, Zenon DEF IsEntry
<1>9. \A i, j \in 1..18 : flags[i].key = flags[j].key => i = j
  BY <1>5
<1>10. \A i \in 1..18 : FlagOk(flags[i])
  BY <1>6
<1>11. \A i \in {3, 4, 5, 6, 7, 8, 9, 10, 11, 12, 13, 14, 15, 16, 17, 18} : flags[i].volume = ""
  BY <1>8
<1>12. \A i \in 1..18 : flags[i].key \notin {"root_subpath", "dataset_profile", "dst_subpath"}
  BY <1>5
<1>13. RegistryOk(flags, 18)
  BY <1>2, <1>9, <1>10, <1>12 DEF RegistryOk
<1>14. /\ flags[1].key = "dat_path" /\ flags[2].key = "output_dir"
  BY <1>5, Zenon
<1> QED
  BY <1>1, <1>7, <1>11, <1>13, <1>14, Zenon

(* Where each converter's registry entry has the paths it mounts, and that *)
(* no two flags of a converter are mounted at one place or where an        *)
(* exchange folder goes.                                                   *)
PathOf(c, key) ==
    \/ c = "tec" /\ key = "root"
    \/ c = "parquet" /\ key \in {"src", "dst"}
    \/ c = "abstec" /\ key \in {"dat_path", "output_dir"}

VolumesOk(c, flags) ==
    /\ \A i, j \in DOMAIN flags : flags[i].volume # "" /\ flags[i].volume = flags[j].volume => i = j
    /\ \A i \in DOMAIN flags : flags[i].volume # "" =>
          PathOf(c, flags[i].key) /\ flags[i].volume \notin {"/app/out", "/data/jobs"}

Registered == {"tec", "parquet", "abstec"}

LEMMA Tables ==
    ASSUME NEW c \in Registered
    PROVE  VolumesOk(c, Forms!Flags[c]) /\ \E n \in Nat : RegistryOk(Forms!Flags[c], n)
<1>1. CASE c = "tec"
  <2> DEFINE flags == Forms!Flags["tec"]
  <2>1. /\ flags[1].key = "root" /\ flags[1].volume = "/data/rinex"
        /\ \A i \in {2, 3, 4, 5} : flags[i].volume = ""
        /\ RegistryOk(flags, 5)
    BY TecTable, Zenon
  <2> HIDE DEF flags
  <2>2. DOMAIN flags = 1..5
    BY <2>1, Zenon DEF RegistryOk
  <2>3. \A i \in DOMAIN flags : i = 1 \/ i \in {2, 3, 4, 5}
    BY <2>2
  <2>4. flags[1].volume \notin {"/app/out", "/data/jobs"}
    BY <2>1, Zenon
  <2>5. VolumesOk("tec", flags)
    BY <2>1, <2>3, <2>4, Zenon DEF VolumesOk, PathOf
  <2>6. 5 \in Nat
    OBVIOUS
  <2> QED
    BY <1>1, <2>1, <2>5, <2>6, Zenon DEF flags
<1>2. CASE c = "parquet"
  <2> DEFINE flags == Forms!Flags["parquet"]
  <2>1. /\ flags[2].key = "src" /\ flags[2].volume = "/input"
        /\ flags[3].key = "dst" /\ flags[3].volume = "/output"
        /\ \A i \in {1, 4, 5, 6} : flags[i].volume = ""
        /\ RegistryOk(flags, 6)
    BY ParquetTable, Zenon
  <2> HIDE DEF flags
  <2>2. DOMAIN flags = 1..6
    BY <2>1, Zenon DEF RegistryOk
  <2>3. \A i \in DOMAIN flags : i = 2 \/ i = 3 \/ i \in {1, 4, 5, 6}
    BY <2>2
  <2>4. /\ flags[2].volume \notin {"/app/out", "/data/jobs"} /\ flags[3].volume \notin {"/app/out", "/data/jobs"}
        /\ flags[2].volume # flags[3].volume
    BY <2>1, Zenon
  <2>5. VolumesOk("parquet", flags)
    BY <2>1, <2>3, <2>4, Zenon DEF VolumesOk, PathOf
  <2>6. 6 \in Nat
    OBVIOUS
  <2> QED
    BY <1>2, <2>1, <2>5, <2>6, Zenon DEF flags
<1>3. CASE c = "abstec"
  <2> DEFINE flags == Forms!Flags["abstec"]
  <2>1. /\ flags[1].key = "dat_path" /\ flags[1].volume = "/data/in"
        /\ flags[2].key = "output_dir" /\ flags[2].volume = "/data/out"
        /\ \A i \in 3..18 : flags[i].volume = ""
        /\ RegistryOk(flags, 18)
    <3>1. \A i \in 3..18 : i \in {3, 4, 5, 6, 7, 8, 9, 10, 11, 12, 13, 14, 15, 16, 17, 18}
      OBVIOUS
    <3> QED
      BY <3>1, AbstecTable, Zenon
  <2> HIDE DEF flags
  <2>2. DOMAIN flags = 1..18
    BY <2>1, Zenon DEF RegistryOk
  <2>3. \A i \in DOMAIN flags : i = 1 \/ i = 2 \/ i \in 3..18
    BY <2>2
  <2>4. /\ flags[1].volume \notin {"/app/out", "/data/jobs"} /\ flags[2].volume \notin {"/app/out", "/data/jobs"}
        /\ flags[1].volume # flags[2].volume
    BY <2>1, Zenon
  <2>5. VolumesOk("abstec", flags)
    BY <2>1, <2>3, <2>4, Zenon DEF VolumesOk, PathOf
  <2>6. 18 \in Nat
    OBVIOUS
  <2> QED
    BY <1>3, <2>1, <2>5, <2>6, Zenon DEF flags
<1> QED
  BY <1>1, <1>2, <1>3 DEF Registered

-----------------------------------------------------------------------------
(***************************************************************************)
(* JobForms.  A form, once prepared, has the folders the settings name; it *)
(* keeps them, and has every flag, when it is stored and when it is built. *)
(***************************************************************************)
PathsOk ==
    /\ conv \in Registered
    /\ \A i \in DOMAIN Forms!Flags[conv] : Forms!Flags[conv][i].volume # "" =>
          /\ Forms!Flags[conv][i].key \in DOMAIN form
          /\ form[Forms!Flags[conv][i].key] = Forms!Folder(Forms!Flags[conv][i].key)
    /\ conv = "parquet" => Forms!Get(form, "dst_subpath", "") = Forms!Subpath

StoredOk ==
    \A i \in DOMAIN Forms!Flags[conv] :
        /\ Forms!Flags[conv][i].key \in DOMAIN form
        /\ Forms!Flags[conv][i].type = "number" =>
              /\ form[Forms!Flags[conv][i].key] # "007"
              /\ form[Forms!Flags[conv][i].key] = "" => Forms!Flags[conv][i].default = ""

FormsOk ==
    /\ run.pc # "none" => conv \in Registered
    /\ run.pc \in {"prepared", "stored"} => PathsOk
    /\ run.pc = "stored" => StoredOk
    /\ MountsHold /\ StoredIsRun

(* Two forms agree on a field, and go on to when another is set. *)
Agree(d, e, k) == \A default : Forms!Get(d, k, default) = Forms!Get(e, k, default)

LEMMA AgreeThrough ==
    ASSUME NEW d, NEW e, NEW f, NEW k, Agree(d, e, k), Agree(e, f, k)
    PROVE  Agree(d, f, k)
BY DEF Agree

LEMMA UpdatedAgrees ==
    ASSUME NEW d, NEW new, NEW k, k \notin DOMAIN new
    PROVE  Agree(Forms!Updated(d, new), d, k)
BY DEF Forms!Updated, Forms!Get, Agree

LEMMA SetAgrees ==
    ASSUME NEW d, NEW k, NEW value, NEW other, other # k
    PROVE  Agree(Forms!Set(d, k, value), d, other)
<1> DEFINE new == [j \in {k} |-> value]
<1>1. other \notin DOMAIN new
  OBVIOUS
<1>2. Forms!Set(d, k, value) = Forms!Updated(d, new)
  BY Zenon DEF Forms!Set
<1> HIDE DEF new
<1> QED
  BY <1>1, <1>2, UpdatedAgrees

LEMMA WithDayAgrees ==
    ASSUME NEW d, NEW k, NEW other, other # k
    PROVE  Agree(Forms!WithDay(d, k), d, other)
<1>1. CASE Forms!_parse_day(k) = ""
  BY <1>1, Zenon DEF Forms!WithDay, Agree
<1>2. CASE Forms!_parse_day(k) # ""
  <2>1. Forms!WithDay(d, k) = Forms!Set(d, k, Forms!AsInt(Forms!_parse_day(k)))
    BY <1>2, Zenon DEF Forms!WithDay
  <2> QED
    BY <2>1, SetAgrees
<1> QED
  BY <1>1, <1>2

LEMMA SetIs ==
    ASSUME NEW d, NEW k, NEW value
    PROVE  k \in DOMAIN Forms!Set(d, k, value) /\ Forms!Set(d, k, value)[k] = value
<1> DEFINE new == [j \in {k} |-> value]
<1>1. k \in DOMAIN new /\ new[k] = value
  OBVIOUS
<1>2. Forms!Set(d, k, value) = Forms!Updated(d, new)
  BY Zenon DEF Forms!Set
<1> HIDE DEF new
<1> QED
  BY <1>1, <1>2 DEF Forms!Updated

(* The folders, by the place of their flag. *)
LEMMA FolderIs ==
    /\ Forms!Folder("root") = env.rinex /\ Forms!Folder("dat_path") = env.dat
    /\ Forms!Folder("output_dir") = env.abstec
    /\ Forms!Folder("src") = Forms!Join(Forms!dat_parquet_profiles(Forms!Direction)[Forms!Profile].src, Forms!Subpath)
    /\ Forms!Folder("dst") = Forms!dat_parquet_profiles(Forms!Direction)[Forms!Profile].dst
BY DEF Forms!Folder

LEMMA FolderWillBe ==
    /\ Forms!Folder("root")' = env'.rinex /\ Forms!Folder("dat_path")' = env'.dat
    /\ Forms!Folder("output_dir")' = env'.abstec
    /\ Forms!Folder("src")' = Forms!Join(Forms!dat_parquet_profiles(Forms!Direction)[Forms!Profile].src, Forms!Subpath)'
    /\ Forms!Folder("dst")' = (Forms!dat_parquet_profiles(Forms!Direction)[Forms!Profile].dst)'
BY DEF Forms!Folder

(* A form is refused or has its folders. *)
Prepared == run'.pc = "refused" \/ (run'.pc = "prepared" /\ PathsOk')

LEMMA RefusedIs ==
    ASSUME NEW why, Forms!Refused(why)
    PROVE  run'.pc = "refused"
BY Zenon DEF Forms!Refused

(* It has them, if each is at the place of its flag. *)
LEMMA PathsWillBe ==
    ASSUME conv \in Registered, UNCHANGED conv,
           \A k : PathOf(conv, k) => k \in DOMAIN form' /\ form'[k] = Forms!Folder(k)',
           conv = "parquet" => (Forms!Get(form, "dst_subpath", "") = Forms!Subpath)'
    PROVE  PathsOk'
<1>1. VolumesOk(conv, Forms!Flags[conv])
  BY Tables
<1>2. \A i \in DOMAIN Forms!Flags[conv] : Forms!Flags[conv][i].volume # "" => PathOf(conv, Forms!Flags[conv][i].key)
  BY <1>1, Zenon DEF VolumesOk
<1> QED
  BY <1>2, Zenon DEF PathsOk

LEMMA TecPrepared ==
    ASSUME Forms!_prepare_tec_suite, UNCHANGED <<env, conv>>
    PROVE  Prepared
<1>1. CASE \E why : Forms!Refused(why)
  BY <1>1, RefusedIs DEF Prepared
<1>2. CASE ~\E why : Forms!Refused(why)
  <2>1. /\ conv = "tec" /\ form' = Forms!Set(form, "root", env.rinex)
        /\ run' = [pc |-> "prepared"]
    BY <1>2, Zenon DEF Forms!_prepare_tec_suite
  <2>2. run'.pc = "prepared" /\ conv \in Registered /\ conv # "parquet" /\ \A k : PathOf(conv, k) => k = "root"
    BY <2>1, Zenon DEF PathOf, Registered
  <2>3. "root" \in DOMAIN form' /\ form'["root"] = env.rinex
    BY <2>1, SetIs
  <2>4. Forms!Folder("root")' = env.rinex
    BY FolderWillBe, Zenon
  <2>5. PathsOk'
    BY <2>2, <2>3, <2>4, PathsWillBe, Zenon
  <2> QED
    BY <2>2, <2>5 DEF Prepared
<1> QED
  BY <1>1, <1>2

LEMMA AbstecPrepared ==
    ASSUME Forms!_prepare_abstec, UNCHANGED <<env, conv>>
    PROVE  Prepared
<1>1. CASE \E why : Forms!Refused(why)
  BY <1>1, RefusedIs DEF Prepared
<1>2. CASE ~\E why : Forms!Refused(why)
  <2> DEFINE first == Forms!Set(form, "dat_path", env.dat)
  <2>1. /\ conv = "abstec" /\ form' = Forms!Set(first, "output_dir", env.abstec)
        /\ run' = [pc |-> "prepared"]
    BY <1>2, Zenon DEF Forms!_prepare_abstec
  <2>2. /\ run'.pc = "prepared" /\ conv \in Registered /\ conv # "parquet"
        /\ \A k : PathOf(conv, k) => k = "dat_path" \/ k = "output_dir"
    BY <2>1, Zenon DEF PathOf, Registered
  <2>3. "output_dir" \in DOMAIN form' /\ form'["output_dir"] = env.abstec
    BY <2>1, SetIs
  <2>4. "dat_path" \in DOMAIN form' /\ form'["dat_path"] = env.dat
    <3>1. "dat_path" \in DOMAIN first /\ first["dat_path"] = env.dat
      BY SetIs
    <3> HIDE DEF first
    <3>2. form' = Forms!Updated(first, [k \in {"output_dir"} |-> env.abstec])
      BY <2>1, Zenon DEF Forms!Set
    <3> QED
      BY <3>1, <3>2 DEF Forms!Updated
  <2>5. Forms!Folder("dat_path")' = env.dat /\ Forms!Folder("output_dir")' = env.abstec
    BY FolderWillBe, Zenon
  <2>6. PathsOk'
    BY <2>2, <2>3, <2>4, <2>5, PathsWillBe, Zenon
  <2> QED
    BY <2>2, <2>6 DEF Prepared
<1> QED
  BY <1>1, <1>2

LEMMA ParquetPrepared ==
    ASSUME Forms!_prepare_dat_parquet, UNCHANGED <<env, conv>>
    PROVE  Prepared
<1>1. CASE \E why : Forms!Refused(why)
  BY <1>1, RefusedIs DEF Prepared
<1>2. CASE ~\E why : Forms!Refused(why)
  <2> DEFINE posted == Forms!WithDay(Forms!WithDay(form, "day_from"), "day_to")
             p == Forms!dat_parquet_profiles(Forms!Direction)[Forms!Profile]
             new == [src |-> Forms!Join(p.src, Forms!Subpath), dst |-> p.dst, dst_subpath |-> Forms!Subpath,
                     dst_effective |-> Forms!Join(p.dst, Forms!Subpath),
                     dataset_profile |-> Forms!Profile, root_subpath |-> Forms!Subpath]
  <2>1. /\ conv = "parquet" /\ form' = Forms!Updated(posted, new)
        /\ Forms!Profile \in DOMAIN Forms!dat_parquet_profiles(Forms!Direction)
        /\ run' = [pc |-> "prepared"]
    BY <1>2, Zenon DEF Forms!_prepare_dat_parquet
  <2>2. /\ run'.pc = "prepared" /\ conv \in Registered
        /\ \A k : PathOf(conv, k) => k = "src" \/ k = "dst"
    BY <2>1, Zenon DEF PathOf, Registered
  <2>3. /\ DOMAIN new = {"src", "dst", "dst_subpath", "dst_effective", "dataset_profile", "root_subpath"}
        /\ new["src"] = Forms!Join(p.src, Forms!Subpath) /\ new["dst"] = p.dst
        /\ new["dst_subpath"] = Forms!Subpath /\ new["root_subpath"] = Forms!Subpath
        /\ new["dataset_profile"] = Forms!Profile
    BY Zenon
  <2> HIDE DEF posted, p, new
  <2>4. /\ "src" \in DOMAIN form' /\ form'["src"] = Forms!Join(p.src, Forms!Subpath)
        /\ "dst" \in DOMAIN form' /\ form'["dst"] = p.dst
        /\ "dst_subpath" \in DOMAIN form' /\ form'["dst_subpath"] = Forms!Subpath
        /\ "root_subpath" \in DOMAIN form' /\ form'["root_subpath"] = Forms!Subpath
        /\ "dataset_profile" \in DOMAIN form' /\ form'["dataset_profile"] = Forms!Profile
    BY <2>1, <2>3 DEF Forms!Updated
  <2>5. Forms!Subpath' = Forms!Subpath /\ (Forms!Get(form, "dst_subpath", "") = Forms!Subpath)'
    BY <2>4 DEF Forms!Subpath, Forms!Get
  <2>6. Forms!Direction' = Forms!Direction
    <3>1. "direction" \notin DOMAIN new
      BY <2>3, Zenon
    <3>2. Agree(form', posted, "direction")
      BY <2>1, <3>1, UpdatedAgrees, Zenon
    <3>3. Agree(posted, form, "direction")
      <4>1. "direction" # "day_from" /\ "direction" # "day_to"
        BY Zenon
      <4>2. Agree(Forms!WithDay(form, "day_from"), form, "direction")
        BY <4>1, WithDayAgrees, Zenon
      <4>3. Agree(posted, Forms!WithDay(form, "day_from"), "direction")
        BY <4>1, WithDayAgrees, Zenon DEF posted
      <4> QED
        BY <4>2, <4>3, AgreeThrough, Zenon
    <3> QED
      BY <3>2, <3>3, Zenon DEF Forms!Direction, Agree
  <2>7. Forms!Profile' = Forms!Profile
    <3>1. DOMAIN Forms!dat_parquet_profiles(Forms!Direction) = {"tecsuite", "abstec"}
      BY DEF Forms!dat_parquet_profiles
    <3>2. Forms!Profile # ""
      BY <2>1, <3>1, Zenon
    <3>3. Forms!Get(form', "dataset_profile", "") = Forms!Profile
      BY <2>4 DEF Forms!Get
    <3>4. Forms!Profile' = Forms!OrDefault(Forms!Get(form', "dataset_profile", ""), "tecsuite")
      BY Zenon DEF Forms!Profile
    <3> QED
      BY <3>2, <3>3, <3>4, Zenon DEF Forms!OrDefault
  <2>8. \A direction : Forms!dat_parquet_profiles(direction)' = Forms!dat_parquet_profiles(direction)
    BY Zenon DEF Forms!dat_parquet_profiles
  <2>9. Forms!Folder("src")' = Forms!Join(p.src, Forms!Subpath) /\ Forms!Folder("dst")' = p.dst
    BY <2>5, <2>6, <2>7, <2>8, FolderWillBe, Zenon DEF p
  <2>10. PathsOk'
    BY <2>1, <2>2, <2>4, <2>5, <2>9, PathsWillBe, Zenon
  <2> QED
    BY <2>2, <2>10 DEF Prepared
<1> QED
  BY <1>1, <1>2

(* Storing completes a prepared form. *)
LEMMA DirectionFlag ==
    LET flag == Forms!Flags["parquet"][1]
    IN  1 \in DOMAIN Forms!Flags["parquet"]
        /\ flag.key = "direction" /\ flag.type = "select" /\ flag.default = "dat-to-parquet"
<1>1. Forms!Flags["parquet"] = Forms!DatParquet
  BY Zenon DEF Forms!Flags
<1>2. 1 \in DOMAIN Forms!DatParquet /\ Forms!DatParquet[1] = Forms!Field("direction", "select", "dat-to-parquet")
  BY DEF Forms!DatParquet
<1>3. LET field == Forms!Field("direction", "select", "dat-to-parquet")
      IN  field.key = "direction" /\ field.type = "select" /\ field.default = "dat-to-parquet"
  BY Zenon DEF Forms!Field
<1> DEFINE flag == Forms!Flags["parquet"][1]
<1>4. 1 \in DOMAIN Forms!Flags["parquet"] /\ flag = Forms!Field("direction", "select", "dat-to-parquet")
  BY <1>1, <1>2, Zenon
<1> HIDE DEF flag
<1>5. flag.key = "direction" /\ flag.type = "select" /\ flag.default = "dat-to-parquet"
  BY <1>3, <1>4, Zenon
<1> QED
  BY <1>4, <1>5, Zenon DEF flag

ResolvedFlags(flags) ==
    LET all == {flags[i] : i \in DOMAIN flags}
        FlagOf(key) == CHOOSE flag \in all : flag.key = key
    IN  [key \in {flag.key : flag \in all} |-> Forms!Resolved(FlagOf(key))]

LEMMA ResolvedFlag ==
    ASSUME NEW flags, NEW n \in Nat, RegistryOk(flags, n), NEW i \in DOMAIN flags
    PROVE  /\ flags[i].key \in DOMAIN ResolvedFlags(flags)
           /\ ResolvedFlags(flags)[flags[i].key] = Forms!Resolved(flags[i])
<1> DEFINE all == {flags[j] : j \in DOMAIN flags}
           FlagOf(k) == CHOOSE flag \in all : flag.key = k
<1>1. flags[i] \in all
  OBVIOUS
<1>2. FlagOf(flags[i].key) \in all /\ FlagOf(flags[i].key).key = flags[i].key
  BY <1>1, Zenon
<1>3. PICK j \in DOMAIN flags : FlagOf(flags[i].key) = flags[j]
  BY <1>2, Zenon
<1>4. j = i
  BY <1>2, <1>3, Zenon DEF RegistryOk
<1>5. ResolvedFlags(flags) = [k \in {flag.key : flag \in all} |-> Forms!Resolved(FlagOf(k))]
  BY Zenon DEF ResolvedFlags
<1>6. flags[i].key \in {flag.key : flag \in all}
  BY <1>1, Zenon
<1> HIDE DEF all, FlagOf
<1> QED
  BY <1>3, <1>4, <1>5, <1>6, Zenon

LEMMA ResolvedBesides ==
    ASSUME NEW flags, NEW n \in Nat, RegistryOk(flags, n)
    PROVE  /\ "root_subpath" \notin DOMAIN ResolvedFlags(flags)
           /\ "dataset_profile" \notin DOMAIN ResolvedFlags(flags)
           /\ "dst_subpath" \notin DOMAIN ResolvedFlags(flags)
<1>1. \A k \in DOMAIN ResolvedFlags(flags) : \E i \in 1..n : k = flags[i].key
  BY Zenon DEF ResolvedFlags, RegistryOk
<1> QED
  BY <1>1, Zenon DEF RegistryOk

LEMMA ResolvedNumber ==
    ASSUME NEW flag, FlagOk(flag), flag.type = "number"
    PROVE  /\ Forms!Resolved(flag) # "007"
           /\ Forms!Resolved(flag) = "" => flag.default = ""
<1> DEFINE value == Forms!Get(form, flag.key, "")
<1>1. Forms!Resolved(flag) = IF value = "" THEN flag.default
                             ELSE IF Forms!IsInt(value) THEN Forms!AsInt(value) ELSE value
  BY Zenon DEF Forms!Resolved
<1> HIDE DEF value
<1>2. flag.default # "007"
  BY Zenon DEF FlagOk
<1>3. CASE value = ""
  BY <1>1, <1>2, <1>3, Zenon
<1>4. CASE value # "" /\ Forms!IsInt(value)
  <2>1. Forms!AsInt(value) # "007" /\ Forms!AsInt(value) # ""
    BY <1>4, Zenon DEF Forms!AsInt
  <2> QED
    BY <1>1, <1>4, <2>1, Zenon
<1>5. CASE value # "" /\ ~Forms!IsInt(value)
  <2>1. value # "007"
    BY <1>5, Zenon DEF Forms!IsInt
  <2> QED
    BY <1>1, <1>5, <2>1, Zenon
<1> QED
  BY <1>3, <1>4, <1>5

LEMMA FormStored ==
    ASSUME PathsOk, Forms!_apply_converter_flag_defaults
    PROVE  run'.pc = "stored" /\ PathsOk' /\ StoredOk'
<1> DEFINE flags == Forms!Flags[conv]
           given == ResolvedFlags(flags)
<1>1. run'.pc = "stored" /\ UNCHANGED <<env, conv>> /\ form' = Forms!Updated(form, given)
  BY Zenon DEF Forms!_apply_converter_flag_defaults, ResolvedFlags
<1>2. conv \in Registered
  BY DEF PathsOk
<1>3. PICK n \in Nat : RegistryOk(flags, n)
  BY <1>2, Tables
<1>4. VolumesOk(conv, flags)
  BY <1>2, Tables
<1>5. \A i \in DOMAIN flags : flags[i].key \in DOMAIN given /\ given[flags[i].key] = Forms!Resolved(flags[i])
  BY <1>3, ResolvedFlag
<1>6. \A i \in DOMAIN flags : FlagOk(flags[i])
  BY <1>3, Zenon DEF RegistryOk
<1>7. /\ "root_subpath" \notin DOMAIN given /\ "dataset_profile" \notin DOMAIN given
      /\ "dst_subpath" \notin DOMAIN given
  BY <1>3, ResolvedBesides, Zenon
<1> HIDE DEF given
<1>8. \A i \in DOMAIN flags : flags[i].key \in DOMAIN form' /\ form'[flags[i].key] = Forms!Resolved(flags[i])
  BY <1>1, <1>5 DEF Forms!Updated
<1>9. StoredOk'
  <2> SUFFICES ASSUME NEW i \in DOMAIN flags
               PROVE  /\ flags[i].key \in DOMAIN form'
                      /\ flags[i].type = "number" => /\ form'[flags[i].key] # "007"
                                                     /\ form'[flags[i].key] = "" => flags[i].default = ""
    BY <1>1, Zenon DEF StoredOk
  <2> QED
    BY <1>6, <1>8, ResolvedNumber, Zenon
<1>10. /\ Agree(form', form, "root_subpath") /\ Agree(form', form, "dataset_profile")
       /\ Agree(form', form, "dst_subpath")
  BY <1>1, <1>7, UpdatedAgrees, Zenon
<1>11. Forms!Subpath' = Forms!Subpath /\ Forms!Profile' = Forms!Profile
  BY <1>10, Zenon DEF Agree, Forms!Subpath, Forms!Profile
<1>12. conv = "parquet" => (Forms!Get(form, "dst_subpath", "") = Forms!Subpath)'
  <2>1. Forms!Get(form', "dst_subpath", "") = Forms!Get(form, "dst_subpath", "")
    BY <1>10, Zenon DEF Agree
  <2> QED
    BY <1>11, <2>1, Zenon DEF PathsOk
<1>13. ASSUME conv = "parquet" PROVE Forms!Direction' = Forms!Direction
  <2>1. /\ "direction" \in DOMAIN form'
        /\ form'["direction"] = Forms!Get(form, "direction", "dat-to-parquet")
    <3>1. /\ 1 \in DOMAIN flags /\ flags[1].key = "direction" /\ flags[1].type = "select"
          /\ flags[1].default = "dat-to-parquet"
      BY <1>13, DirectionFlag, Zenon
    <3>2. Forms!Resolved(flags[1]) = Forms!Get(form, flags[1].key, flags[1].default)
      BY <3>1, Zenon DEF Forms!Resolved
    <3> QED
      BY <1>8, <3>1, <3>2, Zenon
  <2>2. Forms!Get(form', "direction", "") = Forms!Get(form, "direction", "dat-to-parquet")
    BY <2>1, Zenon DEF Forms!Get
  <2>3. CASE "direction" \in DOMAIN form
    <3>1. Forms!Get(form, "direction", "dat-to-parquet") = Forms!Get(form, "direction", "")
      BY <2>3, Zenon DEF Forms!Get
    <3> QED
      BY <2>2, <3>1, Zenon DEF Forms!Direction
  <2>4. CASE "direction" \notin DOMAIN form
    <3>1. Forms!Get(form, "direction", "dat-to-parquet") = "dat-to-parquet" /\ Forms!Get(form, "direction", "") = ""
      BY <2>4, Zenon DEF Forms!Get
    <3>2. Forms!Direction' = Forms!OrDefault(Forms!Get(form', "direction", ""), "dat-to-parquet")
      BY Zenon DEF Forms!Direction
    <3>3. Forms!Direction = Forms!OrDefault("", "dat-to-parquet")
      BY <3>1, Zenon DEF Forms!Direction
    <3> QED
      BY <2>2, <3>1, <3>2, <3>3, Zenon DEF Forms!OrDefault
  <2> QED
    BY <2>3, <2>4
<1> DEFINE Keeps(k) == Forms!Folder(k)' = Forms!Folder(k)
<1>14. ASSUME NEW k, PathOf(conv, k) PROVE Keeps(k)
  <2>1. CASE conv = "tec"
    <3>1. k = "root"
      BY <1>14, <2>1, Zenon DEF PathOf
    <3> QED
      BY <1>1, <3>1, FolderIs, FolderWillBe, Zenon
  <2>2. CASE conv = "abstec"
    <3>1. k = "dat_path" \/ k = "output_dir"
      BY <1>14, <2>2, Zenon DEF PathOf
    <3> QED
      BY <1>1, <3>1, FolderIs, FolderWillBe, Zenon
  <2>3. CASE conv = "parquet"
    <3>1. k = "src" \/ k = "dst"
      BY <1>14, <2>3, Zenon DEF PathOf
    <3>2. \A direction : Forms!dat_parquet_profiles(direction)' = Forms!dat_parquet_profiles(direction)
      BY <1>1, Zenon DEF Forms!dat_parquet_profiles
    <3> QED
      BY <1>11, <1>13, <2>3, <3>1, <3>2, FolderIs, FolderWillBe, Zenon
  <2> QED
    BY <1>2, <2>1, <2>2, <2>3, Zenon DEF Registered
<1>15. ASSUME NEW i \in DOMAIN flags, flags[i].volume # ""
       PROVE  flags[i].key \in DOMAIN form' /\ form'[flags[i].key] = Forms!Folder(flags[i].key)'
  <2>1. flags[i].type = "text" /\ PathOf(conv, flags[i].key)
    BY <1>4, <1>6, <1>15, Zenon DEF FlagOk, VolumesOk
  <2>2. flags[i].key \in DOMAIN form /\ form[flags[i].key] = Forms!Folder(flags[i].key)
    BY <1>15, Zenon DEF PathsOk
  <2>3. Forms!Resolved(flags[i]) = form[flags[i].key]
    <3>1. Forms!Resolved(flags[i]) = Forms!Get(form, flags[i].key, flags[i].default)
      BY <2>1, Zenon DEF Forms!Resolved
    <3>2. Forms!Get(form, flags[i].key, flags[i].default) = form[flags[i].key]
      BY <2>2, Zenon DEF Forms!Get
    <3> QED
      BY <3>1, <3>2, Zenon
  <2>4. Forms!Folder(flags[i].key)' = Forms!Folder(flags[i].key)
    <3> HIDE DEF Keeps
    <3>1. Keeps(flags[i].key)
      BY <1>14, <2>1, Zenon
    <3> QED
      BY <3>1, Zenon DEF Keeps
  <2>5. flags[i].key \in DOMAIN form' /\ form'[flags[i].key] = Forms!Resolved(flags[i])
    BY <1>8
  <2> QED
    BY <2>2, <2>3, <2>4, <2>5, Zenon
<1>16. PathsOk'
  BY <1>1, <1>2, <1>12, <1>15, Zenon DEF PathsOk
<1> QED
  BY <1>1, <1>9, <1>16

(* What is built of a stored form. *)
LEMMA LeastExists ==
    ASSUME NEW S, S \subseteq Nat, S # {}
    PROVE  \E least \in S : \A y \in S : least <= y
<1>1. \A m, y \in Nat : <<y, m>> \in OpToRel(<, Nat) <=> y < m
  BY DEF OpToRel
<1>2. \E R : IsWellFoundedOn(R, Nat) /\ \A m, y \in Nat : <<y, m>> \in R <=> y < m
  BY <1>1, NatLessThanWellFounded
<1>3. PICK R : IsWellFoundedOn(R, Nat) /\ \A m, y \in Nat : <<y, m>> \in R <=> y < m
  BY <1>2
<1>4. PICK least \in S : \A y \in S : ~(<<y, least>> \in R)
  BY <1>3, WFMin
<1>5. \A y \in S : ~(y < least)
  BY <1>3, <1>4
<1>6. \A y \in S : least <= y
  BY <1>5
<1> QED
  BY <1>6

LEMMA ValueIs ==
    ASSUME StoredOk, NEW i \in DOMAIN Forms!Flags[conv]
    PROVE  Forms!Value(i) = form[Forms!Flags[conv][i].key]
<1>1. Forms!Flags[conv][i].key \in DOMAIN form
  BY Zenon DEF StoredOk
<1> QED
  BY <1>1, Zenon DEF Forms!Value, Forms!Get

LEMMA FirstIs ==
    ASSUME conv \in Registered, NEW i \in Forms!Binding
    PROVE  Forms!First(Forms!Value(i)) \in Forms!Binding /\ Forms!Value(Forms!First(Forms!Value(i))) = Forms!Value(i)
<1> DEFINE S == {j \in Forms!Binding : Forms!Value(j) = Forms!Value(i)}
<1>1. PICK n \in Nat : RegistryOk(Forms!Flags[conv], n)
  BY Tables
<1>2. DOMAIN Forms!Flags[conv] = 1..n
  BY <1>1, Zenon DEF RegistryOk
<1>3. Forms!Binding \subseteq 1..n
  BY <1>2, Zenon DEF Forms!Binding
<1>4. S \subseteq Nat /\ i \in S
  <2>1. S \subseteq Forms!Binding /\ i \in S
    BY Zenon
  <2> HIDE DEF S
  <2>2. 1..n \subseteq Nat
    OBVIOUS
  <2> QED
    BY <1>3, <2>1, <2>2, Zenon
<1>5. Forms!First(Forms!Value(i)) = Forms!Min(S)
  BY Zenon DEF Forms!First
<1> HIDE DEF S
<1>6. Forms!Min(S) \in S
  BY <1>4, LeastExists DEF Forms!Min
<1> QED
  BY <1>5, <1>6, Zenon DEF S

(* A mount is where its first flag has it. *)
LEMMA VolumesAre ==
    ASSUME conv \in Registered
    PROVE  /\ \A i \in Forms!Binding :
                 /\ Forms!Value(i) \in DOMAIN Forms!Volumes
                 /\ Forms!Volumes[Forms!Value(i)] = Forms!MountPoint(i)
           /\ \A host \in DOMAIN Forms!Volumes : \E i \in Forms!Binding :
                 Forms!Value(i) = host /\ Forms!Volumes[host] = Forms!Flags[conv][i].volume
<1>1. ASSUME NEW i \in Forms!Binding
      PROVE  /\ Forms!Value(i) \in DOMAIN Forms!Volumes
             /\ Forms!Volumes[Forms!Value(i)] = Forms!MountPoint(i)
  <2> DEFINE host == Forms!Value(i)
  <2>1. host \in {Forms!Value(j) : j \in Forms!Binding}
    BY Zenon
  <2>2. Forms!First(host) \in Forms!Binding /\ Forms!Value(Forms!First(host)) = host
    BY FirstIs
  <2>3. Forms!Volumes[host] = Forms!MountPoint(Forms!First(host)) /\ host \in DOMAIN Forms!Volumes
    BY <2>1, Zenon DEF Forms!Volumes
  <2>4. Forms!MountPoint(Forms!First(host)) = Forms!MountPoint(i)
    BY <2>2, Zenon DEF Forms!MountPoint
  <2> QED
    BY <2>3, <2>4, Zenon
<1>2. ASSUME NEW host \in DOMAIN Forms!Volumes
      PROVE  \E i \in Forms!Binding : Forms!Value(i) = host /\ Forms!Volumes[host] = Forms!Flags[conv][i].volume
  <2>1. PICK j \in Forms!Binding : host = Forms!Value(j)
    BY Zenon DEF Forms!Volumes
  <2> DEFINE i == Forms!First(Forms!Value(j))
  <2>2. i \in Forms!Binding /\ Forms!Value(i) = host
    BY <2>1, FirstIs
  <2>3. Forms!Volumes[Forms!Value(j)] = Forms!MountPoint(j)
    BY <1>1
  <2>4. Forms!MountPoint(j) = Forms!Flags[conv][i].volume
    BY Zenon DEF Forms!MountPoint
  <2> QED
    BY <2>1, <2>2, <2>3, <2>4, Zenon
<1> QED
  BY <1>1, <1>2

LEMMA FixedAre ==
    \A host \in DOMAIN Forms!FixedVolumes :
        /\ Forms!IsTakenOver(host) /\ Forms!FixedVolumes[host] \in {"/app/out", "/data/jobs"}
        /\ \A other \in DOMAIN Forms!FixedVolumes : other = host
<1>1. CASE conv = "tec" /\ env.dat # ""
  <2>1. Forms!FixedVolumes = [host \in {env.dat} |-> "/app/out"]
    BY <1>1, Zenon DEF Forms!FixedVolumes
  <2> QED
    BY <1>1, <2>1, Zenon DEF Forms!IsTakenOver
<1>2. CASE ~(conv = "tec" /\ env.dat # "") /\ Forms!UsesDockur
  <2>1. Forms!FixedVolumes = [host \in {env.dockur} |-> "/data/jobs"]
    BY <1>2, Zenon DEF Forms!FixedVolumes
  <2> QED
    BY <1>2, <2>1, Zenon DEF Forms!IsTakenOver
<1>3. CASE ~(conv = "tec" /\ env.dat # "") /\ ~Forms!UsesDockur
  <2>1. Forms!FixedVolumes = << >>
    BY <1>3, Zenon DEF Forms!FixedVolumes
  <2>2. DOMAIN Forms!FixedVolumes = {}
    BY <2>1
  <2> QED
    BY <2>2, Zenon
<1> QED
  BY <1>1, <1>2, <1>3

(* The path in a command is the mount point and what is beneath it. *)
LEMMA ContainerPathIs ==
    ASSUME PathsOk, NEW k, PathOf(conv, k), NEW path
    PROVE  Forms!ContainerPath(path, k) = Forms!Join(path, Forms!Beneath(k))
<1>1. CASE conv = "tec"
  <2>1. k = "root"
    BY <1>1, Zenon DEF PathOf
  <2> QED
    BY <1>1, <2>1, Zenon DEF Forms!ContainerPath, Forms!Beneath, Forms!Subpath
<1>2. CASE conv = "parquet" /\ k = "dst"
  <2>1. Forms!Get(form, "dst_subpath", "") = Forms!Subpath
    BY <1>2, Zenon DEF PathsOk
  <2> QED
    BY <1>2, <2>1, Zenon DEF Forms!ContainerPath, Forms!Beneath
<1>3. CASE conv # "tec" /\ ~(conv = "parquet" /\ k = "dst")
  <2>1. k \notin {"root", "dst"}
    BY <1>3, Zenon DEF PathOf
  <2>2. Forms!ContainerPath(path, k) = path
    BY <1>3, Zenon DEF Forms!ContainerPath
  <2>3. Forms!Beneath(k) = ""
    BY <2>1, Zenon DEF Forms!Beneath
  <2> QED
    BY <2>2, <2>3, Zenon DEF Forms!Join
<1> QED
  BY <1>1, <1>2, <1>3

MountsAre(flags, cmd, volumes) ==
    /\ \A i \in DOMAIN flags :
          LET host == Forms!Folder(flags[i].key)
          IN  flags[i].volume # "" /\ host # "" /\ ~Forms!IsTakenOver(host) =>
                 /\ host \in DOMAIN volumes
                 /\ cmd[i] = <<flags[i].key, Forms!Join(volumes[host], Forms!Beneath(flags[i].key))>>
    /\ \A g, h \in DOMAIN volumes : g # h => volumes[g] # volumes[h]

WordsAre(flags, cmd) ==
    \A i \in DOMAIN flags :
        LET stored == form[flags[i].key]
        IN  flags[i].volume = "" =>
               cmd[i] = IF flags[i].type = "checkbox" THEN IF stored = "True" THEN <<flags[i].key>> ELSE << >>
                        ELSE IF stored = "" THEN << >> ELSE <<flags[i].key, stored>>

LEMMA MountsBuilt ==
    ASSUME PathsOk, StoredOk
    PROVE  MountsAre(Forms!Flags[conv], Forms!Built.cmd, Forms!Built.volumes)
<1> DEFINE flags == Forms!Flags[conv]
           cmd == [i \in DOMAIN flags |-> Forms!Words(i)]
           volumes == Forms!Updated(Forms!Volumes, Forms!FixedVolumes)
<1>1. Forms!Built.cmd = cmd /\ Forms!Built.volumes = volumes
  BY Zenon DEF Forms!Built
<1>2. conv \in Registered /\ VolumesOk(conv, flags)
  BY Tables DEF PathsOk
<1>3. DOMAIN volumes = DOMAIN Forms!Volumes \cup DOMAIN Forms!FixedVolumes
  BY Zenon DEF Forms!Updated
<1>4. \A h \in DOMAIN Forms!FixedVolumes : volumes[h] = Forms!FixedVolumes[h]
  BY DEF Forms!Updated
<1>5. \A h \in DOMAIN Forms!Volumes : h \notin DOMAIN Forms!FixedVolumes => volumes[h] = Forms!Volumes[h]
  BY DEF Forms!Updated
<1>6. \A i \in DOMAIN flags : cmd[i] = Forms!Words(i)
  BY Zenon
<1> HIDE DEF cmd, volumes
<1>7. ASSUME NEW i \in DOMAIN flags, NEW host, host = Forms!Folder(flags[i].key),
             flags[i].volume # "", host # "", ~Forms!IsTakenOver(host)
      PROVE  /\ host \in DOMAIN volumes
             /\ cmd[i] = <<flags[i].key, Forms!Join(volumes[host], Forms!Beneath(flags[i].key))>>
  <2>1. Forms!Value(i) = host
    BY <1>7, ValueIs, Zenon DEF PathsOk
  <2>2. i \in Forms!Binding
    BY <1>7, <2>1, Zenon DEF Forms!Binding
  <2>3. host \in DOMAIN Forms!Volumes /\ Forms!Volumes[host] = Forms!MountPoint(i)
    BY <1>2, <2>1, <2>2, VolumesAre, Zenon
  <2>4. host \notin DOMAIN Forms!FixedVolumes
    BY <1>7, FixedAre, Zenon
  <2>5. host \in DOMAIN volumes /\ volumes[host] = Forms!MountPoint(i)
    BY <1>3, <1>5, <2>3, <2>4, Zenon
  <2>6. Forms!Words(i) = <<flags[i].key, Forms!ContainerPath(Forms!MountPoint(i), flags[i].key)>>
    <3>1. flags[i].type = "text"
      BY <1>2, <1>7, Tables, Zenon DEF RegistryOk, FlagOk
    <3>2. flags[i].type # "checkbox" /\ flags[i].type # "number"
      BY <3>1, Zenon
    <3> QED
      BY <1>7, <2>1, <3>2, Zenon DEF Forms!Words
  <2>7. PathOf(conv, flags[i].key)
    BY <1>2, <1>7, Zenon DEF VolumesOk
  <2>8. Forms!ContainerPath(Forms!MountPoint(i), flags[i].key)
           = Forms!Join(Forms!MountPoint(i), Forms!Beneath(flags[i].key))
    BY <2>7, ContainerPathIs
  <2> QED
    BY <1>6, <2>5, <2>6, <2>8, Zenon
<1>8. ASSUME NEW g \in DOMAIN volumes, NEW h \in DOMAIN volumes, g # h
      PROVE  volumes[g] # volumes[h]
  <2>1. ASSUME NEW host \in DOMAIN Forms!Volumes
        PROVE  Forms!Volumes[host] \notin {"/app/out", "/data/jobs"}
    BY <1>2, <2>1, VolumesAre, Zenon DEF VolumesOk, Forms!Binding
  <2>2. CASE g \in DOMAIN Forms!FixedVolumes
    <3>1. h \notin DOMAIN Forms!FixedVolumes
      BY <1>8, <2>2, FixedAre, Zenon
    <3> QED
      BY <1>3, <1>4, <1>5, <1>8, <2>1, <2>2, <3>1, FixedAre, Zenon
  <2>3. CASE h \in DOMAIN Forms!FixedVolumes
    <3>1. g \notin DOMAIN Forms!FixedVolumes
      BY <1>8, <2>3, FixedAre, Zenon
    <3> QED
      BY <1>3, <1>4, <1>5, <1>8, <2>1, <2>3, <3>1, FixedAre, Zenon
  <2>4. CASE g \notin DOMAIN Forms!FixedVolumes /\ h \notin DOMAIN Forms!FixedVolumes
    <3>1. PICK i \in Forms!Binding : Forms!Value(i) = g /\ Forms!Volumes[g] = flags[i].volume
      BY <1>2, <1>3, <1>8, <2>4, VolumesAre, Zenon
    <3>2. PICK j \in Forms!Binding : Forms!Value(j) = h /\ Forms!Volumes[h] = flags[j].volume
      BY <1>2, <1>3, <1>8, <2>4, VolumesAre, Zenon
    <3>3. i # j
      BY <1>8, <3>1, <3>2, Zenon
    <3>4. flags[i].volume # flags[j].volume
      BY <1>2, <3>3, Zenon DEF VolumesOk, Forms!Binding
    <3>5. volumes[g] = Forms!Volumes[g] /\ volumes[h] = Forms!Volumes[h]
      BY <1>3, <1>5, <1>8, <2>4, Zenon
    <3> QED
      BY <3>1, <3>2, <3>4, <3>5, Zenon
  <2> QED
    BY <2>2, <2>3, <2>4
<1>9. MountsAre(flags, cmd, volumes)
  BY <1>7, <1>8, Zenon DEF MountsAre
<1> QED
  BY <1>1, <1>9, Zenon

LEMMA WordsBuilt ==
    ASSUME PathsOk, StoredOk
    PROVE  WordsAre(Forms!Flags[conv], Forms!Built.cmd)
<1> DEFINE flags == Forms!Flags[conv]
           cmd == [i \in DOMAIN flags |-> Forms!Words(i)]
<1>1. Forms!Built.cmd = cmd
  BY Zenon DEF Forms!Built
<1>2. \A i \in DOMAIN flags : cmd[i] = Forms!Words(i)
  BY Zenon
<1> HIDE DEF cmd
<1>3. ASSUME NEW i \in DOMAIN flags, flags[i].volume = "", NEW stored, stored = form[flags[i].key]
      PROVE  cmd[i] = IF flags[i].type = "checkbox" THEN IF stored = "True" THEN <<flags[i].key>> ELSE << >>
                      ELSE IF stored = "" THEN << >> ELSE <<flags[i].key, stored>>
  <2>1. Forms!Value(i) = stored
    BY <1>3, ValueIs, Zenon
  <2>2. CASE flags[i].type = "checkbox"
    <3>1. flags[i].type # "number"
      BY <2>2, Zenon
    <3> QED
      BY <1>2, <1>3, <2>1, <2>2, <3>1, Zenon DEF Forms!Words
  <2>3. CASE flags[i].type = "number"
    <3>1. stored # "007" /\ (stored = "" => flags[i].default = "")
      BY <1>3, <2>3, Zenon DEF StoredOk
    <3>2. Forms!OrDefault(stored, flags[i].default) = stored /\ Forms!AsInt(stored) = stored
      BY <3>1, Zenon DEF Forms!OrDefault, Forms!AsInt
    <3>3. flags[i].type # "checkbox"
      BY <2>3, Zenon
    <3> QED
      BY <1>2, <1>3, <2>1, <2>3, <3>2, <3>3, Zenon DEF Forms!Words
  <2>4. CASE flags[i].type \notin {"checkbox", "number"}
    BY <1>2, <1>3, <2>1, <2>4, Zenon DEF Forms!Words
  <2> QED
    BY <2>2, <2>3, <2>4
<1>4. WordsAre(flags, cmd)
  BY <1>3, Zenon DEF WordsAre
<1> QED
  BY <1>1, <1>4, Zenon

(* Every step of a form. *)
LEMMA NotBuilt ==
    ASSUME run'.pc # "built"
    PROVE  MountsHold' /\ StoredIsRun'
BY Zenon DEF MountsHold, Forms!MountsHold, StoredIsRun, Forms!StoredIsRun

LEMMA FormBuilt ==
    ASSUME FormsOk, Forms!build_command
    PROVE  FormsOk'
<1>1. run.pc = "stored" /\ UNCHANGED <<env, conv, form>>
  BY Zenon DEF Forms!build_command, Forms!Refused
<1>2. PathsOk /\ StoredOk /\ conv \in Registered
  <2>1. PathsOk /\ StoredOk
    BY <1>1, Zenon DEF FormsOk
  <2> QED
    BY <2>1 DEF PathsOk
<1>3. CASE Forms!Refused("command")
  <2>1. run'.pc = "refused"
    BY <1>3, RefusedIs, Zenon
  <2> QED
    BY <1>1, <1>2, <2>1, NotBuilt, Zenon DEF FormsOk
<1>4. CASE run' = Forms!Built
  <2>1. run'.pc = "built"
    BY <1>4, Zenon DEF Forms!Built
  <2>2. MountsAre(Forms!Flags[conv], run'.cmd, run'.volumes) /\ WordsAre(Forms!Flags[conv], run'.cmd)
    BY <1>2, <1>4, MountsBuilt, WordsBuilt, Zenon
  <2>3. MountsHold'
    <3>1. \A direction : Forms!dat_parquet_profiles(direction)' = Forms!dat_parquet_profiles(direction)
      BY <1>1, Zenon DEF Forms!dat_parquet_profiles
    <3>2. Forms!Subpath' = Forms!Subpath /\ Forms!Profile' = Forms!Profile /\ Forms!Direction' = Forms!Direction
      BY <1>1, Zenon DEF Forms!Subpath, Forms!Profile, Forms!Direction
    <3>3. \A k : Forms!Folder(k)' = Forms!Folder(k)
      BY <1>1, <3>1, <3>2, Zenon DEF Forms!Folder
    <3>4. \A k : Forms!Beneath(k)' = Forms!Beneath(k)
      BY <3>2, Zenon DEF Forms!Beneath
    <3>5. \A host : Forms!IsTakenOver(host)' <=> Forms!IsTakenOver(host)
      BY <1>1, Zenon DEF Forms!IsTakenOver, Forms!UsesDockur
    <3> QED
      BY <1>1, <2>2, <3>3, <3>4, <3>5, Zenon DEF MountsAre, MountsHold, Forms!MountsHold
  <2>4. StoredIsRun'
    BY <1>1, <2>2, Zenon DEF WordsAre, StoredIsRun, Forms!StoredIsRun
  <2> QED
    BY <1>1, <1>2, <2>1, <2>3, <2>4, Zenon DEF FormsOk
<1> QED
  BY <1>3, <1>4, Zenon DEF Forms!build_command

LEMMA FormsSteady ==
    ASSUME FormsOk, UNCHANGED OfForms
    PROVE  FormsOk'
<1>1. UNCHANGED <<env, conv, form, run>>
  BY DEF OfForms
<1>2. \A direction : Forms!dat_parquet_profiles(direction)' = Forms!dat_parquet_profiles(direction)
  BY <1>1, Zenon DEF Forms!dat_parquet_profiles
<1>3. Forms!Subpath' = Forms!Subpath /\ Forms!Profile' = Forms!Profile /\ Forms!Direction' = Forms!Direction
  BY <1>1, Zenon DEF Forms!Subpath, Forms!Profile, Forms!Direction
<1>4. \A k : Forms!Folder(k)' = Forms!Folder(k)
  BY <1>1, <1>2, <1>3, Zenon DEF Forms!Folder
<1>5. \A k : Forms!Beneath(k)' = Forms!Beneath(k)
  BY <1>3, Zenon DEF Forms!Beneath
<1>6. \A host : Forms!IsTakenOver(host)' <=> Forms!IsTakenOver(host)
  BY <1>1, Zenon DEF Forms!IsTakenOver, Forms!UsesDockur
<1>7. MountsHold => MountsHold'
  BY <1>1, <1>4, <1>5, <1>6, Zenon DEF MountsHold, Forms!MountsHold
<1>8. StoredIsRun => StoredIsRun'
  BY <1>1, Zenon DEF StoredIsRun, Forms!StoredIsRun
<1>9. PathsOk => PathsOk'
  BY <1>1, <1>3, <1>4, Zenon DEF PathsOk
<1>10. StoredOk => StoredOk'
  BY <1>1, Zenon DEF StoredOk
<1> QED
  BY <1>1, <1>7, <1>8, <1>9, <1>10, Zenon DEF FormsOk

LEMMA FormsStep ==
    ASSUME FormsOk, Forms!Next \/ UNCHANGED OfForms
    PROVE  FormsOk'
<1>1. CASE UNCHANGED OfForms
  BY <1>1, FormsSteady
<1>2. CASE Forms!Posts
  <2>1. conv' \in Registered /\ run'.pc = "posted"
    <3>1. DOMAIN Forms!Flags = Registered
      BY Zenon DEF Forms!Flags, Registered
    <3> QED
      BY <1>2, <3>1, Zenon DEF Forms!Posts
  <2> QED
    BY <2>1, NotBuilt, Zenon DEF FormsOk
<1>3. CASE Forms!prepare_form
  <2>1. run.pc = "posted" /\ UNCHANGED <<env, conv>>
    BY <1>3, Zenon DEF Forms!prepare_form
  <2>2. conv \in Registered
    BY <2>1, Zenon DEF FormsOk
  <2>3. Prepared
    BY <1>3, <2>1, TecPrepared, AbstecPrepared, ParquetPrepared DEF Forms!prepare_form
  <2> QED
    BY <2>1, <2>2, <2>3, NotBuilt, Zenon DEF FormsOk, Prepared
<1>4. CASE Forms!_apply_converter_flag_defaults
  <2>1. run.pc = "prepared" /\ UNCHANGED conv
    BY <1>4, Zenon DEF Forms!_apply_converter_flag_defaults
  <2>2. PathsOk
    BY <2>1, Zenon DEF FormsOk
  <2>3. run'.pc = "stored" /\ PathsOk' /\ StoredOk'
    BY <1>4, <2>2, FormStored
  <2>4. conv' \in Registered
    BY <2>1, <2>2, Zenon DEF PathsOk
  <2> QED
    BY <2>3, <2>4, NotBuilt, Zenon DEF FormsOk
<1>5. CASE Forms!build_command
  BY <1>5, FormBuilt
<1> QED
  BY <1>1, <1>2, <1>3, <1>4, <1>5 DEF Forms!Next

LEMMA FormsAlways == Spec => []FormsOk
<1>1. Init => FormsOk
  <2> SUFFICES ASSUME Init PROVE FormsOk
    OBVIOUS
  <2>1. run = [pc |-> "none"]
    BY Zenon DEF Init, Forms!Init
  <2>2. run.pc = "none"
    BY <2>1, Zenon
  <2> QED
    BY <2>2, Zenon DEF FormsOk, MountsHold, Forms!MountsHold, StoredIsRun, Forms!StoredIsRun
<1>2. FormsOk /\ [Next]_hubVars => FormsOk'
  BY FormsStep DEF Next, hubVars
<1> QED
  BY <1>1, <1>2, PTL DEF Spec, hubVars

(* However roots share host folders or are left unset, whatever a browser  *)
(* posts for a path and whichever converter runs: each path of a command   *)
(* leads through the mounts to the folder the settings name for it, and    *)
(* no two folders are mounted over each other.  Not so for a folder that a *)
(* fixed mount of the command takes over.                                  *)
THEOREM MountsLead == Spec => []MountsHold
<1>1. FormsOk => MountsHold
  BY DEF FormsOk
<1> QED
  BY <1>1, FormsAlways, PTL

(* However a form spells its values and whatever it leaves out, the flags  *)
(* stored with a job are its command, flag by flag.                        *)
THEOREM StoredRuns == Spec => []StoredIsRun
<1>1. FormsOk => StoredIsRun
  BY DEF FormsOk
<1> QED
  BY <1>1, FormsAlways, PTL
==============================================================================
