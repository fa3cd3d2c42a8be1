---------------------------- MODULE LoginLimiter ----------------------------
(***************************************************************************)
(* POST /login and its limiter (auth.py, login_submit).  The handler never *)
(* awaits, so a login is one step.  Times are ticks of the monotonic clock.*)
(* A list of times is a bag: by the time, how often it is in the list,     *)
(* whose order nothing reads.                                              *)
(***************************************************************************)
EXTENDS Integers, FiniteSetsExt, Bags, TLC

CONSTANTS LOGIN_RATE_LIMIT_ENABLED,
          Keys,         \* (address, name) pairs
          MaxAttempts,  \* LOGIN_RATE_LIMIT_MAX_ATTEMPTS
          Window,       \* LOGIN_RATE_LIMIT_WINDOW_SEC
          MaxBuckets,   \* 4096
          LastTick      \* bound

VARIABLES buckets,      \* _login_attempts
          now,
          guesses       \* history: when wrong passwords were checked since the last success

vars == <<buckets, now, guesses>>

NoTimes   == [t \in {} |-> 0]
NoBuckets == [k \in {} |-> NoTimes]

Init == buckets = NoBuckets /\ now = 0 /\ guesses = [k \in Keys |-> NoTimes]

-----------------------------------------------------------------------------
IsFresh(t)   == now - t < Window
Fresh(times) == [t \in {u \in DOMAIN times : IsFresh(u)} |-> times[t]]
WithNow(times) ==
    [t \in DOMAIN times \cup {now} |->
        (IF t \in DOMAIN times THEN times[t] ELSE 0) + (IF t = now THEN 1 ELSE 0)]

Bucket(key) == IF key \in DOMAIN buckets THEN buckets[key] ELSE NoTimes

(* login_is_locked stores what it kept, also for a key it has never seen. *)
Kept(key) == [k \in DOMAIN buckets \cup {key} |-> IF k = key THEN Fresh(Bucket(key)) ELSE buckets[k]]
Looked(key) == IF LOGIN_RATE_LIMIT_ENABLED THEN Kept(key) ELSE buckets
login_is_locked(key) == LOGIN_RATE_LIMIT_ENABLED /\ BagCardinality(Fresh(Bucket(key))) >= MaxAttempts

PurgedWhole(b) ==      \* mutant: the oldest attempt decides over the bucket
    IF Cardinality(DOMAIN b) <= MaxBuckets THEN b
    ELSE LET kept == {k \in DOMAIN b : b[k] # NoTimes /\ IsFresh(Min(DOMAIN b[k]))}
         IN [k \in kept |-> b[k]]

(* Too many buckets: what is stale goes. *)
Purged(b) ==
    IF Cardinality(DOMAIN b) <= MaxBuckets THEN b
    ELSE LET kept == {k \in DOMAIN b : Fresh(b[k]) # NoTimes}
         IN [k \in kept |-> Fresh(b[k])]

_record_login_failure(key) ==
    LET looked == Kept(key)
    IN IF LOGIN_RATE_LIMIT_ENABLED THEN Purged([looked EXCEPT ![key] = WithNow(@)]) ELSE buckets

IsRefused(key) ==
    /\ login_is_locked(key)
    /\ buckets' = Looked(key)
    /\ UNCHANGED <<now, guesses>>

(* The password is wrong, or there is no such account. *)
Fails(key) ==
    /\ ~login_is_locked(key)
    /\ buckets' = _record_login_failure(key)
    /\ guesses' = [guesses EXCEPT ![key] = WithNow(@)]
    /\ UNCHANGED now

(* The password is right, the account deactivated. *)
IsDeactivated(key) ==
    /\ ~login_is_locked(key)
    /\ buckets' = Looked(key)
    /\ UNCHANGED <<now, guesses>>

_clear_login_failures(key) == [k \in DOMAIN buckets \ {key} |-> buckets[k]]

Succeeds(key) ==
    /\ ~login_is_locked(key)
    /\ buckets' = _clear_login_failures(key)
    /\ guesses' = [guesses EXCEPT ![key] = NoTimes]
    /\ UNCHANGED now

Tick ==
    /\ now < LastTick
    /\ now' = now + 1
    /\ UNCHANGED <<buckets, guesses>>

Restart ==
    /\ buckets' = NoBuckets /\ guesses' = [k \in Keys |-> NoTimes]
    /\ UNCHANGED now

login_submit(key) == IsRefused(key) \/ Fails(key) \/ IsDeactivated(key) \/ Succeeds(key)

Next == (\E key \in Keys : login_submit(key)) \/ Tick \/ Restart

Spec == Init /\ [][Next]_vars

-----------------------------------------------------------------------------
(* The limiter forgets nothing it must know and holds nothing against      *)
(* anyone: a login is refused exactly when that many wrong passwords were  *)
(* checked for the key within the window, whatever was purged for others,  *)
(* and never when the limiter is off.                                      *)
LockIsExact ==
    \A key \in Keys :
        login_is_locked(key) <=>
            LOGIN_RATE_LIMIT_ENABLED /\ BagCardinality(Fresh(guesses[key])) >= MaxAttempts
=============================================================================
