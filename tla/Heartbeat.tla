------------------------------ MODULE Heartbeat ------------------------------
(***************************************************************************)
(* How the frontend learns that the indexer is alive: a task of the        *)
(* indexer writes the time to a key of Redis that expires, and the backend *)
(* compares what it reads with its own clock.                              *)
(***************************************************************************)
EXTENDS Integers

CONSTANTS
  Period,     \* seconds between two beats: 10
  TTL,        \* seconds after which the key expires: 60
  StaleAfter, \* STALE_AFTER_SECS: 30
  Delay,      \* bound: how late a beat may come
  MaxMisses,  \* bound: beats that fail one after another, so that of an outage too
  Skews,      \* what the indexer's clock may be ahead of the backend's
  MaxTime     \* bound: the last second that is looked at

ASSUME HeartbeatAssumption ==
  /\ Period \in Nat \ {0} /\ TTL \in Nat \ {0} /\ StaleAfter \in Nat
  /\ Delay \in Nat /\ MaxMisses \in Nat
  /\ Skews \subseteq Int /\ MaxTime \in Nat

VARIABLES
  now,     \* the time of the backend and of Redis
  skew,    \* how much the indexer's clock is ahead
  key,     \* the value last written to indexer:heartbeat, and when it expires
  redis,   \* whether Redis answers
  up,      \* whether the indexer runs
  wake,    \* when the task is to beat next
  misses,  \* history: beats that failed since the last that did not
  beaten,  \* history: whether a beat succeeded since the start, and since Redis
           \* last lost the key
  died     \* history: when the indexer last ended

vars == <<now, skew, key, redis, up, wake, misses, beaten, died>>

NoKey == [ts |-> 0, expires |-> 0]   \* nothing is there from second 0 on

\* Wrong on purpose: set, not set_ex.
BeatForEver ==
  /\ redis /\ key' = [ts |-> now + skew, expires |-> MaxTime + 1]
  /\ misses' = 0 /\ beaten' = TRUE

\* set_ex: the indexer's time, for TTL seconds of Redis.
BeatSucceeds ==
  /\ redis /\ key' = [ts |-> now + skew, expires |-> now + TTL]
  /\ misses' = 0 /\ beaten' = TRUE

BeatFails ==
  /\ misses < MaxMisses /\ misses' = misses + 1
  /\ UNCHANGED <<key, beaten>>

\* No Redis, no beat; the task sleeps all the same.
Beat ==
  /\ up /\ now >= wake
  /\ BeatSucceeds \/ BeatFails
  /\ wake' = now + Period
  /\ UNCHANGED <<now, skew, redis, up, died>>

\* A beat that is due is not put off for longer than Delay.
Tick ==
  /\ now < MaxTime /\ (up => now < wake + Delay)
  /\ now' = now + 1
  /\ UNCHANGED <<skew, key, redis, up, wake, misses, beaten, died>>

Crash ==
  /\ up /\ up' = FALSE
  /\ wake' = 0 /\ misses' = 0 /\ beaten' = FALSE /\ died' = now
  /\ UNCHANGED <<now, skew, key, redis>>

\* The task beats before it sleeps for the first time.
Restart ==
  /\ ~up /\ up' = TRUE
  /\ wake' = now /\ died' = 0
  /\ UNCHANGED <<now, skew, key, redis, misses, beaten>>

\* Redis goes away, and comes back with the key or, as it may have been in
\* memory only, without it.
Outage ==
  /\ redis /\ redis' = FALSE
  /\ UNCHANGED <<now, skew, key, up, wake, misses, beaten, died>>

Recovery ==
  /\ ~redis /\ redis' = TRUE
  /\ \/ UNCHANGED <<key, beaten>>
     \/ key' = NoKey /\ beaten' = FALSE
  /\ UNCHANGED <<now, skew, up, wake, misses, died>>

Init ==
  /\ now = 0 /\ skew \in Skews
  /\ key = NoKey /\ redis = TRUE /\ up = FALSE /\ wake = 0
  /\ misses = 0 /\ beaten = FALSE /\ died = 0

Next == Beat \/ Tick \/ Crash \/ Restart \/ Outage \/ Recovery

Spec == Init /\ [][Next]_vars

-----------------------------------------------------------------------------
\* Wrong on purpose: a difference below zero wraps around.
WrappingSub(a, b) == IF a >= b THEN a - b ELSE 1000000 + a - b

SaturatingSub(a, b) == IF a >= b THEN a - b ELSE 0

\* health_handler: 200 if this holds, 503 otherwise.  A connection or a GET that
\* fails gives None, and so does a key that is not there.
indexer_ok ==
  redis /\ now < key.expires /\ SaturatingSub(now, key.ts) <= StaleAfter

-----------------------------------------------------------------------------
\* The type invariant.
HeartbeatTypeOK ==
  /\ now \in Nat /\ skew \in Skews /\ key \in [ts : Int, expires : Nat]
  /\ redis \in BOOLEAN /\ up \in BOOLEAN /\ wake \in Nat /\ misses \in 0..MaxMisses
  /\ beaten \in BOOLEAN /\ died \in Nat

MinOf(a, b) == IF a <= b THEN a ELSE b

\* An indexer that ended is noticed as soon as its last beat is stale or the
\* key has expired, whichever comes first: a clock that is ahead delays it, but
\* never past the key's life.
DeathNoticed ==
  ~up /\ now > died + MinOf(StaleAfter + skew, TTL) => ~indexer_ok

\* Between two beats that succeed there are at most this many seconds.
Gap == (MaxMisses + 1) * (Period + Delay)

\* While Redis answers, as long as the beats come and the clocks agree well
\* enough, a live indexer is not reported dead: a short outage that made a beat
\* fail raises no alarm once it is over.
NoFalseAlarm ==
  redis /\ up /\ beaten /\ Gap < TTL /\ Gap - skew <= StaleAfter => indexer_ok
=============================================================================
