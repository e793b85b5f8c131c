--------------------------- MODULE HeartbeatProofs ---------------------------
(***************************************************************************)
(* Proofs about the heartbeat, for any periods, lives and clocks.          *)
(***************************************************************************)
EXTENDS Heartbeat, TLAPS

\* The beat that wrote the key came at key.expires - TTL, in Redis's time.
LastBeat == key.expires - TTL

KeyConsistent == key = NoKey \/ key.ts = LastBeat + skew

\* No beat comes from an indexer that does not run.
BeatsWhileUp ==
  /\ died <= now
  /\ key = NoKey \/ LastBeat <= (IF up THEN now ELSE died)

Timely ==
  /\ up => now <= wake + Delay
  /\ ~up => ~beaten
  /\ beaten => /\ key # NoKey
               /\ wake + Delay <= LastBeat + (misses + 1) * (Period + Delay)

HeartbeatInv == HeartbeatTypeOK /\ KeyConsistent /\ BeatsWhileUp /\ Timely

\* One more miss, one more period.
LEMMA OneMoreMiss ==
  ASSUME NEW m \in Nat, NEW x \in Nat
  PROVE  (m + 1 + 1) * x = (m + 1) * x + x
  OBVIOUS

LEMMA GapBounds ==
  ASSUME NEW m \in Nat, NEW n \in Nat, NEW x \in Nat, m <= n
  PROVE  (m + 1) * x <= (n + 1) * x
<1>1. PICK k \in Nat : n = m + k
  <2>1. n - m \in Nat /\ n = m + (n - m)
    OBVIOUS
  <2> QED BY <2>1
<1>2. (n + 1) * x = (m + 1) * x + k * x
  BY <1>1
<1>3. k * x \in Nat /\ (m + 1) * x \in Nat
  OBVIOUS
<1> QED BY <1>2, <1>3

LEMMA InitInv == Init => HeartbeatInv
<1> SUFFICES ASSUME Init PROVE HeartbeatInv
  OBVIOUS
<1> USE HeartbeatAssumption
<1>1. redis = TRUE /\ up = FALSE /\ beaten = FALSE /\ key = NoKey /\ died <= now
  BY DEF Init
<1>2. redis \in BOOLEAN /\ up \in BOOLEAN /\ beaten \in BOOLEAN
  BY <1>1
<1>3. now \in Nat /\ skew \in Skews /\ key \in [ts : Int, expires : Nat] /\ wake \in Nat
      /\ misses \in 0..MaxMisses /\ died \in Nat
  BY DEF Init, NoKey
<1> QED BY <1>1, <1>2, <1>3 DEF HeartbeatInv, HeartbeatTypeOK, KeyConsistent, BeatsWhileUp, Timely

LEMMA StepType == HeartbeatTypeOK /\ [Next]_vars => HeartbeatTypeOK'
<1> SUFFICES ASSUME HeartbeatTypeOK, [Next]_vars PROVE HeartbeatTypeOK'
  OBVIOUS
<1> USE HeartbeatAssumption DEF HeartbeatTypeOK
<1>1. CASE Beat
  <2>1. now + skew \in Int /\ now + TTL \in Nat /\ now + Period \in Nat
    OBVIOUS
  <2>2. CASE BeatSucceeds
    BY <1>1, <2>1, <2>2 DEF Beat, BeatSucceeds
  <2>3. CASE BeatFails
    BY <1>1, <2>1, <2>3 DEF Beat, BeatFails
  <2> QED BY <1>1, <2>2, <2>3 DEF Beat
<1>2. CASE Tick
  BY <1>2 DEF Tick
<1>3. CASE Crash
  <2>1. redis' \in BOOLEAN /\ up' \in BOOLEAN /\ beaten' \in BOOLEAN
    BY <1>3 DEF Crash
  <2>2. now' = now /\ skew' = skew /\ key' = key /\ wake' = 0 /\ misses' = 0 /\ died' = now
    BY <1>3 DEF Crash
  <2> QED BY <2>1, <2>2
<1>4. CASE Restart
  BY <1>4 DEF Restart
<1>5. CASE Outage
  <2>1. redis' \in BOOLEAN
    BY <1>5 DEF Outage
  <2> QED BY <1>5, <2>1 DEF Outage
<1>6. CASE Recovery
  <2>1. redis' \in BOOLEAN /\ beaten' \in BOOLEAN
    BY <1>6 DEF Recovery
  <2>2. key' \in [ts : Int, expires : Nat]
    BY <1>6 DEF Recovery, NoKey
  <2> QED BY <1>6, <2>1, <2>2 DEF Recovery
<1>7. CASE UNCHANGED vars
  BY <1>7 DEF vars
<1> QED BY <1>1, <1>2, <1>3, <1>4, <1>5, <1>6, <1>7 DEF Next

LEMMA StepInv == HeartbeatInv /\ [Next]_vars => HeartbeatInv'
<1> SUFFICES ASSUME HeartbeatInv, [Next]_vars PROVE HeartbeatInv'
  OBVIOUS
<1>0. HeartbeatTypeOK /\ HeartbeatTypeOK'
  BY StepType DEF HeartbeatInv
<1> USE HeartbeatAssumption DEF HeartbeatInv, HeartbeatTypeOK, KeyConsistent, BeatsWhileUp,
        Timely, LastBeat, NoKey
<1>1. CASE Beat /\ BeatSucceeds
  <2>1. key'.ts = now + skew /\ key'.expires = now + TTL /\ up' = up /\ up /\ now' = now
        /\ wake' = now + Period /\ misses' = 0 /\ skew' = skew /\ beaten' /\ died' = died
    BY <1>1 DEF Beat, BeatSucceeds
  <2>2. (misses' + 1) * (Period + Delay) = Period + Delay
    BY <2>1
  <2> QED BY <1>0, <2>1, <2>2
<1>2. CASE Beat /\ BeatFails
  <2>1. key' = key /\ up' = up /\ up /\ now' = now /\ skew' = skew /\ wake' = now + Period
        /\ misses' = misses + 1 /\ beaten' = beaten /\ died' = died
    BY <1>2 DEF Beat, BeatFails
  <2>2. (misses + 1 + 1) * (Period + Delay)
          = (misses + 1) * (Period + Delay) + (Period + Delay)
    BY OneMoreMiss
  <2>3. (misses + 1) * (Period + Delay) \in Nat
    OBVIOUS
  <2>4. ASSUME beaten
        PROVE wake' + Delay <= LastBeat + (misses + 1 + 1) * (Period + Delay)
    BY <2>1, <2>2, <2>3, <2>4
  <2> QED BY <1>0, <2>1, <2>4
<1>3. CASE Tick
  BY <1>0, <1>3 DEF Tick
<1>4. CASE Crash
  <2>1. ~up' /\ ~beaten' /\ up
    BY <1>4 DEF Crash
  <2>2. key' = key /\ skew' = skew /\ died' = now
    BY <1>4 DEF Crash
  <2>3. now' = now
    BY <1>4 DEF Crash
  <2>4. key = NoKey \/ LastBeat <= now
    BY <2>1
  <2>5. BeatsWhileUp'
    BY <2>1, <2>2, <2>3, <2>4
  <2> QED BY <1>0, <2>1, <2>2, <2>3, <2>5
<1>5. CASE Restart
  <2>1. up' /\ ~up /\ wake' = now /\ now' = now /\ key' = key /\ skew' = skew
    BY <1>5 DEF Restart
  <2>2. ~beaten /\ beaten' = beaten
    BY <1>5, <2>1 DEF Restart
  <2>3. ~beaten'
    BY <2>2
  <2>4. now <= now + Delay
    OBVIOUS
  <2>5. BeatsWhileUp'
    <3>1. died' <= now'
      BY <1>5, <2>1 DEF Restart
    <3> QED BY <1>0, <2>1, <3>1
  <2> QED BY <1>0, <2>1, <2>3, <2>4, <2>5
<1>6. CASE Outage
  BY <1>0, <1>6 DEF Outage
<1>7. CASE Recovery
  <2>1. UNCHANGED <<now, skew, up, wake, misses, died>>
    BY <1>7 DEF Recovery
  <2>2. CASE UNCHANGED <<key, beaten>>
    BY <1>0, <2>1, <2>2
  <2>3. CASE key' = NoKey /\ beaten' = FALSE
    <3>1. ~beaten'
      BY <2>3
    <3>2. key' = NoKey
      BY <2>3
    <3> QED BY <1>0, <2>1, <3>1, <3>2
  <2> QED BY <1>7, <2>2, <2>3 DEF Recovery
<1>8. CASE UNCHANGED vars
  BY <1>0, <1>8 DEF vars
<1> QED BY <1>1, <1>2, <1>3, <1>4, <1>5, <1>6, <1>7, <1>8 DEF Next, Beat

\* A dead indexer is noticed once its last beat is stale or expired.
LEMMA InvDeath == HeartbeatInv => DeathNoticed
<1> SUFFICES ASSUME HeartbeatInv, ~up, now > died + MinOf(StaleAfter + skew, TTL), indexer_ok
             PROVE  FALSE
  BY DEF DeathNoticed
<1> USE HeartbeatAssumption DEF HeartbeatInv, HeartbeatTypeOK
<1>1. key # NoKey /\ LastBeat <= died /\ key.ts = LastBeat + skew
  BY DEF KeyConsistent, BeatsWhileUp, indexer_ok, NoKey
<1>2. now < died + TTL
  BY <1>1 DEF indexer_ok, LastBeat
<1>3. now > died + StaleAfter + skew
  BY <1>2 DEF MinOf
<1> QED BY <1>1, <1>3 DEF indexer_ok, SaturatingSub, LastBeat

LEMMA InvAlarm == HeartbeatInv => NoFalseAlarm
<1> SUFFICES ASSUME HeartbeatInv, redis, up, beaten, Gap < TTL, Gap - skew <= StaleAfter
             PROVE  indexer_ok
  BY DEF NoFalseAlarm
<1> USE HeartbeatAssumption DEF HeartbeatInv, HeartbeatTypeOK
<1>1. (misses + 1) * (Period + Delay) <= Gap /\ Gap \in Nat
  BY GapBounds DEF Gap
<1>2. now <= LastBeat + Gap
  BY <1>1 DEF Timely, LastBeat
<1>3. key.ts = LastBeat + skew
  BY DEF KeyConsistent, Timely
<1> QED BY <1>1, <1>2, <1>3 DEF indexer_ok, SaturatingSub, LastBeat

-----------------------------------------------------------------------------
\* Type correctness of the heartbeat.
THEOREM HeartbeatTyped == Spec => []HeartbeatTypeOK
<1>1. HeartbeatInv => HeartbeatTypeOK
  BY DEF HeartbeatInv
<1> QED BY <1>1, InitInv, StepInv, PTL DEF Spec

\* /health reports an indexer that ended no later than the staler of its last
\* beat and the expiry of the key allow, whatever the clocks say.
THEOREM DeathIsNoticed == Spec => []DeathNoticed
  BY InitInv, StepInv, InvDeath, PTL DEF Spec

\* While Redis answers, /health reports no live indexer as dead whose beats come
\* often enough for the clocks' difference.
THEOREM NoAlarmIsFalse == Spec => []NoFalseAlarm
  BY InitInv, StepInv, InvAlarm, PTL DEF Spec
=============================================================================
