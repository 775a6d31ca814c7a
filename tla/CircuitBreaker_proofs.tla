----------------------- MODULE CircuitBreaker_proofs ------------------------
(***************************************************************************)
(* Proofs about CircuitBreaker, for any sets of keys and callers and any   *)
(* threshold, cooldown and retry count.                                    *)
(***************************************************************************)
EXTENDS CircuitBreaker, TLAPS

\* The breaker keeps no outcomes, only a counter: the counter reaches n exactly when the last n
\* outcomes failed, and the state is tripped exactly when the counter has reached the threshold.
CounterCountsFailures ==
  \A k \in Keys : \A n \in 1..Threshold :
    consecutive_failures[k] >= n <=> \A i \in 1..n : recent[k][i] = "fail"

TrippedAtThreshold ==
  \A k \in Keys : Tripped(k) <=> consecutive_failures[k] >= Threshold

\* A sleeping caller has an attempt left, so the attempt index stays in range.
RetriesLeft == \A c \in Callers : pc[c] = "backoff" => attempt[c] < RetryMax

IInv == TypeOK /\ RetriesLeft /\ CounterCountsFailures /\ TrippedAtThreshold

-----------------------------------------------------------------------------
(* Typing. *)

LEMMA InitTypeOK == Init => TypeOK /\ RetriesLeft
  BY ThresholdAssumption, CooldownAssumption, RetryMaxAssumption, FailureCapAssumption
  DEF Init, TypeOK, RetriesLeft, States, Locations, Outcomes

LEMMA FailuresTyped ==
  ASSUME TypeOK, NEW k \in Keys
  PROVE  /\ FailuresAfter(k) \in 0..FailureCap
         /\ \A n \in 1..Threshold : FailuresAfter(k) >= n <=> consecutive_failures[k] >= n - 1
  BY ThresholdAssumption, FailureCapAssumption DEF TypeOK, FailuresAfter

LEMMA RememberTyped ==
  ASSUME TypeOK, NEW k \in Keys, NEW o \in Outcomes, Remember(k, o)
  PROVE  recent' \in [Keys -> [1..Threshold -> Outcomes]]
<1>1. [i \in 1..Threshold |-> IF i = 1 THEN o ELSE recent[k][i-1]] \in [1..Threshold -> Outcomes]
  BY ThresholdAssumption DEF TypeOK
<1>2. QED
  BY <1>1 DEF TypeOK, Remember

LEMMA NextTypeOK == TypeOK /\ RetriesLeft /\ [Next]_vars => TypeOK' /\ RetriesLeft'
<1> SUFFICES ASSUME TypeOK, RetriesLeft, [Next]_vars PROVE TypeOK' /\ RetriesLeft'
  OBVIOUS
<1> USE ThresholdAssumption, CooldownAssumption, RetryMaxAssumption, FailureCapAssumption,
        KeysAssumption
<1>1. ASSUME NEW c \in Callers, NEW k \in Keys, Begin(c, k) PROVE TypeOK' /\ RetriesLeft'
  <2>1. state' \in [Keys -> States]
    BY <1>1 DEF TypeOK, RetriesLeft, Begin, can_execute, States
  <2>2. fallbacks' \in [Callers -> SUBSET FALLBACK_MODELS]
    BY <1>1 DEF TypeOK, Begin, Behind
  <2>3. /\ pc' \in [Callers -> Locations]
        /\ key' \in [Callers -> Keys \cup {NoKey}]
        /\ attempt' \in [Callers -> 0..RetryMax]
    BY <1>1 DEF TypeOK, RetriesLeft, Begin, Locations
  <2>4. \A d \in Callers : pc'[d] # "idle" => key'[d] \in Keys
    BY <1>1 DEF TypeOK, RetriesLeft, Begin
  <2>5. QED
    BY <1>1, <2>1, <2>2, <2>3, <2>4 DEF TypeOK, RetriesLeft, Begin, can_execute
<1>2. ASSUME NEW c \in Callers, NEW k \in Keys, Refuse(c, k) PROVE TypeOK' /\ RetriesLeft'
  BY <1>2 DEF TypeOK, RetriesLeft, Refuse, breaker, Locations
<1>3. ASSUME NEW c \in Callers, GiveUp(c) PROVE TypeOK' /\ RetriesLeft'
  BY <1>3 DEF TypeOK, RetriesLeft, GiveUp, Returns, breaker, Locations
<1>4. ASSUME NEW c \in Callers, Answered(c) PROVE TypeOK' /\ RetriesLeft'
  BY <1>4 DEF TypeOK, RetriesLeft, Answered, breaker, call, Locations
<1>5. ASSUME NEW c \in Callers, Raised(c) PROVE TypeOK' /\ RetriesLeft'
  BY <1>5 DEF TypeOK, RetriesLeft, Raised, LastAttempt, breaker, call, Locations
<1>6. ASSUME NEW c \in Callers, Retry(c) PROVE TypeOK' /\ RetriesLeft'
  BY <1>6 DEF TypeOK, RetriesLeft, Retry, breaker, Locations
<1>7. ASSUME NEW c \in Callers, Succeed(c) PROVE TypeOK' /\ RetriesLeft'
  <2>1. key[c] \in Keys
    BY <1>7 DEF TypeOK, RetriesLeft, Succeed
  <2>2. recent' \in [Keys -> [1..Threshold -> Outcomes]]
    BY <1>7, <2>1, RememberTyped DEF Succeed, Outcomes
  <2>3. /\ state' \in [Keys -> States]
        /\ consecutive_failures' \in [Keys -> 0..FailureCap]
    BY <1>7, <2>1 DEF TypeOK, Succeed, record_success, States
  <2>4. /\ pc' \in [Callers -> Locations]
        /\ \A d \in Callers : pc'[d] # "idle" => key'[d] \in Keys
        /\ RetriesLeft'
    BY <1>7 DEF TypeOK, RetriesLeft, Succeed, Returns, Locations
  <2>5. QED
    BY <1>7, <2>2, <2>3, <2>4 DEF TypeOK, Succeed, Returns, record_success
<1>8. ASSUME NEW c \in Callers, Fail(c) PROVE TypeOK' /\ RetriesLeft'
  <2>1. key[c] \in Keys
    BY <1>8 DEF TypeOK, RetriesLeft, Fail
  <2>2. recent' \in [Keys -> [1..Threshold -> Outcomes]]
    BY <1>8, <2>1, RememberTyped DEF Fail, Outcomes
  <2>3. FailuresAfter(key[c]) \in 0..FailureCap
    BY <2>1, FailuresTyped
  <2>4. state' \in [Keys -> States]
    BY <1>8, <2>1 DEF TypeOK, Fail, record_failure, States
  <2>5. /\ consecutive_failures' \in [Keys -> 0..FailureCap]
        /\ sinceFailure' \in [Keys -> 0..Cooldown]
    BY <1>8, <2>1, <2>3 DEF TypeOK, Fail, record_failure
  <2>6. /\ pc' \in [Callers -> Locations]
        /\ \A d \in Callers : pc'[d] # "idle" => key'[d] \in Keys
        /\ RetriesLeft'
    BY <1>8 DEF TypeOK, RetriesLeft, Fail, Returns, Locations
  <2>7. QED
    BY <1>8, <2>2, <2>4, <2>5, <2>6 DEF TypeOK, Fail, Returns
<1>9. CASE Tick
  BY <1>9 DEF TypeOK, RetriesLeft, Tick, call
<1>10. ASSUME NEW p \in Providers, Toggle(p) PROVE TypeOK' /\ RetriesLeft'
  BY <1>10 DEF TypeOK, RetriesLeft, Toggle, breaker, call
<1>11. CASE UNCHANGED vars
  BY <1>11 DEF TypeOK, RetriesLeft, vars, breaker, call
<1>12. QED
  BY <1>1, <1>2, <1>3, <1>4, <1>5, <1>6, <1>7, <1>8, <1>9, <1>10, <1>11 DEF Next, Caller

-----------------------------------------------------------------------------
(* The counter and the state follow the outcomes. *)

LEMMA InitCounted == Init => CounterCountsFailures /\ TrippedAtThreshold
  BY ThresholdAssumption
  DEF Init, CounterCountsFailures, TrippedAtThreshold, Tripped

\* A step that leaves the breaker and the recorded outcomes alone preserves both facts.
LEMMA QuietStep ==
  ASSUME CounterCountsFailures, TrippedAtThreshold,
         UNCHANGED <<state, consecutive_failures, recent>>
  PROVE  CounterCountsFailures' /\ TrippedAtThreshold'
  BY DEF CounterCountsFailures, TrippedAtThreshold, Tripped

\* What the last n outcomes are after one more.
LEMMA RememberShifts ==
  ASSUME TypeOK, NEW k \in Keys, NEW o, Remember(k, o)
  PROVE  /\ \A j \in Keys \ {k} : recent'[j] = recent[j]
         /\ recent'[k][1] = o
         /\ \A i \in 2..Threshold : recent'[k][i] = recent[k][i-1]
  BY ThresholdAssumption DEF TypeOK, Remember

LEMMA SucceedCounted ==
  ASSUME IInv, NEW k \in Keys, record_success(k), Remember(k, "ok")
  PROVE  CounterCountsFailures' /\ TrippedAtThreshold'
<1> USE ThresholdAssumption DEF IInv
<1>1. CounterCountsFailures'
  <2> SUFFICES ASSUME NEW j \in Keys, NEW n \in 1..Threshold
               PROVE consecutive_failures'[j] >= n <=> \A i \in 1..n : recent'[j][i] = "fail"
    BY DEF CounterCountsFailures
  <2>1. CASE j # k
    <3>1. consecutive_failures'[j] = consecutive_failures[j]
      BY <2>1 DEF record_success, TypeOK
    <3>2. recent'[j] = recent[j]
      BY <2>1, RememberShifts
    <3>3. QED
      BY <3>1, <3>2 DEF CounterCountsFailures
  <2>2. CASE j = k
    <3>1. consecutive_failures'[k] = 0
      BY DEF record_success, TypeOK
    <3>2. recent'[k][1] = "ok" /\ 1 \in 1..n
      BY RememberShifts
    <3>3. QED
      BY <2>2, <3>1, <3>2
  <2>3. QED
    BY <2>1, <2>2
<1>2. TrippedAtThreshold'
  BY DEF TrippedAtThreshold, Tripped, record_success, TypeOK
<1>3. QED
  BY <1>1, <1>2

LEMMA FailCounted ==
  ASSUME IInv, NEW k \in Keys, record_failure(k), Remember(k, "fail")
  PROVE  CounterCountsFailures' /\ TrippedAtThreshold'
<1> USE ThresholdAssumption, FailureCapAssumption DEF IInv
<1>1. CounterCountsFailures'
  <2> SUFFICES ASSUME NEW j \in Keys, NEW n \in 1..Threshold
               PROVE consecutive_failures'[j] >= n <=> \A i \in 1..n : recent'[j][i] = "fail"
    BY DEF CounterCountsFailures
  <2>1. CASE j # k
    <3>1. consecutive_failures'[j] = consecutive_failures[j]
      BY <2>1 DEF record_failure, TypeOK
    <3>2. recent'[j] = recent[j]
      BY <2>1, RememberShifts
    <3>3. QED
      BY <3>1, <3>2 DEF CounterCountsFailures
  <2>2. CASE j = k
    <3>1. consecutive_failures'[k] >= n <=> consecutive_failures[k] >= n - 1
      BY FailuresTyped DEF record_failure, TypeOK
    <3>2. CASE n = 1
      BY <2>2, <3>1, <3>2, RememberShifts DEF TypeOK
    <3>3. CASE n > 1
      <4>1. consecutive_failures[k] >= n - 1 <=> \A i \in 1..(n-1) : recent[k][i] = "fail"
        BY <3>3 DEF CounterCountsFailures
      <4>2. (\A i \in 1..(n-1) : recent[k][i] = "fail") <=> \A i \in 2..n : recent[k][i-1] = "fail"
        <5>1. ASSUME \A i \in 1..(n-1) : recent[k][i] = "fail", NEW i \in 2..n
              PROVE recent[k][i-1] = "fail"
          BY <5>1
        <5>2. ASSUME \A i \in 2..n : recent[k][i-1] = "fail", NEW i \in 1..(n-1)
              PROVE recent[k][i] = "fail"
          <6>1. i + 1 \in 2..n /\ (i + 1) - 1 = i
            OBVIOUS
          <6>2. QED
            BY <5>2, <6>1
        <5>3. QED
          BY <5>1, <5>2
      <4>3. (\A i \in 2..n : recent[k][i-1] = "fail") <=> \A i \in 1..n : recent'[k][i] = "fail"
        <5>1. \A i \in 2..n : recent'[k][i] = recent[k][i-1]
          BY RememberShifts
        <5>2. recent'[k][1] = "fail"
          BY RememberShifts
        <5>3. \A i \in 1..n : i = 1 \/ i \in 2..n
          OBVIOUS
        <5>4. \A i \in 2..n : i \in 1..n
          OBVIOUS
        <5>5. QED
          BY <5>1, <5>2, <5>3, <5>4
      <4>4. QED
        BY <2>2, <3>1, <4>1, <4>2, <4>3
    <3>4. QED
      BY <3>2, <3>3
  <2>3. QED
    BY <2>1, <2>2
<1>2. TrippedAtThreshold'
  <2>1. FailuresAfter(k) >= Threshold <=> consecutive_failures[k] >= Threshold - 1
    BY FailuresTyped
  <2>2. consecutive_failures[k] \in Nat
    BY DEF TypeOK
  <2>3. QED
    BY <2>1, <2>2 DEF TrippedAtThreshold, Tripped, record_failure, TypeOK
<1>3. QED
  BY <1>1, <1>2

LEMMA NextCounted == IInv /\ [Next]_vars => CounterCountsFailures' /\ TrippedAtThreshold'
<1> SUFFICES ASSUME IInv, [Next]_vars PROVE CounterCountsFailures' /\ TrippedAtThreshold'
  OBVIOUS
<1>1. ASSUME NEW c \in Callers, NEW k \in Keys, Begin(c, k)
      PROVE CounterCountsFailures' /\ TrippedAtThreshold'
  <2>1. CounterCountsFailures'
    BY <1>1 DEF IInv, CounterCountsFailures, Begin, can_execute
  <2>2. TrippedAtThreshold'
    BY <1>1 DEF IInv, TypeOK, TrippedAtThreshold, Tripped, Begin, can_execute
  <2>3. QED
    BY <2>1, <2>2
<1>2. ASSUME NEW c \in Callers, Succeed(c)
      PROVE CounterCountsFailures' /\ TrippedAtThreshold'
  BY <1>2, SucceedCounted DEF IInv, TypeOK, Succeed
<1>3. ASSUME NEW c \in Callers, Fail(c)
      PROVE CounterCountsFailures' /\ TrippedAtThreshold'
  BY <1>3, FailCounted DEF IInv, TypeOK, Fail
<1>4. CASE \/ \E c \in Callers : \/ \E k \in Keys : Refuse(c, k)
                                \/ GiveUp(c) \/ Answered(c) \/ Raised(c) \/ Retry(c)
           \/ Tick
           \/ \E p \in Providers : Toggle(p)
           \/ UNCHANGED vars
  <2>1. UNCHANGED <<state, consecutive_failures, recent>>
    BY <1>4 DEF Refuse, GiveUp, Answered, Raised, Retry, Tick, Toggle, breaker, vars
  <2>2. QED
    BY <2>1, QuietStep DEF IInv
<1>5. QED
  BY <1>1, <1>2, <1>3, <1>4 DEF Next, Caller

-----------------------------------------------------------------------------

\* The breaker's state, counter and clock, and every caller's place in its call, stay in range.
THEOREM TypeCorrect == Spec => []TypeOK
<1>1. Init => TypeOK /\ RetriesLeft
  BY InitTypeOK
<1>2. TypeOK /\ RetriesLeft /\ [Next]_vars => (TypeOK /\ RetriesLeft)'
  BY NextTypeOK
<1>3. QED
  BY <1>1, <1>2, PTL DEF Spec

\* However the callers' steps interleave, a circuit is open or half-open exactly when the last
\* Threshold outcomes recorded for its key all failed.  In particular the branch of
\* record_failure for a half-open circuit below the threshold (circuit_breaker.py:102) is dead.
THEOREM TripsCorrectly == Spec => []TripsOnConsecutiveFailures
<1>1. Init => IInv
  BY InitTypeOK, InitCounted DEF IInv
<1>2. IInv /\ [Next]_vars => IInv'
  BY NextTypeOK, NextCounted DEF IInv
<1>3. IInv => TripsOnConsecutiveFailures
  <2> SUFFICES ASSUME IInv, NEW k \in Keys PROVE Tripped(k) <=> AllFailed(k)
    BY DEF TripsOnConsecutiveFailures
  <2>1. Threshold \in 1..Threshold
    BY ThresholdAssumption
  <2>2. consecutive_failures[k] >= Threshold <=> AllFailed(k)
    BY <2>1 DEF IInv, CounterCountsFailures, AllFailed
  <2>3. QED
    BY <2>2 DEF IInv, TrippedAtThreshold
<1>4. QED
  BY <1>1, <1>2, <1>3, PTL DEF Spec
=============================================================================
