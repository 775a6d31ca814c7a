--------------------------- MODULE CircuitBreaker ---------------------------
(***************************************************************************)
(* The per-key circuit breaker in front of the LLM providers               *)
(* (llm/circuit_breaker.py) and the two kinds of code that drive it: the   *)
(* retrying wrapper around litellm's completion                            *)
(* (_completion_with_breaker) and the single-attempt Ollama calls of       *)
(* llm/local_llm.py.                                                       *)
(*                                                                         *)
(* Callers are threads.  CircuitBreaker._lock makes can_execute,           *)
(* record_success and record_failure atomic; nothing is held while the     *)
(* provider is being called, so every other caller's step may come between *)
(* a caller's admission and the record of its outcome.                     *)
(*                                                                         *)
(* complete_structured has Instructor call the wrapper and hands LiteLLM a *)
(* list of fallbacks: an attempt that fails at the model goes on to them,  *)
(* and is one step here.  A stream knows no fallbacks.  Instructor calls   *)
(* the wrapper again after an exception or an answer that does not         *)
(* validate, which is one more call of the same caller.                    *)
(*                                                                         *)
(* time.monotonic() - last_failure_ts is kept as the age of the last       *)
(* failure, saturated at Cooldown: the code only ever asks whether it has  *)
(* reached the cooldown.  The failure counter saturates at FailureCap for  *)
(* the same reason.  A circuit that never failed is long past its cooldown *)
(* (last_failure_ts = 0.0).                                                *)
(***************************************************************************)
EXTENDS Naturals

CONSTANTS
  Keys,         \* model ids, and "ollama"
  LocalKeys,    \* the keys called through local_llm: one attempt per call
  FALLBACK_MODELS,  \* models tried behind the one that was asked for
  Callers,      \* threads that may call an LLM
  Threshold,    \* failure_threshold
  Cooldown,     \* cooldown_seconds, in ticks
  RetryMax,     \* _LLM_RETRY_MAX
  NoKey,        \* "no call yet"
  FailureCap    \* bound: where the failure counter saturates

ASSUME KeysAssumption == LocalKeys \subseteq Keys /\ NoKey \notin Keys
ASSUME ThresholdAssumption == Threshold \in Nat \ {0}
ASSUME CooldownAssumption == Cooldown \in Nat
ASSUME RetryMaxAssumption == RetryMax \in Nat
ASSUME FailureCapAssumption == FailureCap \in Nat /\ FailureCap >= Threshold

VARIABLES
  state,                 \* key -> "absent" (not in _states) or its state
  consecutive_failures,  \* key -> saturated counter
  sinceFailure,          \* key -> ticks since last_failure_ts, saturated
  up,                    \* key -> does the provider answer now?
  pc,                    \* caller -> where it is in its call
  key,                   \* caller -> the key it calls
  fallbacks,             \* caller -> the models behind it
  attempt,               \* caller -> index of the attempt it is making
  recent                 \* history: key -> its last Threshold outcomes, newest first

breaker == <<state, consecutive_failures, sinceFailure>>
call == <<key, fallbacks, attempt>>
vars == <<breaker, up, pc, call, recent>>

States == {"absent", "closed", "half_open", "open"}
Providers == Keys \cup FALLBACK_MODELS
Outcomes == {"none", "ok", "fail"}
Locations == {"idle", "refused", "calling", "backoff", "ok", "failed"}

TypeOK ==
  /\ state \in [Keys -> States]
  /\ consecutive_failures \in [Keys -> 0..FailureCap]
  /\ sinceFailure \in [Keys -> 0..Cooldown]
  /\ up \in [Providers -> BOOLEAN]
  /\ pc \in [Callers -> Locations]
  /\ key \in [Callers -> Keys \cup {NoKey}]
  /\ fallbacks \in [Callers -> SUBSET FALLBACK_MODELS]
  /\ \A c \in Callers : pc[c] # "idle" => key[c] \in Keys
  /\ attempt \in [Callers -> 0..RetryMax]
  /\ recent \in [Keys -> [1..Threshold -> Outcomes]]

Init ==
  /\ state = [k \in Keys |-> "absent"]
  /\ consecutive_failures = [k \in Keys |-> 0]
  /\ sinceFailure = [k \in Keys |-> Cooldown]
  /\ up \in [Providers -> BOOLEAN]
  /\ pc = [c \in Callers |-> "idle"]
  /\ key = [c \in Callers |-> NoKey]
  /\ fallbacks = [c \in Callers |-> {}]
  /\ attempt = [c \in Callers |-> 0]
  /\ recent = [k \in Keys |-> [i \in 1..Threshold |-> "none"]]

-----------------------------------------------------------------------------
(* The breaker's three operations, each one critical section of _lock.     *)

Executable(k) == state[k] # "open" \/ sinceFailure[k] >= Cooldown

can_execute(k) ==
  /\ Executable(k)
  /\ state' = [state EXCEPT ![k] = IF @ = "open" THEN "half_open" ELSE @]
  /\ UNCHANGED <<consecutive_failures, sinceFailure>>

\* Faulty variant: closes the circuit but keeps the count.
record_success_keeps_count(k) ==
  /\ state' = [state EXCEPT ![k] = IF @ = "absent" THEN @ ELSE "closed"]
  /\ UNCHANGED <<consecutive_failures, sinceFailure>>

record_success(k) ==
  /\ state' = [state EXCEPT ![k] = IF @ = "absent" THEN @ ELSE "closed"]
  /\ consecutive_failures' = [consecutive_failures EXCEPT ![k] = 0]
  /\ UNCHANGED sinceFailure

FailuresAfter(k) ==
  IF consecutive_failures[k] < FailureCap THEN consecutive_failures[k] + 1 ELSE FailureCap

record_failure(k) ==
  /\ consecutive_failures' = [consecutive_failures EXCEPT ![k] = FailuresAfter(k)]
  /\ sinceFailure' = [sinceFailure EXCEPT ![k] = 0]
  /\ state' = [state EXCEPT ![k] =
                 IF FailuresAfter(k) >= Threshold \/ @ = "half_open" THEN "open"
                 ELSE IF @ = "absent" THEN "closed" ELSE @]

Remember(k, outcome) ==
  recent' = [recent EXCEPT ![k] = [i \in 1..Threshold |-> IF i = 1 THEN outcome ELSE @[i-1]]]

-----------------------------------------------------------------------------
(* A caller: _completion_with_breaker, or classify / simple_answer.        *)

\* Faulty variant: one attempt too many.
LastAttempt_off_by_one(k) == RetryMax + 1

LastAttempt(k) == IF k \in LocalKeys THEN 0 ELSE RetryMax

\* complete_structured has fallbacks, stream_completion and local_llm have none.
Behind(k) == IF k \in LocalKeys THEN {{}} ELSE {{}, FALLBACK_MODELS \ {k}}

Begin(c, k) ==
  /\ pc[c] = "idle"
  /\ can_execute(k)
  /\ pc' = [pc EXCEPT ![c] = "calling"]
  /\ key' = [key EXCEPT ![c] = k]
  /\ \E fs \in Behind(k) : fallbacks' = [fallbacks EXCEPT ![c] = fs]
  /\ UNCHANGED <<up, attempt, recent>>

Returns(c) ==
  /\ pc' = [pc EXCEPT ![c] = "idle"]
  /\ key' = [key EXCEPT ![c] = NoKey]
  /\ fallbacks' = [fallbacks EXCEPT ![c] = {}]
  /\ attempt' = [attempt EXCEPT ![c] = 0]

\* "Circuit breaker open for model ...": the wrapper raises, local_llm returns its default.
Refuse(c, k) ==
  /\ pc[c] = "idle"
  /\ ~Executable(k)
  /\ pc' = [pc EXCEPT ![c] = "refused"]
  /\ key' = [key EXCEPT ![c] = k]
  /\ UNCHANGED <<breaker, up, fallbacks, attempt, recent>>

\* The fallbacks are behind the wrapper: nobody asks them now.
GiveUp(c) ==
  /\ pc[c] = "refused"
  /\ Returns(c)
  /\ UNCHANGED <<breaker, up, recent>>

\* Faulty variant: the list of fallbacks is not passed on.
SomeoneAnswers_model_only(c) == up[key[c]]

SomeoneAnswers(c) == \E p \in {key[c]} \cup fallbacks[c] : up[p]

Answered(c) ==
  /\ pc[c] = "calling"
  /\ SomeoneAnswers(c)
  /\ pc' = [pc EXCEPT ![c] = "ok"]
  /\ UNCHANGED <<breaker, up, call, recent>>

\* An exception (or, for Ollama, no parsable reply): sleep and retry, or stop.
Raised(c) ==
  /\ pc[c] = "calling"
  /\ ~SomeoneAnswers(c)
  /\ pc' = [pc EXCEPT ![c] = IF attempt[c] < LastAttempt(key[c]) THEN "backoff" ELSE "failed"]
  /\ UNCHANGED <<breaker, up, call, recent>>

\* Faulty variant: the attempts are not counted.
Retry_uncounted(c) ==
  /\ pc[c] = "backoff"
  /\ pc' = [pc EXCEPT ![c] = "calling"]
  /\ UNCHANGED <<breaker, up, call, recent>>

Retry(c) ==
  /\ pc[c] = "backoff"
  /\ attempt' = [attempt EXCEPT ![c] = @ + 1]
  /\ pc' = [pc EXCEPT ![c] = "calling"]
  /\ UNCHANGED <<breaker, up, key, fallbacks, recent>>

\* Whoever answered: the model that was asked for has succeeded.
Succeed(c) ==
  /\ pc[c] = "ok"
  /\ record_success(key[c])
  /\ Remember(key[c], "ok")
  /\ Returns(c)
  /\ UNCHANGED up

Fail(c) ==
  /\ pc[c] = "failed"
  /\ record_failure(key[c])
  /\ Remember(key[c], "fail")
  /\ Returns(c)
  /\ UNCHANGED up

Caller(c) ==
  \/ \E k \in Keys : Begin(c, k) \/ Refuse(c, k)
  \/ GiveUp(c) \/ Answered(c) \/ Raised(c) \/ Retry(c) \/ Succeed(c) \/ Fail(c)

-----------------------------------------------------------------------------
(* The environment.                                                        *)

Tick ==
  /\ sinceFailure' = [k \in Keys |-> IF sinceFailure[k] < Cooldown THEN sinceFailure[k] + 1
                                     ELSE Cooldown]
  /\ UNCHANGED <<state, consecutive_failures, up, pc, call, recent>>

Toggle(p) ==
  /\ up' = [up EXCEPT ![p] = ~@]
  /\ UNCHANGED <<breaker, pc, call, recent>>

Next ==
  \/ \E c \in Callers : Caller(c)
  \/ Tick
  \/ \E p \in Providers : Toggle(p)

Spec == Init /\ [][Next]_vars

\* A begun call runs on: every completion returns or raises (litellm and urllib time out),
\* a sleep ends, and the clock advances.  Nobody is obliged to begin a call.
Running(c) == GiveUp(c) \/ Answered(c) \/ Raised(c) \/ Retry(c) \/ Succeed(c) \/ Fail(c)

Fairness == WF_vars(Tick) /\ \A c \in Callers : WF_vars(Running(c))

FairSpec == Spec /\ Fairness

-----------------------------------------------------------------------------
(* Properties.                                                             *)

\* The circuit of a key is out of "closed" exactly when the last Threshold outcomes recorded
\* for that key, by whichever threads and in whatever order their calls began, all failed.
\* (circuit_breaker.py, "After failure_threshold consecutive failures, state becomes open".)
Tripped(k) == state[k] \in {"open", "half_open"}

AllFailed(k) == \A i \in 1..Threshold : recent[k][i] = "fail"

TripsOnConsecutiveFailures == \A k \in Keys : Tripped(k) <=> AllFailed(k)

\* Every call that begins comes back to its caller, after at most RetryMax + 1 attempts.
CallReturns == \A c \in Callers : pc[c] # "idle" ~> pc[c] = "idle"

\* "Call LLM with fallbacks" (router.py:729): once one provider that stands for a key, the
\* model itself or a fallback, answers for good and callers keep asking, its circuit closes
\* for good, though the model may stay down.  No interleaving of late failures keeps it
\* shut; only streams of a model that is down, which have nobody behind them, could.
Asked(k) == \E c \in Callers : key[c] = k /\ pc[c] \in {"refused", "calling"}

AskedAlone(k) == \E c \in Callers : key[c] = k /\ fallbacks[c] = {} /\ pc[c] # "refused"

StandIns(k) == IF k \in LocalKeys THEN {} ELSE FALLBACK_MODELS \ {k}

Recovers ==
  \A k \in Keys : \A p \in {k} \cup StandIns(k) :
    /\ <>[]up[p]
    /\ []<>Asked(k)
    /\ p # k => <>[]~AskedAlone(k)
    => <>[](~Tripped(k))

\* The class docstring: "Then half_open: one trial allowed" (circuit_breaker.py:34), and the
\* comment "half_open: allow exactly one trial" (circuit_breaker.py:70).  The trial is the call
\* that found the cooldown over; until its outcome is recorded no other call may begin.
BeginsCall(c, k) == pc[c] = "idle" /\ pc'[c] = "calling" /\ key'[c] = k

OneTrial ==
  [][\A c \in Callers, k \in Keys : state[k] = "half_open" => ~BeginsCall(c, k)]_vars
=============================================================================
