---------------------------- MODULE LlmRequests ----------------------------
(***************************************************************************)
(* Everything that asks a model for text (llm/router.py) against the two   *)
(* databases those requests share across threads and processes: the ledger *)
(* of calls with their cost (core/metrics.py, metrics.db) that the daily   *)
(* budget is read from, and the response cache (llm/cache.py).             *)
(*                                                                         *)
(* A requester is a thread of the daemon, of the web server or of a CLI    *)
(* process.  Each database operation opens its own connection and commits  *)
(* on its own, so it is one step, and steps of different requesters        *)
(* interleave.  No transaction spans the check of the budget, the call and *)
(* the record of its cost.                                                 *)
(*                                                                         *)
(* A prompt stands for the hash of its messages, its model and its schema; *)
(* of a paid answer only this is kept: whether its row is in the ledger.   *)
(* Time is in ticks, DayLength of them to a UTC day; costs are integers.   *)
(* The retries inside one call are module CircuitBreaker's subject and one *)
(* step here.                                                              *)
(***************************************************************************)
EXTENDS Integers, FiniteSets

CONSTANTS
  Requesters,   \* threads that may issue a request
  Meetings,     \* prompts of meeting analyses
  Cards,        \* prompts of copilot cards and refinements
  Others,       \* prompts of live summaries and status updates
  NoPrompt,
  Limit,        \* daily_budget_limit_usd; 0: no limit
  MaxCost,      \* the most one call is recorded to cost
  TTL,          \* response_cache_ttl_seconds; 0: no cache
  DayLength,
  LastDay,      \* bound: the clock stops at the end of this day
  MaxCalls,     \* bound: paid answers
  MaxFaults     \* bound: reads of the ledger that fail

ASSUME LimitAssumption == Limit \in Nat /\ MaxCost \in Nat /\ TTL \in Nat
Prompts == Meetings \cup Cards \cup Others

ASSUME RequestersAssumption == IsFiniteSet(Requesters)
ASSUME TimeAssumption == DayLength \in Nat \ {0} /\ LastDay \in Nat
ASSUME BoundsAssumption == MaxCalls \in Nat /\ MaxFaults \in Nat

VARIABLES
  day, hour,  \* UTC date and ticks since its midnight
  recorded,   \* day -> sum of cost_usd over the rows of llm_calls of that day
  cache,      \* response_cache: prompt -> {} or {[answer, day, hour]}
  calls,      \* paid answers so far
  faults,     \* history: times get_cost_today could not read the ledger
  pc,         \* requester -> where it is
  prompt,     \* requester -> what it asks
  answer,     \* requester -> the paid answer it holds
  price,      \* requester -> what its own call cost
  report      \* cost total a report under way has read; {}: none

clock == <<day, hour>>
mine == <<prompt, answer, price>>
vars == <<clock, recorded, cache, calls, faults, pc, mine, report>>

Days == 0..LastDay
Answers == {"none", "unrecorded", "recorded"}
Row == [answer : Answers \ {"none"}, day : Days, hour : 0..DayLength-1]
Locations == {"idle", "faq", "streamFaq", "stream", "precheck", "lookup", "expired", "budget",
              "call", "record", "store", "served"}

\* What a call is recorded to cost: nothing when litellm cannot price it.
Prices == 0..MaxCost

TypeOK ==
  /\ day \in Days /\ hour \in 0..DayLength-1
  /\ recorded \in [Days -> Nat]
  /\ \A p \in Prompts : cache[p] \subseteq Row /\ Cardinality(cache[p]) <= 1
  /\ calls \in 0..MaxCalls /\ faults \in 0..MaxFaults
  /\ pc \in [Requesters -> Locations]
  /\ prompt \in [Requesters -> Prompts \cup {NoPrompt}]
  /\ answer \in [Requesters -> Answers]
  /\ price \in [Requesters -> Prices]
  /\ report \subseteq Nat /\ Cardinality(report) <= 1

Init ==
  /\ day = 0 /\ hour = 0
  /\ recorded = [d \in Days |-> 0]
  /\ cache = [p \in Prompts |-> {}]
  /\ calls = 0 /\ faults = 0
  /\ pc = [r \in Requesters |-> "idle"]
  /\ prompt = [r \in Requesters |-> NoPrompt]
  /\ answer = [r \in Requesters |-> "none"]
  /\ price = [r \in Requesters |-> 0]
  /\ report = {}

-----------------------------------------------------------------------------
(* What the requests are built from.                                       *)

Goto(r, l) == pc' = [pc EXCEPT ![r] = l]

Age(row) == (day - row.day) * DayLength + hour - row.hour

Expired(row) == Age(row) > TTL

\* What the rows of some days add up to, counted unit by unit.
CostOf(days) == Cardinality(UNION {{d} \X (1..recorded[d]) : d \in days})

\* The cost a reader of the ledger sees: an OperationalError reads as nothing spent.
CostToday(seen) ==
  \/ seen = recorded[day] /\ UNCHANGED faults
  \/ faults < MaxFaults /\ seen = 0 /\ faults' = faults + 1

\* Faulty variant: the limit is compared after it has been passed.
WithinBudget_strict(seen) == Limit > 0 => seen <= Limit

WithinBudget(seen) == Limit > 0 => seen < Limit

\* The request ends without an answer the ledger knows; nothing stored is undone.
Ends(r) ==
  /\ Goto(r, "idle")
  /\ prompt' = [prompt EXCEPT ![r] = NoPrompt]
  /\ answer' = [answer EXCEPT ![r] = "none"]
  /\ price' = [price EXCEPT ![r] = 0]
  /\ UNCHANGED <<clock, recorded, cache, calls, faults, report>>

-----------------------------------------------------------------------------
(* The requests.                                                           *)

Ask(r, prompts, first) ==
  /\ pc[r] \in {"idle", "served"}
  /\ \E p \in prompts : prompt' = [prompt EXCEPT ![r] = p]
  /\ Goto(r, first)
  /\ answer' = [answer EXCEPT ![r] = "none"]
  /\ UNCHANGED <<clock, recorded, cache, calls, faults, price, report>>

\* analyze_meeting: a local model may answer a simple question for nothing.
analyze_meeting(r) == Ask(r, Meetings, "faq")

\* The same with a stream callback, as the daemon asks.
analyze_meeting_stream(r) == Ask(r, Meetings, "streamFaq")

analyze_live_summary(r) == Ask(r, Others, "lookup")

\* With action items; without any it returns an empty answer and does nothing.
update_action_item_statuses(r) == Ask(r, Others, "lookup")

\* daily-report --llm calls litellm itself, and takes no answer for an empty one.
daily_report(r) == Ask(r, Others, "stream")

\* Fast and deep cards look at budget and network first, ...
CopilotCards(r) == Ask(r, Cards, "precheck")

\* ... and so does the refinement of an answer, which the daemon's event loop waits for.
refine_copilot_answer(r) == Ask(r, Cards, "precheck")

\* Ollama's reply is never kept and costs nothing; without one, or when the
\* attempt raises, the request goes on to the remote model.
TryOllama(r) ==
  /\ pc[r] \in {"faq", "streamFaq"}
  /\ \/ Ends(r)
     \/ /\ Goto(r, IF pc[r] = "faq" THEN "lookup" ELSE "stream")
        /\ UNCHANGED <<clock, recorded, cache, calls, faults, mine, report>>

\* stream_completion, or litellm itself: no budget, no cache and no ledger; its
\* answer, an empty one or a parse error goes to the caller.
Stream(r) == pc[r] = "stream" /\ Ends(r)

CardBudget(r) ==
  /\ pc[r] = "precheck"
  /\ \E seen \in {0, recorded[day]} : CostToday(seen) /\ WithinBudget(seen)
  /\ Goto(r, "lookup")
  /\ UNCHANGED <<clock, recorded, cache, calls, mine, report>>

-----------------------------------------------------------------------------
(* complete_structured.                                                    *)

\* cache.get found a row within its time to live.
Hit(r) ==
  /\ pc[r] = "lookup" /\ TTL > 0
  /\ \E row \in cache[prompt[r]] : ~Expired(row) /\ answer' = [answer EXCEPT ![r] = row.answer]
  /\ Goto(r, "served")
  /\ prompt' = [prompt EXCEPT ![r] = NoPrompt]
  /\ UNCHANGED <<clock, recorded, cache, calls, faults, price, report>>

Miss(r) ==
  /\ pc[r] = "lookup"
  /\ \/ (TTL = 0 \/ cache[prompt[r]] = {}) /\ Goto(r, "budget")
     \/ TTL > 0 /\ (\E row \in cache[prompt[r]] : Expired(row)) /\ Goto(r, "expired")
  /\ UNCHANGED <<clock, recorded, cache, calls, faults, mine, report>>

\* The DELETE is by key: it also takes a row stored since the SELECT.
DropExpired(r) ==
  /\ pc[r] = "expired"
  /\ cache' = [cache EXCEPT ![prompt[r]] = {}]
  /\ Goto(r, "budget")
  /\ UNCHANGED <<clock, recorded, calls, faults, mine, report>>

CheckBudget(r) ==
  /\ pc[r] = "budget"
  /\ \E seen \in {0, recorded[day]} : CostToday(seen) /\ WithinBudget(seen)
  /\ Goto(r, "call")
  /\ UNCHANGED <<clock, recorded, cache, calls, mine, report>>

\* Faulty variant: the model tried first is charged as well as the fallback that answered.
Completion_both_charged(r) ==
  /\ pc[r] = "call" /\ calls < MaxCalls
  /\ calls' = calls + 1
  /\ answer' = [answer EXCEPT ![r] = "unrecorded"]
  /\ \E c, d \in Prices : price' = [price EXCEPT ![r] = c + d]
  /\ Goto(r, "record")
  /\ UNCHANGED <<clock, recorded, cache, faults, prompt, report>>

Completion(r) ==
  /\ pc[r] = "call" /\ calls < MaxCalls
  /\ calls' = calls + 1
  /\ answer' = [answer EXCEPT ![r] = "unrecorded"]
  /\ \E c \in Prices : price' = [price EXCEPT ![r] = c]
  /\ Goto(r, "record")
  /\ UNCHANGED <<clock, recorded, cache, faults, prompt, report>>

\* Faulty variant: the day has one figure, and a call sets it.
Charge_overwrites(r) ==
  /\ recorded' = [recorded EXCEPT ![day] = price[r]]
  /\ answer' = [answer EXCEPT ![r] = "recorded"]

Charge(r) ==
  /\ recorded' = [recorded EXCEPT ![day] = @ + price[r]]
  /\ answer' = [answer EXCEPT ![r] = "recorded"]

\* Faulty variant: a row that cannot be written is swallowed, as log_api_key_access does.
log_llm_call_swallows(r) ==
  /\ pc[r] = "record" /\ Goto(r, "store")
  /\ Charge(r) \/ UNCHANGED <<recorded, answer>>
  /\ UNCHANGED <<clock, cache, calls, faults, prompt, price, report>>

log_llm_call(r) ==
  /\ pc[r] = "record" /\ Goto(r, "store")
  /\ Charge(r)
  /\ UNCHANGED <<clock, cache, calls, faults, prompt, price, report>>

\* INSERT OR REPLACE and its commit, then the purge, which may fail quietly.
Store(r) ==
  /\ pc[r] = "store" /\ Goto(r, "served")
  /\ prompt' = [prompt EXCEPT ![r] = NoPrompt]
  /\ price' = [price EXCEPT ![r] = 0]
  /\ IF TTL = 0 THEN UNCHANGED cache ELSE
     \E purged \in BOOLEAN : cache' = [p \in Prompts |->
       IF p = prompt[r] THEN {[answer |-> answer[r], day |-> day, hour |-> hour]}
       ELSE IF purged THEN {row \in cache[p] : ~Expired(row)} ELSE cache[p]]
  /\ UNCHANGED <<clock, recorded, calls, faults, answer, report>>

\* A refusal of the budget or of the network, a failed call, a database that
\* cannot be written or the end of the process: wherever it happens, what the
\* earlier steps committed stays.
Fails(r) == pc[r] \notin {"idle", "served"} /\ Ends(r)

-----------------------------------------------------------------------------
(* get_stats and get_stats_range, over a window that holds every day here. *)

ReadTotals ==
  /\ report = {} /\ report' = {CostOf(Days)}
  /\ UNCHANGED <<clock, recorded, cache, calls, faults, pc, mine>>

ReadDays ==
  /\ report # {} /\ report' = {}
  /\ UNCHANGED <<clock, recorded, cache, calls, faults, pc, mine>>

\* voiceforge cost, from --from to --to or over the last --days.
cost == ReadTotals \/ ReadDays

-----------------------------------------------------------------------------
Tick ==
  /\ IF hour + 1 < DayLength THEN hour' = hour + 1 /\ UNCHANGED day
     ELSE day < LastDay /\ day' = day + 1 /\ hour' = 0
  /\ UNCHANGED <<recorded, cache, calls, faults, pc, mine, report>>

Request(r) ==
  \/ analyze_meeting(r) \/ analyze_meeting_stream(r) \/ analyze_live_summary(r)
  \/ update_action_item_statuses(r) \/ daily_report(r)
  \/ CopilotCards(r) \/ refine_copilot_answer(r)
  \/ TryOllama(r) \/ Stream(r) \/ CardBudget(r)
  \/ Hit(r) \/ Miss(r) \/ DropExpired(r) \/ CheckBudget(r) \/ Completion(r)
  \/ log_llm_call(r) \/ Store(r) \/ Fails(r)

Next == Tick \/ cost \/ \E r \in Requesters : Request(r)

Spec == Init /\ [][Next]_vars

-----------------------------------------------------------------------------
(* Properties.                                                             *)

N == Cardinality(Requesters)

\* The budget is checked and spent in different steps of any number of threads
\* and processes (router.py:746 and :788).  All the same the cost recorded for
\* a day passes the limit by less than one call for each requester, and one
\* more for each time the ledger could not be read.
OverdraftBounded ==
  Limit > 0 => recorded[day] < Limit + (N + faults) * MaxCost

\* A paid answer reaches its caller, and the cache from which any later caller
\* is answered for nothing, only after its row is in the ledger; a failure or
\* the end of the process between the two databases loses the answer, not the
\* row (router.py:711-713).
PaidBeforeServed ==
  /\ \A r \in Requesters : pc[r] = "served" => answer[r] = "recorded"
  /\ \A p \in Prompts : \A row \in cache[p] : row.answer = "recorded"

\* A report reads its totals and its daily figures in two statements and calls
\* go on being recorded between them (metrics.py:351-373): the days it is about
\* to list add up to at least the total it has read.
ReportAddsUp ==
  \A t \in report : t <= CostOf(Days)
=============================================================================
