------------------------- MODULE LlmRequests_proofs -------------------------
(***************************************************************************)
(* Proofs about LlmRequests, for any number of requesters and prompts, any *)
(* limit, prices and times to live, and any number of failing reads.       *)
(***************************************************************************)
EXTENDS LlmRequests, FiniteSetTheorems, TLAPS

\* The types the proofs need; the sum a report has read is not among them.
Typed ==
  /\ day \in Days /\ hour \in 0..DayLength-1
  /\ recorded \in [Days -> Nat]
  /\ cache \in [Prompts -> SUBSET Row]
  /\ faults \in Nat
  /\ pc \in [Requesters -> Locations]
  /\ prompt \in [Requesters -> Prompts \cup {NoPrompt}]
  /\ answer \in [Requesters -> Answers]
  /\ price \in [Requesters -> Prices]

\* Who is under way asks something; what has been charged is recorded.
AskedAndRecorded ==
  /\ \A r \in Requesters : pc[r] \notin {"idle", "served"} => prompt[r] \in Prompts
  /\ \A r \in Requesters : pc[r] = "store" => answer[r] = "recorded"

\* Past the check of the budget and not yet recorded.
InFlight == {r \in Requesters : pc[r] \in {"call", "record"}}

\* What is recorded, and the most that those in flight may add, stay below the bound; of
\* the days to come nothing is recorded.
Overdraft ==
  /\ Limit > 0 =>
       recorded[day] + Cardinality(InFlight) * MaxCost < Limit + (N + faults) * MaxCost
  /\ \A d \in Days : d > day => recorded[d] = 0

IInv == Typed /\ AskedAndRecorded /\ PaidBeforeServed /\ Overdraft

-----------------------------------------------------------------------------
(* Those in flight. *)

LEMMA Counted ==
  /\ IsFiniteSet(InFlight)
  /\ Cardinality(InFlight) \in Nat /\ N \in Nat /\ Cardinality(InFlight) <= N
<1>1. InFlight \subseteq Requesters
  BY DEF InFlight
<1>2. QED
  BY <1>1, RequestersAssumption, FS_Subset, FS_CardinalityType DEF N

LEMMA Joins ==
  ASSUME NEW r \in Requesters, r \notin InFlight, InFlight' = InFlight \cup {r}
  PROVE  Cardinality(InFlight') = Cardinality(InFlight) + 1
  BY Counted, FS_AddElement

LEMMA Leaves ==
  ASSUME NEW r \in InFlight, InFlight' = InFlight \ {r}
  PROVE  Cardinality(InFlight') = Cardinality(InFlight) - 1
  BY Counted, FS_RemoveElement

LEMMA MoreCost ==
  ASSUME NEW a \in Nat, NEW b \in Nat, a <= b, NEW m \in Nat
  PROVE  a * m \in Nat /\ b * m \in Nat /\ a * m <= b * m
  OBVIOUS

LEMMA OneMore ==
  ASSUME NEW a \in Nat, NEW b, b = a + 1, NEW m \in Nat
  PROVE  b * m = a * m + m /\ a * m \in Nat
  OBVIOUS

LEMMA MoreFaults ==
  ASSUME NEW n \in Nat, NEW f \in Nat, NEW g \in Nat, f <= g
  PROVE  n + f \in Nat /\ n + g \in Nat /\ n + f <= n + g
  OBVIOUS

\* A step that leaves the ledger as it is, lets nobody join, and forgets no fault.
LEMMA NobodyJoins ==
  ASSUME Typed, Overdraft, UNCHANGED <<day, recorded>>, faults' \in Nat, faults <= faults',
         InFlight' \subseteq InFlight
  PROVE  Overdraft'
<1> DEFINE a == Cardinality(InFlight)  b == Cardinality(InFlight')
<1>1. /\ IsFiniteSet(InFlight) /\ a \in Nat /\ N \in Nat
  BY Counted
<1>2. b \in Nat /\ b <= a
  BY <1>1, FS_Subset, FS_CardinalityType
<1>3. N' = N
  BY DEF N
<1>4. /\ MaxCost \in Nat /\ Limit \in Nat /\ recorded[day] \in Nat /\ faults \in Nat
  BY LimitAssumption DEF Typed
<1>5. b * MaxCost <= a * MaxCost /\ a * MaxCost \in Nat /\ b * MaxCost \in Nat
  BY <1>1, <1>2, <1>4, MoreCost
<1>6. N + faults \in Nat /\ N + faults' \in Nat /\ N + faults <= N + faults'
  BY <1>1, <1>4, MoreFaults
<1>7. /\ (N + faults) * MaxCost <= (N + faults') * MaxCost
      /\ (N + faults) * MaxCost \in Nat /\ (N + faults') * MaxCost \in Nat
  BY <1>6, <1>4, MoreCost
<1>8. Limit > 0 => recorded'[day'] + b * MaxCost < Limit + (N' + faults') * MaxCost
  <2> DEFINE p == a * MaxCost  q == b * MaxCost  x == (N + faults) * MaxCost
             y == (N + faults') * MaxCost
  <2>1. Limit > 0 => recorded[day] + p < Limit + x
    BY DEF Overdraft
  <2>2. p \in Nat /\ q \in Nat /\ x \in Nat /\ y \in Nat /\ q <= p /\ x <= y
    BY <1>5, <1>7
  <2> HIDE DEF p, q, x, y
  <2>3. Limit > 0 => recorded[day] + q < Limit + y
    BY <2>1, <2>2, <1>4
  <2>4. QED
    BY <2>3, <1>3 DEF q, y
<1>9. QED
  BY <1>8 DEF Overdraft

LEMMA InitHolds == Init => IInv
<1> SUFFICES ASSUME Init PROVE IInv
  OBVIOUS
<1>1. Typed
  BY LimitAssumption, TimeAssumption DEF Init, Typed, Days, Locations, Answers, Prices
<1>2. AskedAndRecorded /\ PaidBeforeServed
  BY DEF Init, AskedAndRecorded, PaidBeforeServed
<1>3. Overdraft
  <2>1. InFlight = {}
    BY DEF Init, InFlight
  <2>2. Cardinality(InFlight) = 0
    BY <2>1, FS_EmptySet
  <2>3. recorded[day] = 0 /\ faults = 0 /\ \A d \in Days : recorded[d] = 0
    BY TimeAssumption DEF Init, Days
  <2>4. 0 * MaxCost = 0 /\ N * MaxCost \in Nat /\ (N + 0) * MaxCost = N * MaxCost
    BY LimitAssumption, Counted, MoreCost
  <2>5. QED
    BY <2>2, <2>3, <2>4, LimitAssumption DEF Overdraft
<1>4. QED
  BY <1>1, <1>2, <1>3 DEF IInv

-----------------------------------------------------------------------------
(* Steps that spend nothing. *)

\* Everything but the check of the budget, the call and its record.
Quiet(r) ==
  \/ analyze_meeting(r) \/ analyze_meeting_stream(r) \/ analyze_live_summary(r)
  \/ update_action_item_statuses(r) \/ daily_report(r)
  \/ CopilotCards(r) \/ refine_copilot_answer(r)
  \/ TryOllama(r) \/ Stream(r) \/ CardBudget(r)
  \/ Hit(r) \/ Miss(r) \/ DropExpired(r) \/ Store(r) \/ Fails(r)

LEMMA AskKeeps ==
  ASSUME IInv, NEW r \in Requesters, NEW ps \in SUBSET Prompts, NEW l \in Locations,
         l \notin {"call", "record", "store", "idle", "served"}, Ask(r, ps, l)
  PROVE  IInv'
<1> USE DEF IInv, Ask, Goto, clock
<1>1. Typed'
  BY DEF Typed, Answers
<1>2. AskedAndRecorded'
  BY DEF Typed, AskedAndRecorded
<1>3. PaidBeforeServed'
  BY DEF Typed, PaidBeforeServed
<1>4. InFlight' \subseteq InFlight
  BY DEF Typed, InFlight
<1>5. faults' = faults /\ faults \in Nat /\ faults <= faults /\ UNCHANGED <<day, recorded>>
  BY DEF Typed
<1>6. Overdraft'
  BY <1>4, <1>5, NobodyJoins
<1>7. QED
  BY <1>1, <1>2, <1>3, <1>6

LEMMA EndsKeeps ==
  ASSUME IInv, NEW r \in Requesters, Ends(r)
  PROVE  IInv'
<1> USE DEF IInv, Ends, Goto, clock
<1>1. Typed'
  BY LimitAssumption DEF Typed, Locations, Answers, Prices
<1>2. AskedAndRecorded'
  BY DEF Typed, AskedAndRecorded
<1>3. PaidBeforeServed'
  BY DEF Typed, PaidBeforeServed
<1>4. InFlight' \subseteq InFlight
  BY DEF Typed, InFlight
<1>5. faults' = faults /\ faults \in Nat /\ faults <= faults /\ UNCHANGED <<day, recorded>>
  BY DEF Typed
<1>6. Overdraft'
  BY <1>4, <1>5, NobodyJoins
<1>7. QED
  BY <1>1, <1>2, <1>3, <1>6

\* The local model has no answer, the cards pass the first check, and the cache is asked.
LEMMA LookupKeeps ==
  ASSUME IInv, NEW r \in Requesters,
         \/ TryOllama(r) /\ ~Ends(r)
         \/ CardBudget(r) \/ Hit(r) \/ Miss(r) \/ DropExpired(r)
  PROVE  IInv'
<1> USE DEF IInv, TryOllama, CardBudget, Hit, Miss, DropExpired, CostToday, Goto, clock, mine
<1>1. /\ UNCHANGED <<day, hour, recorded>>
      /\ faults' \in Nat /\ faults <= faults'
  BY DEF Typed
<1>2. Typed'
  <2>1. CASE TryOllama(r) /\ ~Ends(r)
    BY <2>1 DEF Typed, Locations
  <2>2. CASE CardBudget(r)
    BY <1>1, <2>2 DEF Typed, Locations
  <2>3. CASE Hit(r)
    <3>1. PICK row \in cache[prompt[r]] : answer' = [answer EXCEPT ![r] = row.answer]
      BY <2>3
    <3>2. cache[prompt[r]] \subseteq Row
      BY <2>3 DEF Typed, AskedAndRecorded
    <3>3. row.answer \in Answers
      BY <3>2 DEF Row
    <3>4. QED
      BY <1>1, <2>3, <3>1, <3>3 DEF Typed, Locations
  <2>4. CASE Miss(r) \/ DropExpired(r)
    BY <2>4 DEF Typed, Locations
  <2>5. QED
    BY <2>1, <2>2, <2>3, <2>4
<1>3. AskedAndRecorded'
  BY DEF Typed, AskedAndRecorded
<1>4. PaidBeforeServed'
  BY DEF Typed, AskedAndRecorded, PaidBeforeServed
<1>5. InFlight' \subseteq InFlight
  BY DEF Typed, InFlight
<1>6. Overdraft'
  BY <1>1, <1>5, NobodyJoins
<1>7. QED
  BY <1>2, <1>3, <1>4, <1>6

LEMMA StoreKeeps ==
  ASSUME IInv, NEW r \in Requesters, Store(r)
  PROVE  IInv'
<1> USE DEF IInv, Store, Goto, clock
<1>1. /\ UNCHANGED <<day, hour, recorded, faults>>
      /\ faults \in Nat /\ faults <= faults
  BY DEF Typed
<1>2. answer[r] = "recorded" /\ prompt[r] \in Prompts
  BY DEF AskedAndRecorded
<1>3. [answer |-> answer[r], day |-> day, hour |-> hour] \in Row
  BY <1>2 DEF Typed, Row, Answers
<1>4. cache' \in [Prompts -> SUBSET Row]
  BY <1>3 DEF Typed
<1>5. Typed'
  BY <1>1, <1>4, LimitAssumption DEF Typed, Locations, Prices
<1>6. AskedAndRecorded'
  BY DEF Typed, AskedAndRecorded
<1>7. PaidBeforeServed'
  BY <1>2 DEF Typed, PaidBeforeServed
<1>8. InFlight' \subseteq InFlight
  BY DEF Typed, InFlight
<1>9. Overdraft'
  BY <1>1, <1>8, NobodyJoins
<1>10. QED
  BY <1>5, <1>6, <1>7, <1>9

LEMMA QuietKeeps ==
  ASSUME IInv, NEW r \in Requesters, Quiet(r)
  PROVE  IInv'
<1>1. Meetings \subseteq Prompts /\ Cards \subseteq Prompts /\ Others \subseteq Prompts
  BY DEF Prompts
<1>2. CASE \/ analyze_meeting(r) \/ analyze_meeting_stream(r) \/ analyze_live_summary(r)
           \/ update_action_item_statuses(r) \/ daily_report(r)
           \/ CopilotCards(r) \/ refine_copilot_answer(r)
  BY <1>1, <1>2, AskKeeps DEF analyze_meeting, analyze_meeting_stream, analyze_live_summary,
     update_action_item_statuses, daily_report, CopilotCards, refine_copilot_answer, Locations
<1>3. CASE TryOllama(r) \/ CardBudget(r) \/ Hit(r) \/ Miss(r) \/ DropExpired(r)
  BY <1>3, LookupKeeps, EndsKeeps
<1>4. CASE Stream(r) \/ Fails(r)
  BY <1>4, EndsKeeps DEF Stream, Fails
<1>5. CASE Store(r)
  BY <1>5, StoreKeeps
<1>6. QED
  BY <1>2, <1>3, <1>4, <1>5 DEF Quiet

-----------------------------------------------------------------------------
(* Steps that spend, and the clock. *)

LEMMA CheckBudgetKeeps ==
  ASSUME IInv, NEW r \in Requesters, CheckBudget(r)
  PROVE  IInv'
<1> USE DEF IInv, CheckBudget, Goto, clock, mine
<1>1. /\ UNCHANGED <<day, hour, recorded>> /\ day \in Days
      /\ faults' \in Nat /\ faults \in Nat /\ recorded[day] \in Nat
  BY DEF Typed, CostToday
<1>2. Typed' /\ AskedAndRecorded'
  BY <1>1 DEF Typed, Locations, AskedAndRecorded
<1>3. PaidBeforeServed'
  BY DEF Typed, PaidBeforeServed
<1>4. Cardinality(InFlight') = Cardinality(InFlight) + 1
  BY Joins DEF Typed, InFlight
<1>5. \/ faults' = faults /\ (Limit > 0 => recorded[day] < Limit)
      \/ faults' = faults + 1
  BY DEF CostToday, WithinBudget
<1>6. Cardinality(InFlight') \in Nat /\ Cardinality(InFlight') <= N /\ N \in Nat /\ N' = N
  <2>1. InFlight' \subseteq Requesters
    BY DEF InFlight
  <2>2. QED
    BY <2>1, RequestersAssumption, FS_Subset, FS_CardinalityType DEF N
<1>7. Overdraft'
  <2> DEFINE a == Cardinality(InFlight)  b == Cardinality(InFlight')
  <2>1. a \in Nat /\ b \in Nat /\ b = a + 1 /\ b <= N /\ MaxCost \in Nat /\ Limit \in Nat
    BY <1>4, <1>6, Counted, LimitAssumption
  <2>2. Limit > 0 => recorded[day] + a * MaxCost < Limit + (N + faults) * MaxCost
    BY DEF Overdraft
  <2>3. Limit > 0 => recorded[day] + b * MaxCost < Limit + (N + faults') * MaxCost
    <3> HIDE DEF a, b
    <3>1. CASE faults' = faults + 1
      <4>1. b * MaxCost = a * MaxCost + MaxCost /\ a * MaxCost \in Nat
        BY <2>1, OneMore
      <4>2. N + faults \in Nat /\ N + faults' = (N + faults) + 1
        BY <3>1, <1>1, <1>6
      <4>3. /\ (N + faults') * MaxCost = (N + faults) * MaxCost + MaxCost
            /\ (N + faults) * MaxCost \in Nat
        BY <4>2, <2>1, OneMore
      <4>4. QED
        BY <4>1, <4>3, <2>2, <2>1, <1>1
    <3>2. CASE faults' = faults /\ (Limit > 0 => recorded[day] < Limit)
      <4>1. N + faults' \in Nat /\ b <= N + faults'
        BY <3>2, <1>1, <1>6, <2>1
      <4>2. b * MaxCost <= (N + faults') * MaxCost /\ b * MaxCost \in Nat
            /\ (N + faults') * MaxCost \in Nat
        BY <4>1, <2>1, MoreCost
      <4>3. QED
        BY <4>2, <3>2, <2>1, <1>1
    <3>3. QED
      BY <3>1, <3>2, <1>5
  <2>4. QED
    BY <2>3, <1>1, <1>6 DEF Overdraft
<1>8. QED
  BY <1>2, <1>3, <1>7

LEMMA CompletionKeeps ==
  ASSUME IInv, NEW r \in Requesters, Completion(r)
  PROVE  IInv'
<1> USE DEF IInv, Completion, Goto, clock
<1>1. Typed'
  BY DEF Typed, Locations, Answers
<1>2. AskedAndRecorded' /\ PaidBeforeServed'
  BY DEF Typed, AskedAndRecorded, PaidBeforeServed
<1>3. InFlight' \subseteq InFlight
  BY DEF Typed, InFlight
<1>4. faults' = faults /\ faults \in Nat /\ faults <= faults /\ UNCHANGED <<day, recorded>>
  BY DEF Typed
<1>5. Overdraft'
  BY <1>3, <1>4, NobodyJoins
<1>6. QED
  BY <1>1, <1>2, <1>5

\* What is charged is no more than was counted for who charges it.
LEMMA RecordKeeps ==
  ASSUME IInv, NEW r \in Requesters, log_llm_call(r)
  PROVE  IInv'
<1> USE DEF IInv, log_llm_call, Charge, Goto, clock
<1>1. /\ recorded[day] \in Nat /\ price[r] \in Nat /\ price[r] <= MaxCost /\ day \in Days
      /\ faults' = faults /\ faults \in Nat /\ day' = day
      /\ recorded' = [recorded EXCEPT ![day] = @ + price[r]]
      /\ MaxCost \in Nat /\ Limit \in Nat
  BY LimitAssumption DEF Typed, Prices
<1>2. Typed'
  BY <1>1 DEF Typed, Locations, Answers
<1>3. AskedAndRecorded' /\ PaidBeforeServed'
  BY DEF Typed, AskedAndRecorded, PaidBeforeServed
<1>4. r \in InFlight /\ InFlight' = InFlight \ {r}
  BY DEF Typed, InFlight, Locations
<1>5. Overdraft'
  <2> DEFINE a == Cardinality(InFlight)  b == Cardinality(InFlight')
             y == (N + faults) * MaxCost
  <2>1. a = b + 1 /\ a \in Nat /\ b \in Nat
    <3>1. IsFiniteSet(InFlight) /\ Cardinality(InFlight) \in Nat
      BY Counted
    <3>2. Cardinality(InFlight') \in Nat
      BY <3>1, <1>4, FS_Subset, FS_CardinalityType
    <3>3. Cardinality(InFlight') = Cardinality(InFlight) - 1
      BY <1>4, Leaves
    <3>4. QED
      BY <3>1, <3>2, <3>3
  <2>2. Limit > 0 => recorded[day] + a * MaxCost < Limit + y
    BY DEF Overdraft
  <2>3. a * MaxCost = b * MaxCost + MaxCost /\ b * MaxCost \in Nat
    <3> HIDE DEF a, b
    <3>1. QED
      BY <2>1, <1>1, OneMore
  <2>4. y \in Nat
    <3>1. N + faults \in Nat /\ 0 \in Nat
      BY <1>1, Counted
    <3>2. QED
      BY <3>1, <1>1, MoreCost
  <2>5. recorded'[day] = recorded[day] + price[r]
    BY <1>1 DEF Typed
  <2>6. Limit > 0 => recorded'[day] + b * MaxCost < Limit + y
    <3> DEFINE p == a * MaxCost  q == b * MaxCost
    <3> HIDE DEF y, p, q
    <3>1. p = q + MaxCost /\ q \in Nat /\ (Limit > 0 => recorded[day] + p < Limit + y)
      BY <2>2, <2>3 DEF p, q
    <3>2. Limit > 0 => recorded'[day] + q < Limit + y
      BY <3>1, <2>4, <2>5, <1>1
    <3>3. QED
      BY <3>2 DEF q
  <2>7. N' = N
    BY DEF N
  <2>8. \A d \in Days : d > day' => recorded'[d] = 0
    BY <1>1 DEF Typed, Overdraft, Days
  <2>9. QED
    BY <2>6, <2>7, <2>8, <1>1 DEF Overdraft
<1>6. QED
  BY <1>2, <1>3, <1>5

\* At midnight the new day has no cost yet, and room for all who are in flight.
LEMMA TickKeeps ==
  ASSUME IInv, Tick
  PROVE  IInv'
<1> USE DEF IInv, Tick, mine
<1>1. Typed'
  BY TimeAssumption DEF Typed, Days
<1>2. AskedAndRecorded' /\ PaidBeforeServed'
  BY DEF AskedAndRecorded, PaidBeforeServed
<1>3. InFlight' = InFlight /\ N' = N /\ faults' = faults /\ recorded' = recorded
  BY DEF InFlight, N
<1>4. CASE day' = day
  <2>1. Overdraft'
    BY <1>3, <1>4 DEF Overdraft
  <2>2. QED
    BY <1>1, <1>2, <2>1
<1>5. CASE day' = day + 1
  <2>1. recorded[day'] = 0 /\ \A d \in Days : d > day' => recorded[d] = 0
    BY <1>5, <1>1, TimeAssumption DEF Typed, Overdraft, Days
  <2>2. /\ N + faults \in Nat /\ Cardinality(InFlight) \in Nat
        /\ Cardinality(InFlight) <= N + faults
    BY Counted DEF Typed
  <2>3. /\ Cardinality(InFlight) * MaxCost <= (N + faults) * MaxCost
        /\ Cardinality(InFlight) * MaxCost \in Nat /\ (N + faults) * MaxCost \in Nat
    BY <2>2, LimitAssumption, MoreCost
  <2>4. Overdraft'
    BY <2>1, <2>3, <1>3, LimitAssumption DEF Overdraft
  <2>5. QED
    BY <1>1, <1>2, <2>4
<1>6. QED
  BY <1>4, <1>5

-----------------------------------------------------------------------------
(* The theorems. *)

LEMMA NextKeeps == IInv /\ [Next]_vars => IInv'
<1> SUFFICES ASSUME IInv, [Next]_vars PROVE IInv'
  OBVIOUS
<1>1. CASE UNCHANGED <<clock, recorded, cache, faults, pc, mine>>
  <2>1. InFlight' = InFlight /\ N' = N
    BY <1>1 DEF InFlight, N
  <2>2. UNCHANGED <<day, hour, recorded, cache, faults, pc, prompt, answer, price>>
    BY <1>1 DEF clock, mine
  <2>3. Typed' /\ AskedAndRecorded' /\ PaidBeforeServed'
    BY <2>2 DEF IInv, Typed, AskedAndRecorded, PaidBeforeServed
  <2>4. Overdraft'
    BY <2>1, <2>2 DEF IInv, Overdraft
  <2>5. QED
    BY <2>3, <2>4 DEF IInv
<1>2. CASE Tick
  BY <1>2, TickKeeps
<1>3. CASE cost
  BY <1>1, <1>3 DEF cost, ReadTotals, ReadDays, clock, mine
<1>4. ASSUME NEW r \in Requesters, Request(r) PROVE IInv'
  BY <1>4, QuietKeeps, CheckBudgetKeeps, CompletionKeeps, RecordKeeps DEF Request, Quiet
<1>5. QED
  BY <1>1, <1>2, <1>3, <1>4 DEF Next, vars

LEMMA Inductive == Spec => []IInv
  BY InitHolds, NextKeeps, PTL DEF Spec

\* The cost recorded for a day passes the limit by less than one call for each requester
\* and each failed read, for any number of either.
THEOREM OverdraftIsBounded == Spec => []OverdraftBounded
<1>1. IInv => OverdraftBounded
  <2> SUFFICES ASSUME IInv, Limit > 0
               PROVE  recorded[day] < Limit + (N + faults) * MaxCost
    BY DEF OverdraftBounded
  <2>1. Cardinality(InFlight) * MaxCost \in Nat /\ recorded[day] \in Nat
    BY Counted, LimitAssumption, MoreCost DEF IInv, Typed
  <2>2. (N + faults) * MaxCost \in Nat
    <3>1. N + faults \in Nat
      BY Counted DEF IInv, Typed
    <3>2. QED
      BY <3>1, LimitAssumption, MoreCost
  <2>3. recorded[day] + Cardinality(InFlight) * MaxCost < Limit + (N + faults) * MaxCost
    BY DEF IInv, Overdraft
  <2>4. QED
    BY <2>1, <2>2, <2>3, LimitAssumption
<1>2. QED
  BY Inductive, <1>1, PTL

\* No caller and no cache ever has an answer whose cost is not recorded.
THEOREM PaidFirst == Spec => []PaidBeforeServed
<1>1. IInv => PaidBeforeServed
  BY DEF IInv
<1>2. QED
  BY Inductive, <1>1, PTL
-----------------------------------------------------------------------------
(* A report while the ledger grows. *)

\* What TypeOK says beyond Typed; of a set that holds at most one thing it counts the members.
Bounded ==
  /\ \A p \in Prompts : \A row1, row2 \in cache[p] : row1 = row2
  /\ calls \in 0..MaxCalls /\ faults <= MaxFaults
  /\ report \subseteq Nat /\ \A total1, total2 \in report : total1 = total2

Ledger == IInv /\ Bounded /\ ReportAddsUp

LEMMA AtMostOne ==
  ASSUME NEW S, \A x, y \in S : x = y
  PROVE  Cardinality(S) <= 1
<1>1. CASE S = {}
  BY <1>1, FS_EmptySet
<1>2. CASE S # {}
  <2>1. PICK x \in S : TRUE
    BY <1>2
  <2>2. S = {x}
    BY <2>1
  <2>3. Cardinality({x}) = 1
    BY FS_Singleton
  <2>4. QED
    BY <2>2, <2>3
<1>3. QED
  BY <1>1, <1>2

\* The units of cost of some days: a finite set, so that counting it means something.
Units(costs) == UNION {{d} \X (1..costs[d]) : d \in Days}

LEMMA UnitsFinite ==
  ASSUME NEW costs \in [Days -> Nat]
  PROVE  IsFiniteSet(Units(costs))
<1> DEFINE unitsOf == [d \in Days |-> {d} \X (1..costs[d])]
           S == {{d} \X (1..costs[d]) : d \in Days}
<1>1. IsFiniteSet(Days)
  BY TimeAssumption, FS_Interval DEF Days
<1>2. unitsOf \in Surjection(Days, S)
  BY DEF Surjection
<1>3. IsFiniteSet(S)
  BY <1>1, <1>2, FS_Surjection
<1>4. ASSUME NEW T \in S PROVE IsFiniteSet(T)
  <2>1. PICK d \in Days : T = {d} \X (1..costs[d])
    OBVIOUS
  <2>2. costs[d] \in Int /\ 1 \in Int
    OBVIOUS
  <2>3. IsFiniteSet({d}) /\ IsFiniteSet(1..costs[d])
    BY <2>2, FS_Singleton, FS_Interval
  <2>4. QED
    BY <2>1, <2>3, FS_Product
<1>5. QED
  BY <1>3, <1>4, FS_UNION DEF Units

LEMMA CostIsNatural ==
  ASSUME Typed
  PROVE  CostOf(Days) \in Nat
<1>1. CostOf(Days) = Cardinality(Units(recorded))
  BY DEF CostOf, Units
<1>2. QED
  BY <1>1, UnitsFinite, FS_CardinalityType DEF Typed

\* Days whose costs only grow add up to no less.
LEMMA CostGrows ==
  ASSUME Typed, Typed', \A d \in Days : recorded[d] <= recorded'[d]
  PROVE  CostOf(Days) <= CostOf(Days)'
<1>1. recorded \in [Days -> Nat] /\ recorded' \in [Days -> Nat]
  BY DEF Typed
<1>2. CostOf(Days) = Cardinality(Units(recorded)) /\ CostOf(Days)' = Cardinality(Units(recorded'))
  BY DEF CostOf, Units, Days
<1>3. Units(recorded) \subseteq Units(recorded')
  <2>1. ASSUME NEW d \in Days PROVE 1..recorded[d] \subseteq 1..recorded'[d]
    BY <1>1
  <2>2. QED
    BY <2>1 DEF Units
<1>4. QED
  BY <1>1, <1>2, <1>3, UnitsFinite, FS_Subset

\* No step takes back what the ledger says of any day.
LEMMA LedgerGrows ==
  ASSUME IInv, [Next]_vars
  PROVE  \A d \in Days : recorded[d] <= recorded'[d]
<1>1. CASE UNCHANGED recorded
  BY <1>1 DEF IInv, Typed
<1>2. ASSUME NEW r \in Requesters, log_llm_call(r)
      PROVE  \A d \in Days : recorded[d] <= recorded'[d]
  BY <1>2, LimitAssumption DEF IInv, Typed, log_llm_call, Charge, Prices
<1>3. ASSUME NEW r \in Requesters, Quiet(r) \/ CheckBudget(r) \/ Completion(r)
      PROVE  UNCHANGED recorded
  BY <1>3 DEF Quiet, CheckBudget, Completion, analyze_meeting, analyze_meeting_stream,
     analyze_live_summary, update_action_item_statuses, daily_report, CopilotCards,
     refine_copilot_answer, Ask, TryOllama, Stream, CardBudget, Hit, Miss, DropExpired, Store,
     Fails, Ends
<1>4. CASE Tick \/ cost
  BY <1>1, <1>4 DEF Tick, cost, ReadTotals, ReadDays
<1>5. QED
  BY <1>1, <1>2, <1>3, <1>4 DEF Next, Request, Quiet, vars

\* A cached answer replaces the one before it, and what is paid or fails is counted.
LEMMA BoundedKept ==
  ASSUME IInv, Bounded, [Next]_vars
  PROVE  Bounded'
<1> DEFINE OneRow == \A p \in Prompts : \A row1, row2 \in cache[p] : row1 = row2
           OneTotal == report \subseteq Nat /\ \A total1, total2 \in report : total1 = total2
           Limits == calls \in 0..MaxCalls /\ faults <= MaxFaults
<1>1. OneRow /\ OneTotal /\ Limits /\ calls \in Nat /\ faults \in Nat
  BY BoundsAssumption DEF Bounded, IInv, Typed
<1>2. CASE UNCHANGED <<cache, calls, faults, report>>
  BY <1>1, <1>2 DEF Bounded
<1>3. CASE ReadTotals \/ ReadDays
  <2>1. UNCHANGED <<cache, calls, faults>>
    BY <1>3 DEF ReadTotals, ReadDays
  <2>2. report' = {} \/ report' = {CostOf(Days)}
    BY <1>3 DEF ReadTotals, ReadDays
  <2>3. QED
    BY <1>1, <2>1, <2>2, CostIsNatural DEF Bounded, IInv
<1>4. ASSUME NEW r \in Requesters, CardBudget(r) \/ CheckBudget(r) PROVE Bounded'
  <2>1. UNCHANGED <<cache, calls, report>>
    BY <1>4 DEF CardBudget, CheckBudget
  <2>2. faults' = faults \/ (faults < MaxFaults /\ faults' = faults + 1)
    BY <1>4 DEF CardBudget, CheckBudget, CostToday
  <2>3. faults' <= MaxFaults
    BY <1>1, <2>2, BoundsAssumption
  <2>4. QED
    BY <1>1, <2>1, <2>3 DEF Bounded
<1>5. ASSUME NEW r \in Requesters, Completion(r) PROVE Bounded'
  BY <1>1, <1>5, BoundsAssumption DEF Completion, Bounded
<1>6. ASSUME NEW r \in Requesters, DropExpired(r) PROVE Bounded'
  BY <1>1, <1>6 DEF DropExpired, Bounded, IInv, Typed, clock
<1>7. ASSUME NEW r \in Requesters, Store(r) PROVE Bounded'
  <2>1. UNCHANGED <<calls, faults, report>>
    BY <1>7 DEF Store
  <2>2. ASSUME NEW p \in Prompts, NEW row1 \in cache'[p], NEW row2 \in cache'[p] PROVE row1 = row2
    <3>1. \/ cache'[p] = cache[p]
          \/ cache'[p] = {[answer |-> answer[r], day |-> day, hour |-> hour]}
          \/ cache'[p] = {row \in cache[p] : ~Expired(row)}
      BY <1>7 DEF Store
    <3>2. QED
      BY <1>1, <3>1, <2>2
  <2>3. QED
    BY <1>1, <2>1, <2>2 DEF Bounded
<1>8. ASSUME NEW r \in Requesters,
             \/ analyze_meeting(r) \/ analyze_meeting_stream(r) \/ analyze_live_summary(r)
             \/ update_action_item_statuses(r) \/ daily_report(r)
             \/ CopilotCards(r) \/ refine_copilot_answer(r)
             \/ TryOllama(r) \/ Stream(r) \/ Hit(r) \/ Miss(r) \/ log_llm_call(r) \/ Fails(r)
      PROVE  UNCHANGED <<cache, calls, faults, report>>
  BY <1>8 DEF analyze_meeting, analyze_meeting_stream,
     analyze_live_summary, update_action_item_statuses, daily_report, CopilotCards,
     refine_copilot_answer, Ask, TryOllama, Stream, Hit, Miss, log_llm_call, Fails, Ends
<1>9. CASE Tick
  BY <1>2, <1>9 DEF Tick
<1>10. QED
  BY <1>2, <1>3, <1>4, <1>5, <1>6, <1>7, <1>8, <1>9 DEF Next, Request, cost, vars

LEMMA ReportKept ==
  ASSUME Ledger, [Next]_vars
  PROVE  ReportAddsUp'
<1>1. Typed /\ Typed' /\ report \subseteq Nat
  BY NextKeeps DEF Ledger, IInv, Bounded
<1>2. CostOf(Days) <= CostOf(Days)' /\ CostOf(Days) \in Nat /\ CostOf(Days)' \in Nat
  <2>1. \A d \in Days : recorded[d] <= recorded'[d]
    BY LedgerGrows DEF Ledger
  <2>2. CostOf(Days)' = Cardinality(Units(recorded'))
    BY DEF CostOf, Units, Days
  <2>3. CostOf(Days)' \in Nat
    BY <2>2, <1>1, UnitsFinite, FS_CardinalityType DEF Typed
  <2>4. QED
    BY <1>1, <2>1, <2>3, CostGrows, CostIsNatural
<1>3. ASSUME NEW total \in report' PROVE total \in report \/ total = CostOf(Days)
  <2>1. report' = report \/ report' = {} \/ report' = {CostOf(Days)}
    BY DEF Next, Request, cost, ReadTotals, ReadDays, Tick, CheckBudget, Completion, log_llm_call,
       analyze_meeting, analyze_meeting_stream,
       analyze_live_summary, update_action_item_statuses, daily_report, CopilotCards,
       refine_copilot_answer, Ask, TryOllama, Stream, CardBudget, Hit, Miss, DropExpired, Store,
       Fails, Ends, vars
  <2>2. QED
    BY <1>3, <2>1
<1>4. \A total \in report : total <= CostOf(Days)
  BY DEF Ledger, ReportAddsUp
<1>5. ASSUME NEW total \in report' PROVE total <= CostOf(Days)'
  <2> DEFINE before == CostOf(Days)  after == CostOf(Days)'
  <2>1. before <= after /\ before \in Nat /\ after \in Nat
    BY <1>2
  <2>2. \A t \in report : t <= before
    BY <1>4
  <2>3. total \in report \/ total = before
    BY <1>3
  <2> HIDE DEF before, after
  <2>4. total \in Nat /\ total <= before
    <3>1. CASE total \in report
      <4>1. total \in Nat
        BY <1>1, <3>1
      <4>2. total <= before
        BY <2>2, <3>1
      <4>3. QED
        BY <4>1, <4>2
    <3>2. CASE total = before
      BY <2>1, <3>2
    <3>3. QED
      BY <2>3, <3>1, <3>2
  <2>5. total <= after
    BY <2>1, <2>4
  <2>6. QED
    BY <2>5 DEF after
<1>6. QED
  BY <1>5 DEF ReportAddsUp, Days

LEMMA LedgerInductive == Spec => []Ledger
<1>1. Init => Ledger
  BY InitHolds, BoundsAssumption DEF Ledger, Bounded, ReportAddsUp, Init
<1>2. Ledger /\ [Next]_vars => Ledger'
  BY NextKeeps, BoundedKept, ReportKept DEF Ledger
<1>3. QED
  BY <1>1, <1>2, PTL DEF Spec

\* What the ledger, the cache, the requesters and a report keep stays in its type (router.py, cache.py,
\* metrics.py): one row for a prompt, no cost but natural ones.
THEOREM TypeCorrect == Spec => []TypeOK
<1>1. Ledger => TypeOK
  <2> SUFFICES ASSUME Ledger PROVE TypeOK
    OBVIOUS
  <2>1. \A p \in Prompts : cache[p] \subseteq Row /\ Cardinality(cache[p]) <= 1
    BY AtMostOne DEF Ledger, IInv, Typed, Bounded
  <2>2. Cardinality(report) <= 1
    BY AtMostOne DEF Ledger, Bounded
  <2>3. faults \in 0..MaxFaults
    BY BoundsAssumption DEF Ledger, IInv, Typed, Bounded
  <2>4. QED
    BY <2>1, <2>2, <2>3 DEF Ledger, IInv, Typed, Bounded, TypeOK
<1>2. QED
  BY LedgerInductive, <1>1, PTL

\* However many calls are recorded while a report is read, the days it lists add up to at least its
\* total (metrics.py, get_stats_range).
THEOREM ReportsAddUp == Spec => []ReportAddsUp
<1>1. Ledger => ReportAddsUp
  BY DEF Ledger
<1>2. QED
  BY LedgerInductive, <1>1, PTL
=============================================================================
