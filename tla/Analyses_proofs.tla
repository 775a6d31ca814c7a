-------------------------- MODULE Analyses_proofs --------------------------
(***************************************************************************)
(* Proofs about Analyses, for any number of callers and any model sizes.   *)
(***************************************************************************)
EXTENDS Analyses, SequenceTheorems, FiniteSetTheorems, TLAPS

Waits(x, q) == \E i \in 1..Len(q) : q[i] = x
Once(q) == \A i, j \in 1..Len(q) : q[i] = q[j] => i = j

\* A pipeline is running for exactly the callers that wait for one.  In the daemon the
\* D-Bus callers that are not idle stand in the queue, each once, and only its first
\* one has a pipeline; elsewhere there is no queue.
InTurn ==
  /\ \A c \in Callers : worker[c] # "none" <=> caller[c] \in {"waiting", "late"}
  /\ Once(queue)
  /\ process # "daemon" => queue = <<>>
  /\ process = "daemon" =>
       \A c \in Clients : /\ caller[c] # "idle" <=> Waits(c, queue)
                          /\ worker[c] # "none" => queue # <<>> /\ Head(queue) = c

\* Inside get_transcriber, while nobody else has touched the model: the size it resolved
\* is still the configured one, and when it returns the transcriber has that size.
Undisturbed ==
  \A c \in Callers : ~overlapped[c] =>
    /\ worker[c] \in Getting => want[c] = stt
    /\ worker[c] = "return" => transcriber = want[c]

\* Tasks run in step 2 only; a redacted transcript is there from the end of its task to
\* the request, and not before.
RedactedOnce ==
  \A c \in Callers :
    /\ pending[c] # {} => worker[c] = "step2"
    /\ "pii" \in pending[c] => redacted[c] = "no"
    /\ worker[c] \notin {"step2", "calendar", "llm"} => redacted[c] = "no"

IInv == TypeOK /\ InTurn /\ Undisturbed /\ RedactedOnce

-----------------------------------------------------------------------------
(* The queue at the semaphore. *)

LEMMA AppendOnce ==
  ASSUME NEW S, NEW q \in Seq(S), NEW e \in S, Once(q), ~Waits(e, q)
  PROVE  /\ Append(q, e) \in Seq(S) /\ Append(q, e) # <<>>
         /\ Once(Append(q, e))
         /\ \A x : Waits(x, Append(q, e)) <=> Waits(x, q) \/ x = e
         /\ q # <<>> => Head(Append(q, e)) = Head(q)
<1> DEFINE r == Append(q, e)
<1>1. /\ r \in Seq(S) /\ r # <<>> /\ Len(r) = Len(q) + 1 /\ Len(q) \in Nat
      /\ \A i \in 1..Len(q) : r[i] = q[i]
      /\ r[Len(q) + 1] = e
  BY AppendProperties
<1>2. q # <<>> => Head(r) = Head(q)
  BY HeadTailAppend
<1> HIDE DEF r
<1>3. 1..Len(r) = (1..Len(q)) \cup {Len(q) + 1}
  BY <1>1
<1>4. Once(r)
  BY <1>1, <1>3 DEF Once, Waits
<1>5. \A x : Waits(x, r) <=> Waits(x, q) \/ x = e
  BY <1>1, <1>3 DEF Waits
<1>6. QED
  BY <1>1, <1>2, <1>4, <1>5 DEF r

LEMMA TailOnce ==
  ASSUME NEW S, NEW q \in Seq(S), q # <<>>, Once(q)
  PROVE  /\ Tail(q) \in Seq(S) /\ Len(Tail(q)) = Len(q) - 1 /\ Once(Tail(q))
         /\ \A x : Waits(x, Tail(q)) <=> Waits(x, q) /\ x # Head(q)
<1> DEFINE r == Tail(q)
<1>1. /\ r \in Seq(S) /\ Len(r) = Len(q) - 1
      /\ \A i \in 1..Len(r) : r[i] = q[i + 1]
  BY HeadTailProperties
<1>2. Len(q) \in Nat /\ Len(q) # 0 /\ Len(r) \in Nat /\ Head(q) = q[1]
  BY <1>1
<1> HIDE DEF r
<1>3. Once(r)
  <2>1. SUFFICES ASSUME NEW i \in 1..Len(r), NEW j \in 1..Len(r), r[i] = r[j] PROVE i = j
    BY DEF Once
  <2>2. i + 1 \in 1..Len(q) /\ j + 1 \in 1..Len(q) /\ q[i + 1] = q[j + 1]
    BY <2>1, <1>1, <1>2
  <2>3. QED
    BY <2>2 DEF Once
<1>4. ASSUME NEW x, Waits(x, r) PROVE Waits(x, q) /\ x # Head(q)
  <2>1. PICK i \in 1..Len(r) : r[i] = x
    BY <1>4 DEF Waits
  <2>2. i + 1 \in 1..Len(q) /\ q[i + 1] = x /\ i + 1 # 1 /\ 1 \in 1..Len(q)
    BY <2>1, <1>1, <1>2
  <2>3. QED
    BY <2>2, <1>2 DEF Waits, Once
<1>5. ASSUME NEW x, Waits(x, q), x # Head(q) PROVE Waits(x, r)
  <2>1. PICK i \in 1..Len(q) : q[i] = x
    BY <1>5 DEF Waits
  <2>2. i # 1
    BY <2>1, <1>5, <1>2
  <2>3. i - 1 \in 1..Len(r) /\ r[i - 1] = x
    BY <2>1, <2>2, <1>1, <1>2
  <2>4. QED
    BY <2>3 DEF Waits
<1>6. QED
  BY <1>1, <1>3, <1>4, <1>5 DEF r

\* Where nobody stands twice there are no more places than callers.
LEMMA NoLongerThanCallers ==
  ASSUME NEW S, IsFiniteSet(S), NEW q \in Seq(S), Once(q)
  PROVE  Len(q) <= Cardinality(S)
<1>1. q \in [1..Len(q) -> S] /\ Len(q) \in Nat
  OBVIOUS
<1>2. q \in Injection(1..Len(q), S)
  BY <1>1 DEF Once, Injection, IsInjective
<1>3. Cardinality(1..Len(q)) <= Cardinality(S)
  BY <1>2, FS_Injection
<1>4. Cardinality(1..Len(q)) = Len(q)
  <2> DEFINE n == Len(q)
  <2>1. n \in Nat /\ n \in Int /\ 1 \in Int
    BY <1>1
  <2> HIDE DEF n
  <2>2. Cardinality(1..n) = IF 1 > n THEN 0 ELSE n - 1 + 1
    BY <2>1, FS_Interval, Zenon
  <2>3. Cardinality(1..n) = n
    BY <2>1, <2>2
  <2>4. QED
    BY <2>3 DEF n
<1>5. QED
  BY <1>3, <1>4
-----------------------------------------------------------------------------
(* Initially. *)

LEMMA InitHolds == Init => IInv
<1> SUFFICES ASSUME Init PROVE IInv
  OBVIOUS
<1>1. Len(queue) = 0 /\ queue \in Seq(Clients)
  BY DEF Init
<1>2. Cardinality(Clients) \in Nat
  BY CallersAssumption, FS_CardinalityType
<1>3. TypeOK
  BY <1>1, <1>2 DEF Init, TypeOK, Jobs, Locations, Steps
<1>4. InTurn
  BY <1>1 DEF Init, InTurn, Once, Waits, Callers
<1>5. Undisturbed /\ RedactedOnce
  BY DEF Init, Undisturbed, RedactedOnce, Getting
<1>6. QED
  BY <1>3, <1>4, <1>5 DEF IInv

-----------------------------------------------------------------------------
(* The callers. *)

LEMMA StartKeeps ==
  ASSUME IInv, NEW c \in Callers, NEW j \in Jobs, Start(c, j),
         process = "daemon" /\ c \in Clients => caller[c] = "queued" /\ Head(queue) = c
  PROVE  IInv'
<1> USE DEF IInv, setting, manager, mine, step2
<1>1. TypeOK'
  BY DEF TypeOK, Start, Goto, Jobs, Locations
<1>2. InTurn'
  BY DEF TypeOK, InTurn, Start, Goto, Once, Waits, Callers
<1>3. Undisturbed'
  BY DEF TypeOK, Undisturbed, Start, Goto, Getting
<1>4. RedactedOnce'
  BY DEF TypeOK, RedactedOnce, Start, Goto
<1>5. QED
  BY <1>1, <1>2, <1>3, <1>4

LEMMA AnalyzeKeeps ==
  ASSUME IInv, NEW c \in Callers, Analyze(c)
  PROVE  IInv'
<1> USE DEF IInv, setting, manager, mine, step2
<1>1. /\ process = "daemon" /\ c \in Clients /\ ~Waits(c, queue) /\ Once(queue)
      /\ queue \in Seq(Clients) /\ worker[c] = "none"
  BY DEF Analyze, InTurn, TypeOK
<1>2. /\ queue' \in Seq(Clients) /\ queue' # <<>> /\ Once(queue')
      /\ \A x : Waits(x, queue') <=> Waits(x, queue) \/ x = c
      /\ queue # <<>> => Head(queue') = Head(queue)
  BY <1>1, AppendOnce DEF Analyze
<1>3. Len(queue') <= Cardinality(Clients)
  BY <1>2, NoLongerThanCallers, CallersAssumption
<1>4. TypeOK'
  BY <1>2, <1>3 DEF Analyze, TypeOK
<1>5. InTurn'
  BY <1>1, <1>2 DEF Analyze, TypeOK, InTurn, Callers
<1>6. Undisturbed' /\ RedactedOnce'
  BY DEF Analyze, Undisturbed, RedactedOnce
<1>7. QED
  BY <1>4, <1>5, <1>6

\* Whoever is answered in the daemon over D-Bus is the first in the queue.
LEMMA ReplyKeeps ==
  ASSUME IInv, NEW c \in Callers, Reply(c)
  PROVE  IInv'
<1> USE DEF IInv, setting, manager, mine, step2
<1>1. /\ Answered(c) /\ worker[c] = "done" /\ worker' = [worker EXCEPT ![c] = "none"]
      /\ caller[c] \in {"waiting", "late"}
  BY DEF Reply, Answer, AnswerLate, Goto
<1>2. CASE process = "daemon" /\ c \in Clients
  <2>1. queue # <<>> /\ Head(queue) = c /\ queue' = Tail(queue) /\ queue \in Seq(Clients)
    BY <1>1, <1>2 DEF InTurn, Answered, TypeOK
  <2>2. /\ queue' \in Seq(Clients) /\ Len(queue') = Len(queue) - 1 /\ Once(queue')
        /\ \A x : Waits(x, queue') <=> Waits(x, queue) /\ x # c
    BY <2>1, TailOnce DEF InTurn
  <2>3. Len(queue') <= Cardinality(Clients)
    BY <2>2, NoLongerThanCallers, CallersAssumption
  <2>4. TypeOK'
    BY <1>1, <2>2, <2>3 DEF Answered, TypeOK, Jobs, Locations
  <2>5. InTurn'
    BY <1>1, <1>2, <2>1, <2>2 DEF Answered, TypeOK, InTurn, Callers
  <2>6. QED
    BY <2>4, <2>5, <1>1 DEF Answered, TypeOK, Undisturbed, RedactedOnce, Getting
<1>3. CASE ~(process = "daemon" /\ c \in Clients)
  <2>1. queue' = queue
    BY <1>1, <1>3 DEF Answered
  <2>2. TypeOK'
    BY <1>1, <2>1 DEF Answered, TypeOK, Jobs, Locations
  <2>3. InTurn'
    BY <1>1, <1>3, <2>1 DEF Answered, TypeOK, InTurn, Callers
  <2>4. QED
    BY <2>2, <2>3, <1>1 DEF Answered, TypeOK, Undisturbed, RedactedOnce, Getting
<1>4. QED
  BY <1>2, <1>3

LEMMA TimeLimitKeeps ==
  ASSUME IInv, NEW c \in Callers, TimeLimit(c)
  PROVE  IInv'
<1> USE DEF IInv, TimeLimit, setting, manager, mine, step2
<1>1. TypeOK'
  BY DEF TypeOK
<1>2. InTurn'
  BY DEF TypeOK, InTurn, Callers
<1>3. QED
  BY <1>1, <1>2 DEF Undisturbed, RedactedOnce

-----------------------------------------------------------------------------
(* The model and the pipelines leave the callers alone. *)

\* What the thread of a pipeline does to it: never its first and never its last step.
Walks(c) ==
  /\ UNCHANGED callers
  /\ worker[c] # "none" /\ worker'[c] # "none"
  /\ \A d \in Callers \ {c} : worker'[d] = worker[d]

LEMMA WalkInTurn ==
  ASSUME TypeOK, InTurn, NEW c \in Callers, Walks(c)
  PROVE  InTurn'
  BY DEF TypeOK, InTurn, Walks, callers, setting, Callers

LEMMA ManagerKeeps ==
  ASSUME IInv, Unload \/ SwapResets \/ SwapSets
  PROVE  IInv'
<1> USE DEF IInv, Unload, SwapResets, SwapSets, DisturbAllBut, callers, setting, step2
<1>1. TypeOK'
  BY DEF TypeOK
<1>2. InTurn'
  BY DEF InTurn
<1>3. Undisturbed'
  BY DEF TypeOK, Undisturbed, Getting
<1>4. QED
  BY <1>1, <1>2, <1>3 DEF RedactedOnce

\* get_transcriber, by the thread of c.
Gets(c) == Resolve(c) \/ ResolveRemote(c) \/ Check(c) \/ Load(c) \/ Return(c)

LEMMA GetsKeep ==
  ASSUME IInv, NEW c \in Callers, Gets(c)
  PROVE  IInv'
<1> USE DEF IInv, Gets, Resolve, ResolveRemote, Check, Load, Return, Got, Goto,
            DisturbAllBut, callers, setting, manager, mine, step2
<1>1. TypeOK'
  <2>1. CASE Resolve(c)
    BY <2>1 DEF TypeOK, Locations
  <2>2. CASE ResolveRemote(c)
    BY <2>2 DEF TypeOK, Locations
  <2>3. CASE Check(c)
    BY <2>3 DEF TypeOK, Locations
  <2>4. CASE Load(c)
    <3>1. /\ worker' \in [Callers -> Locations] /\ transcriber' \in Sizes \cup {NoModel}
          /\ want' \in [Callers -> Sizes \cup {NoModel}]
          /\ using' \in [Callers -> Sizes \cup {NoModel}]
      BY <2>4 DEF TypeOK, Locations
    <3>2. overlapped' \in [Callers -> BOOLEAN]
      BY <2>4 DEF TypeOK
    <3>3. UNCHANGED <<process, backend, caller, job, queue, stt, swapTo, pending, redacted>>
      BY <2>4
    <3>4. QED
      BY <3>1, <3>2, <3>3 DEF TypeOK
  <2>5. CASE Return(c)
    BY <2>5 DEF TypeOK, Locations
  <2>6. QED
    BY <2>1, <2>2, <2>3, <2>4, <2>5
<1>2. Walks(c)
  BY DEF Walks, TypeOK
<1>3. InTurn'
  BY <1>2, WalkInTurn
<1>4. Undisturbed'
  BY DEF TypeOK, Undisturbed, Getting
<1>5. RedactedOnce'
  BY DEF TypeOK, RedactedOnce
<1>6. QED
  BY <1>1, <1>3, <1>4, <1>5

\* The other steps of the thread of c.
Works(c) ==
  \/ PrepareAudio(c) \/ NoAudio(c) \/ Transcribe(c) \/ TranscribeFails(c)
  \/ Gather(c) \/ CalendarContext(c) \/ AskLlm(c) \/ Cards(c)

LEMMA WorksKeep ==
  ASSUME IInv, NEW c \in Callers, Works(c)
  PROVE  IInv'
<1> USE DEF IInv, Works, PrepareAudio, NoAudio, Transcribe, TranscribeFails, Gather,
            CalendarContext, AskLlm, Cards, Goto, callers, setting, manager, mine, step2
<1>1. TypeOK'
  BY DEF TypeOK, Locations, Steps
<1>2. Walks(c)
  BY DEF Walks, TypeOK
<1>3. InTurn'
  BY <1>2, WalkInTurn
<1>4. Undisturbed'
  BY DEF TypeOK, Undisturbed, Getting
<1>5. RedactedOnce'
  BY DEF TypeOK, RedactedOnce
<1>6. QED
  BY <1>1, <1>3, <1>4, <1>5

\* A task of step 2 that ends.
Tasks(c) == Diarize(c) \/ SearchKnowledge(c) \/ Redact(c) \/ RedactFails(c)

LEMMA TasksKeep ==
  ASSUME IInv, NEW c \in Callers, Tasks(c)
  PROVE  IInv'
<1> USE DEF IInv, Tasks, Diarize, SearchKnowledge, Redact, RedactFails, Enrich, PiiResult,
            Finished, callers, setting, manager, mine
<1>1. TypeOK'
  BY DEF TypeOK, Steps
<1>2. InTurn'
  BY DEF InTurn
<1>3. Undisturbed'
  BY DEF Undisturbed
<1>4. RedactedOnce'
  BY DEF TypeOK, RedactedOnce, Steps
<1>5. QED
  BY <1>1, <1>2, <1>3, <1>4

-----------------------------------------------------------------------------
(* The theorems. *)

LEMMA NextKeeps == IInv /\ [Next]_vars => IInv'
<1> SUFFICES ASSUME IInv, [Next]_vars PROVE IInv'
  OBVIOUS
<1>1. CASE UNCHANGED vars
  BY <1>1 DEF vars, callers, setting, manager, mine, step2, IInv, TypeOK, InTurn, Undisturbed,
              RedactedOnce
<1>2. CASE Unload \/ SwapResets \/ SwapSets
  BY <1>2, ManagerKeeps
<1>3. ASSUME NEW c \in Callers, Analyze(c) PROVE IInv'
  BY <1>3, AnalyzeKeeps
<1>4. ASSUME NEW c \in Callers, Acquire(c) PROVE IInv'
  BY <1>4, StartKeeps DEF Acquire, Jobs
<1>5. ASSUME NEW c \in Callers, AnalyzeDirectly(c) \/ TriggerAnalyzes(c) PROVE IInv'
  BY <1>5, StartKeeps, CallersAssumption DEF AnalyzeDirectly, TriggerAnalyzes, Jobs
<1>6. ASSUME NEW c \in Callers, WebAnalyzes(c) \/ WebStreams(c) PROVE IInv'
  BY <1>6, StartKeeps DEF WebStreams, WebAnalyzes, Jobs
<1>7. ASSUME NEW c \in Callers, CliAnalyze(c) \/ ListenEnds(c) \/ MeetingEnds(c) PROVE IInv'
  BY <1>7, StartKeeps DEF CliAnalyze, ListenEnds, MeetingEnds, MainAnalyzes, Jobs
<1>8. ASSUME NEW c \in Callers, LiveSummary(c) \/ MeetingTrigger(c) PROVE IInv'
  BY <1>8, StartKeeps DEF LiveSummary, MeetingTrigger, InBackground, Jobs
<1>9. ASSUME NEW c \in Callers, TimeLimit(c) \/ Reply(c) PROVE IInv'
  BY <1>9, TimeLimitKeeps, ReplyKeeps
<1>10. ASSUME NEW c \in Callers, Thread(c) PROVE IInv'
  BY <1>10, GetsKeep, WorksKeep DEF Thread, Gets, Works
<1>11. ASSUME NEW c \in Callers, Tasks(c) PROVE IInv'
  BY <1>11, TasksKeep
<1>12. QED
  BY <1>1, <1>2, <1>3, <1>4, <1>5, <1>6, <1>7, <1>8, <1>9, <1>10, <1>11 DEF Next, Tasks

LEMMA Inductive == Spec => []IInv
  BY InitHolds, NextKeeps, PTL DEF Spec

\* All that the analyses and the model manager keep stays well-typed, for any number
\* of callers and any sizes.
THEOREM TypeCorrect == Spec => []TypeOK
<1>1. IInv => TypeOK
  BY DEF IInv
<1>2. QED
  BY Inductive, <1>1, PTL

\* However many clients call Analyze, and however many of them are told that their time
\* is up: one pipeline of theirs runs, the one of the first in the queue.
THEOREM OneAtATime == Spec => []OneAnalyzeAtATime
<1>1. IInv => OneAnalyzeAtATime
  BY DEF IInv, InTurn, OneAnalyzeAtATime, Alive
<1>2. QED
  BY Inductive, <1>1, PTL

\* Only its own thread takes a pipeline from one of its places to another.
LEMMA OwnThread ==
  ASSUME TypeOK, Next, NEW c \in Callers, worker[c] \notin {"none", "done"},
         worker'[c] # worker[c]
  PROVE  Thread(c)
<1>1. \A d \in Callers, j \in Jobs : ~Start(d, j)
  BY DEF Start, Goto, TypeOK
<1>2. ASSUME NEW d \in Callers,
             \/ Analyze(d) \/ Acquire(d) \/ AnalyzeDirectly(d) \/ TriggerAnalyzes(d)
             \/ WebAnalyzes(d) \/ WebStreams(d) \/ CliAnalyze(d) \/ ListenEnds(d)
             \/ MeetingEnds(d) \/ LiveSummary(d) \/ MeetingTrigger(d)
      PROVE  FALSE
  BY <1>1, <1>2 DEF Analyze, Acquire, AnalyzeDirectly, TriggerAnalyzes, WebAnalyzes, WebStreams,
       CliAnalyze, ListenEnds, MeetingEnds, MainAnalyzes, LiveSummary, MeetingTrigger,
       InBackground, Jobs
<1>3. ASSUME NEW d \in Callers, TimeLimit(d) \/ Reply(d) PROVE FALSE
  BY <1>3 DEF TypeOK, TimeLimit, Reply, Answer, AnswerLate, Goto
<1>4. ASSUME NEW d \in Callers, Tasks(d) PROVE FALSE
  BY <1>4 DEF Tasks, Diarize, SearchKnowledge, Redact, RedactFails, Enrich, PiiResult
<1>5. ASSUME NEW d \in Callers, Thread(d) PROVE d = c
  <2>1. \E l : Goto(d, l)
    BY <1>5 DEF Thread, PrepareAudio, NoAudio, Resolve, ResolveRemote, Check, Load, Return,
         Transcribe, TranscribeFails, Gather, CalendarContext, AskLlm, Cards
  <2>2. QED
    BY <2>1 DEF Goto, TypeOK
<1>6. ~(Unload \/ SwapResets \/ SwapSets)
  BY DEF Unload, SwapResets, SwapSets
<1>7. QED
  BY <1>2, <1>3, <1>4, <1>5, <1>6 DEF Next, Tasks

\* A get_transcriber that nobody disturbs returns a transcriber of the configured size,
\* for any number of threads that load, swap and unload without a lock.
THEOREM SettlesModel == Spec => SettledModel
<1>1. IInv /\ [Next]_vars =>
        [\A c \in Callers :
           worker[c] = "return" /\ worker'[c] = "stt" /\ ~overlapped[c] => using'[c] = stt]_vars
  <2> SUFFICES ASSUME IInv, Next, NEW c \in Callers,
                      worker[c] = "return", worker'[c] = "stt", ~overlapped[c]
               PROVE  using'[c] = stt
    OBVIOUS
  <2>1. Return(c)
    <3>1. Thread(c)
      BY OwnThread DEF IInv
    <3>2. QED
      BY <3>1 DEF Thread, PrepareAudio, NoAudio, Resolve, ResolveRemote, Check, Load,
           Transcribe, TranscribeFails, Gather, CalendarContext, AskLlm, Cards
  <2>2. QED
    BY <2>1 DEF IInv, TypeOK, Undisturbed, Return, Got, Getting
<1>2. QED
  BY Inductive, <1>1, PTL DEF Spec, SettledModel

\* No slow neighbour of the redaction makes the request carry the raw transcript.
THEOREM RawOnlyThen == Spec => RawOnlyOnFallback
<1>1. IInv /\ [Next]_vars =>
        [\A c \in Callers :
           worker[c] = "step2" /\ worker'[c] = "calendar" /\ redacted[c] = "yes" =>
             redacted'[c] = "yes"]_vars
  <2> SUFFICES ASSUME IInv, Next, NEW c \in Callers,
                      worker[c] = "step2", worker'[c] = "calendar", redacted[c] = "yes"
               PROVE  redacted'[c] = "yes"
    OBVIOUS
  <2>1. Gather(c)
    <3>1. Thread(c)
      BY OwnThread DEF IInv
    <3>2. QED
      BY <3>1 DEF Thread, PrepareAudio, NoAudio, Resolve, ResolveRemote, Check, Load, Return,
           Transcribe, TranscribeFails, CalendarContext, AskLlm, Cards
  <2>2. QED
    BY <2>1 DEF IInv, TypeOK, RedactedOnce, Gather
<1>2. QED
  BY Inductive, <1>1, PTL DEF Spec, RawOnlyOnFallback
=============================================================================
