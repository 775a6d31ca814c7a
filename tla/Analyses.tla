------------------------------ MODULE Analyses ------------------------------
(***************************************************************************)
(* Concurrent analyses: who starts them, the thread that runs each         *)
(* pipeline, the model they share, and the two time limits.                *)
(*                                                                         *)
(* D-Bus Analyze calls wait their turn at Semaphore(1)                     *)
(* (dbus_service.py:240).  A key release and the calendar call             *)
(* daemon.analyze directly; the smart trigger calls run_analyze_pipeline   *)
(* with no limit on its time, and so do the web server and the CLI, in     *)
(* processes of their own.  daemon.analyze runs the pipeline in a          *)
(* ThreadPoolExecutor of one thread and waits analyze_timeout_sec for it.  *)
(* In the daemon the pipeline transcribes with the ModelManager's          *)
(* transcriber, which swaps and unloads replace without a lock; in other   *)
(* processes, which set no model manager, it loads one for itself          *)
(* (pipeline.py:94), unless a service transcribes.  It runs diarization,    *)
(* search and redaction in threads of its own for at most                  *)
(* pipeline_step2_timeout_sec, and then asks the LLM.                      *)
(*                                                                         *)
(* What an analysis says is abstracted to whether there is one; where its  *)
(* cards and its session go afterwards is modules CopilotCapture's and     *)
(* SessionStore's subject.                                                 *)
(***************************************************************************)
EXTENDS Naturals, Sequences, FiniteSets

CONSTANTS
  Clients,     \* Analyze calls over D-Bus, POSTs to the web server, CLI commands
  Others,      \* threads that analyse of their own accord, in the daemon or the CLI
  Sizes,       \* STT model sizes
  NoModel      \* no transcriber

ASSUME CallersAssumption == IsFiniteSet(Clients) /\ Clients \cap Others = {}
ASSUME SizesAssumption == NoModel \notin Sizes

Callers == Clients \cup Others
Steps == {"diarization", "rag", "pii"}

VARIABLES
  process,     \* "daemon", "web" or "cli"; only the daemon has a model manager
  backend,     \* stt_backend: "local" models, or "openai"
  caller,      \* caller -> "idle", "queued", "waiting" for its thread or "late"
  job,         \* caller -> what it runs
  queue,       \* D-Bus calls at the semaphore; the first one holds it
  worker,      \* caller -> where the thread of its pipeline is
  stt,         \* _stt_model_size
  transcriber, \* _transcriber: the size it was loaded with
  swapTo,      \* a swap_stt between its two assignments: the new size
  want,        \* caller -> the size get_transcriber resolved
  using,       \* caller -> the transcriber get_transcriber returned
  overlapped,  \* history: caller -> did another thread touch the model during its get?
  pending,     \* caller -> its step 2 tasks still running
  redacted     \* caller -> what step 2 makes of its transcript for the LLM

setting == <<process, backend>>
callers == <<setting, caller, job, queue>>
manager == <<stt, transcriber, swapTo>>
mine == <<want, using, overlapped>>
step2 == <<pending, redacted>>
vars == <<callers, worker, manager, mine, step2>>

Jobs == {"none", "limited", "bare", "summary"}
Locations == {"none", "audio", "resolve", "check", "load", "return", "stt", "step2",
              "calendar", "llm", "cards", "done"}
Getting == {"check", "load", "return"}

TypeOK ==
  /\ process \in {"daemon", "web", "cli"} /\ backend \in {"local", "openai"}
  /\ caller \in [Callers -> {"idle", "queued", "waiting", "late"}]
  /\ job \in [Callers -> Jobs]
  /\ queue \in Seq(Clients) /\ Len(queue) <= Cardinality(Clients)
  /\ worker \in [Callers -> Locations]
  /\ stt \in Sizes /\ transcriber \in Sizes \cup {NoModel} /\ swapTo \in Sizes \cup {NoModel}
  /\ want \in [Callers -> Sizes \cup {NoModel}]
  /\ using \in [Callers -> Sizes \cup {NoModel}]
  /\ overlapped \in [Callers -> BOOLEAN]
  /\ pending \in [Callers -> SUBSET Steps]
  /\ redacted \in [Callers -> {"no", "failed", "yes", "expired"}]

Init ==
  /\ process \in {"daemon", "web", "cli"} /\ backend \in {"local", "openai"}
  /\ caller = [c \in Callers |-> "idle"] /\ job = [c \in Callers |-> "none"]
  /\ queue = <<>> /\ worker = [c \in Callers |-> "none"]
  /\ stt \in Sizes /\ transcriber = NoModel /\ swapTo = NoModel
  /\ want = [c \in Callers |-> NoModel] /\ using = [c \in Callers |-> NoModel]
  /\ overlapped = [c \in Callers |-> FALSE]
  /\ pending = [c \in Callers |-> {}] /\ redacted = [c \in Callers |-> "no"]

Goto(c, l) == worker' = [worker EXCEPT ![c] = l]

-----------------------------------------------------------------------------
(* Callers.                                                                *)

\* D-Bus Analyze, with valid seconds and template.
Analyze(c) ==
  /\ process = "daemon" /\ c \in Clients /\ caller[c] = "idle"
  /\ caller' = [caller EXCEPT ![c] = "queued"]
  /\ queue' = Append(queue, c)
  /\ UNCHANGED <<setting, job, worker, manager, mine, step2>>

\* A pipeline starts, in a thread the caller waits for or in the caller's own.
Start(c, j) ==
  /\ worker[c] = "none"
  /\ caller' = [caller EXCEPT ![c] = "waiting"]
  /\ job' = [job EXCEPT ![c] = j]
  /\ Goto(c, "audio")
  /\ UNCHANGED <<setting, queue, manager, mine, step2>>

Acquire(c) == caller[c] = "queued" /\ Head(queue) = c /\ Start(c, "limited")

\* A key release or the calendar: daemon.analyze without the semaphore.
AnalyzeDirectly(c) ==
  process = "daemon" /\ c \in Others /\ caller[c] = "idle" /\ Start(c, "limited")

TriggerAnalyzes(c) ==
  process = "daemon" /\ c \in Others /\ caller[c] = "idle" /\ Start(c, "bare")

\* POST /api/analyze, and the same with its answer sent as it comes: a thread for each.
WebAnalyzes(c) == process = "web" /\ c \in Clients /\ caller[c] = "idle" /\ Start(c, "bare")
WebStreams(c) == WebAnalyzes(c)

\* A command of the CLI analyses in its main thread, once at a time.
MainAnalyzes(c) ==
  /\ process = "cli" /\ c \in Clients /\ \A d \in Clients : caller[d] = "idle"
  /\ Start(c, "bare")

\* voiceforge analyze; a dry run, for itself or for an estimate, ends at the LLM.
CliAnalyze(c) == (\A o \in Others : caller[o] = "idle") /\ MainAnalyzes(c)

\* listen and meeting wait for their background thread so many seconds, and then
\* analyse, perhaps beside it.
ListenEnds(c) == MainAnalyzes(c)
MeetingEnds(c) == MainAnalyzes(c)

\* The background thread starts nothing once the command is about to end.
InBackground(c, j) ==
  /\ process = "cli" /\ c \in Others /\ caller[c] = "idle"
  /\ \A d \in Clients : caller[d] = "idle"
  /\ Start(c, j)

LiveSummary(c) == InBackground(c, "summary")
MeetingTrigger(c) == InBackground(c, "bare")

\* future.result(timeout) raises; the executor's block still waits for its thread.
TimeLimit(c) ==
  /\ caller[c] = "waiting" /\ job[c] = "limited" /\ worker[c] # "done"
  /\ caller' = [caller EXCEPT ![c] = "late"]
  /\ UNCHANGED <<setting, job, queue, worker, manager, mine, step2>>

\* The caller has its result; a D-Bus call leaves the semaphore to the next.
Answered(c) ==
  /\ caller' = [caller EXCEPT ![c] = "idle"] /\ job' = [job EXCEPT ![c] = "none"]
  /\ queue' = IF process = "daemon" /\ c \in Clients THEN Tail(queue) ELSE queue
  /\ UNCHANGED <<setting, manager, mine, step2>>

\* Faulty variant: the executor is shut down without waiting for its thread.
AnswerLate_at_once(c) == caller[c] = "late" /\ Answered(c) /\ UNCHANGED worker

AnswerLate(c) ==
  /\ caller[c] = "late" /\ worker[c] = "done" /\ Goto(c, "none")
  /\ Answered(c)

\* An analysis, an estimate, silence or an error; what is saved is SessionStore's
\* subject.
Answer(c) ==
  /\ caller[c] = "waiting" /\ worker[c] = "done" /\ Goto(c, "none")
  /\ Answered(c)

-----------------------------------------------------------------------------
(* The model manager: no lock anywhere.                                    *)

\* Everyone inside get_transcriber but the ones in who has the model changed.
DisturbAllBut(who) ==
  overlapped' = [d \in Callers |-> overlapped[d] \/ (d \notin who /\ worker[d] \in Getting)]

\* unload_stt, when the copilot has been idle.
Unload ==
  /\ process = "daemon" /\ transcriber # NoModel /\ transcriber' = NoModel
  /\ DisturbAllBut({})
  /\ UNCHANGED <<callers, worker, stt, swapTo, want, using, step2>>

\* swap_stt from SwapModel or a key release: first the transcriber, then the size.
SwapResets ==
  /\ process = "daemon" /\ swapTo = NoModel /\ swapTo' \in Sizes
  /\ transcriber' = NoModel
  /\ DisturbAllBut({})
  /\ UNCHANGED <<callers, worker, stt, want, using, step2>>

\* Faulty variant: the requested size is cleared before it is used.
SwapSets_cleared_first ==
  /\ swapTo # NoModel /\ swapTo' = NoModel /\ stt' = swapTo'
  /\ DisturbAllBut({})
  /\ UNCHANGED <<callers, worker, transcriber, want, using, step2>>

SwapSets ==
  /\ swapTo # NoModel /\ stt' = swapTo /\ swapTo' = NoModel
  /\ DisturbAllBut({})
  /\ UNCHANGED <<callers, worker, transcriber, want, using, step2>>

Resolve(c) ==
  /\ worker[c] = "resolve" /\ backend = "local"
  /\ Goto(c, IF process = "daemon" THEN "check" ELSE "load")
  /\ want' = [want EXCEPT ![c] = stt]
  /\ UNCHANGED <<callers, manager, using, overlapped, step2>>

\* Faulty variant: any transcriber that is loaded will do.
Check_any_size(c) ==
  /\ worker[c] = "check"
  /\ Goto(c, IF transcriber # NoModel THEN "return" ELSE "load")
  /\ UNCHANGED <<callers, manager, mine, step2>>

Check(c) ==
  /\ worker[c] = "check"
  /\ Goto(c, IF transcriber = want[c] THEN "return" ELSE "load")
  /\ UNCHANGED <<callers, manager, mine, step2>>

\* get_transcriber is left.
Got(c, t) ==
  /\ using' = [using EXCEPT ![c] = t]
  /\ want' = [want EXCEPT ![c] = NoModel]
  /\ overlapped' = [overlapped EXCEPT ![c] = FALSE]

\* Loading, with its downloads and retries, may fail in the end.
Load(c) ==
  /\ worker[c] = "load"
  /\ \/ /\ process = "daemon" /\ Goto(c, "return")
        /\ transcriber' = want[c]
        /\ DisturbAllBut({c})
        /\ UNCHANGED <<want, using>>
     \/ process # "daemon" /\ Goto(c, "stt") /\ Got(c, want[c]) /\ UNCHANGED transcriber
     \/ Goto(c, "done") /\ Got(c, NoModel) /\ UNCHANGED transcriber
  /\ UNCHANGED <<callers, stt, swapTo, step2>>

\* return self._transcriber: read once more, so perhaps no longer there.
Return(c) ==
  /\ worker[c] = "return" /\ Goto(c, "stt")
  /\ Got(c, transcriber)
  /\ UNCHANGED <<callers, manager, step2>>

\* OpenAIWhisperTranscriber: no model, and no model manager.
ResolveRemote(c) ==
  /\ worker[c] = "resolve" /\ backend = "openai" /\ Goto(c, "stt")
  /\ using' = [using EXCEPT ![c] = stt]
  /\ UNCHANGED <<callers, manager, want, overlapped, step2>>

-----------------------------------------------------------------------------
(* The pipeline.                                                           *)

\* What the ring file has of the last seconds, brought to the rate of the model.
PrepareAudio(c) ==
  /\ worker[c] = "audio" /\ Goto(c, "resolve")
  /\ UNCHANGED <<callers, manager, mine, step2>>

\* No ring file, or less than a second of sound in it.
NoAudio(c) ==
  /\ worker[c] = "audio" /\ Goto(c, "done")
  /\ UNCHANGED <<callers, manager, mine, step2>>

\* Silence, with no step 2 and an LLM request for a summary only; or text.
Transcribe(c) ==
  /\ worker[c] = "stt" /\ using[c] # NoModel
  /\ \/ job[c] # "summary" /\ Goto(c, "done") /\ UNCHANGED <<pending, redacted>>
     \/ /\ job[c] = "summary" /\ Goto(c, "llm")
        /\ redacted' = [redacted EXCEPT ![c] = "yes"] /\ UNCHANGED pending
     \/ /\ Goto(c, "step2")
        /\ pending' = [pending EXCEPT ![c] = Steps] /\ UNCHANGED redacted
  /\ using' = [using EXCEPT ![c] = NoModel]
  /\ UNCHANGED <<callers, manager, want, overlapped>>

\* It raises; certainly so where the manager returned no transcriber.
TranscribeFails(c) ==
  /\ worker[c] = "stt" /\ Goto(c, "done")
  /\ using' = [using EXCEPT ![c] = NoModel]
  /\ UNCHANGED <<callers, manager, want, overlapped, step2>>

Finished(c, s) == s \in pending[c] /\ pending' = [pending EXCEPT ![c] = @ \ {s}]

\* A result, or nothing and a warning.
Enrich(c, s) ==
  /\ Finished(c, s)
  /\ UNCHANGED <<callers, worker, manager, mine, redacted>>

Diarize(c) == Enrich(c, "diarization")
SearchKnowledge(c) == Enrich(c, "rag")

PiiResult(c, r) ==
  /\ Finished(c, "pii") /\ redacted' = [redacted EXCEPT ![c] = r]
  /\ UNCHANGED <<callers, worker, manager, mine>>

Redact(c) == PiiResult(c, "yes")

\* The raw text takes its place: the filter is missing, off or raises.
RedactFails(c) == PiiResult(c, "failed")

\* Faulty variant: the results are collected without a limit.
Gather_without_limit(c) ==
  /\ worker[c] = "step2" /\ pending[c] = {} /\ Goto(c, "calendar")
  /\ UNCHANGED <<callers, manager, mine, step2>>

\* Faulty variant: one task that is not done loses the results of all.
Gather_all_or_nothing(c) ==
  /\ worker[c] = "step2" /\ Goto(c, "calendar")
  /\ redacted' = [redacted EXCEPT ![c] = IF pending[c] # {} THEN "expired" ELSE @]
  /\ pending' = [pending EXCEPT ![c] = {}]
  /\ UNCHANGED <<callers, manager, mine>>

\* wait(futures, timeout) ends when all are done or the limit is up; what still
\* runs is left behind, and its result is not used.
Gather(c) ==
  /\ worker[c] = "step2" /\ Goto(c, "calendar")
  /\ redacted' = [redacted EXCEPT ![c] = IF "pii" \in pending[c] THEN "expired" ELSE @]
  /\ pending' = [pending EXCEPT ![c] = {}]
  /\ UNCHANGED <<callers, manager, mine>>

\* The next meeting from the CalDAV server joins the context, if it is asked for.
CalendarContext(c) ==
  /\ worker[c] = "calendar" /\ Goto(c, "llm")
  /\ UNCHANGED <<callers, manager, mine, step2>>

\* The main request, or the end of a dry run before it; cards are for the daemon.
AskLlm(c) ==
  /\ worker[c] = "llm"
  /\ \/ Goto(c, "done")
     \/ job[c] = "limited" /\ Goto(c, "cards")
  /\ redacted' = [redacted EXCEPT ![c] = "no"]
  /\ UNCHANGED <<callers, manager, mine, pending>>

\* Fast and deep cards for the copilot; their failures leave empty cards.
Cards(c) ==
  /\ worker[c] = "cards" /\ Goto(c, "done")
  /\ UNCHANGED <<callers, manager, mine, step2>>

-----------------------------------------------------------------------------
Thread(c) ==
  \/ PrepareAudio(c) \/ NoAudio(c) \/ Resolve(c) \/ ResolveRemote(c) \/ Check(c) \/ Load(c)
  \/ Return(c) \/ Transcribe(c) \/ TranscribeFails(c)
  \/ Gather(c) \/ CalendarContext(c) \/ AskLlm(c) \/ Cards(c)

Reply(c) == AnswerLate(c) \/ Answer(c)

Next ==
  \/ \E c \in Callers :
       \/ Analyze(c) \/ Acquire(c) \/ AnalyzeDirectly(c) \/ TriggerAnalyzes(c)
       \/ WebAnalyzes(c) \/ WebStreams(c) \/ CliAnalyze(c) \/ ListenEnds(c) \/ MeetingEnds(c)
       \/ LiveSummary(c) \/ MeetingTrigger(c)
       \/ TimeLimit(c) \/ Reply(c) \/ Thread(c)
       \/ Diarize(c) \/ SearchKnowledge(c) \/ Redact(c) \/ RedactFails(c)
  \/ Unload \/ SwapResets \/ SwapSets

Spec == Init /\ [][Next]_vars

\* Transcription, the calendar and the LLM answer or fail in the end, the semaphore
\* serves in turn, and waits with a limit end; step 2 tasks may hang for ever.
Fairness ==
  \A c \in Callers : WF_vars(Thread(c)) /\ WF_vars(Acquire(c)) /\ WF_vars(Reply(c))

FairSpec == Spec /\ Fairness

-----------------------------------------------------------------------------
(* Properties.                                                             *)

Alive(c) == worker[c] # "none"

\* "Semaphore(1) prevents concurrent calls from loading two Whisper instances"
\* (dbus_service.py:229): of all pipelines started by Analyze at most one is
\* running, also after a call was told that its time is up.
OneAnalyzeAtATime ==
  process = "daemon" => \A c, d \in Clients : Alive(c) /\ Alive(d) => c = d

\* "Return Transcriber for current STT model" (model_manager.py:43): with no
\* lock, a load that was overtaken by a swap leaves a transcriber of the old
\* size behind; still a get_transcriber during which no other thread touches the
\* model returns one that is loaded, and of the size that is configured.
SettledModel ==
  [][\A c \in Callers :
       worker[c] = "return" /\ worker'[c] = "stt" /\ ~overlapped[c] => using'[c] = stt]_vars

\* The main request carries the raw transcript only if redaction failed or was
\* not done at the limit of step 2 (pipeline.py:353-361), never because another
\* task was slow.
RawOnlyOnFallback ==
  [][\A c \in Callers :
       worker[c] = "step2" /\ worker'[c] = "calendar" /\ redacted[c] = "yes" =>
         redacted'[c] = "yes"]_vars

\* A request is answered: the limit of step 2 keeps a task that hangs from
\* holding the pipeline, the executor's block and the semaphore for ever.
AnalysisAnswered ==
  \A c \in Clients : caller[c] \in {"queued", "waiting"} ~> caller[c] = "idle"
=============================================================================
