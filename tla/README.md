# VoiceForge in TLA+

VoiceForge is a local-first meeting assistant: a Python daemon records microphone and monitor audio
with `pw-record`, transcribes it, asks an LLM for an analysis and keeps the results in SQLite.  The
CLI, the Tauri desktop client and a small web server talk to it.  These modules specify the parts
where threads, processes, timeouts and failures meet, check them with TLC on small instances and
prove the central theorems with TLAPS.  Paths below are relative to `src/src/voiceforge/`.

## The system

| Component | State it keeps | Operations | Talks to |
|---|---|---|---|
| LLM circuit breaker (`llm/circuit_breaker.py`) | per key: closed / open / half_open, failure count, time of the last failure | `can_execute`, `record_success`, `record_failure`, `_completion_with_breaker` | the LLM router, the local LLM |
| Listening session (`core/daemon.py`) | `_listen_active`, four threads, four stop Events, `_listen_capture`, `_streaming_capture` | `listen_start`, `listen_stop`, the loops | D-Bus, the calendar thread, the signal handler |
| Push-to-capture (`core/daemon.py`) | start marker, watcher thread and its Event, session memory, cards, snippet | `capture_start`, `capture_release`, `_copilot_watcher_loop` | D-Bus, the ring file, the model manager, the pipeline |
| Model manager (`core/model_manager.py`) | the loaded transcriber and diarizer, the configured size | `get_transcriber`, `swap_stt`, `unload_stt` | every analysis, the streaming thread |
| Analysis pipeline (`core/pipeline.py`, `main.py`) | none between runs | STT, then diarization, RAG and PII redaction in parallel under a time limit, then the LLM | the ring file, the model manager, the RAG index, the router |
| LLM router (`llm/router.py`, `llm/cache.py`, `core/metrics.py`) | response cache, ledger of calls and costs, two SQLite files | cache lookup, budget check, call with fallbacks, cost record, reports | the breaker, Ollama, every analysis, the CLI |
| Transcript log (`core/transcript_log.py`, `core/migrations/`) | sessions, segments, analyses, action items, schema version | `log_session`, purge, migrations, action item status | the daemon, CLI, web server |
| RAG (`rag/`) | SQLite FTS and vector tables, index state | add, replace and remove files, hybrid search, watcher | the pipeline, the CLI |
| Audio (`audio/`) | ring buffers, the recorder processes | `start`, `stop`, `get_chunk`, ring file, smart trigger | the listen loop |
| Streaming STT (`stt/streaming.py`) | last partial text, the final segments | `process_chunk` | the streaming thread |
| Calendar, web server, CLI, desktop client, configuration, observability | see PROJECT.json | clients of the above, or state without behaviour | |

### What is hard about each

* **Breaker.** Callers run in several threads and the lock is dropped between the admission of a call
  and the record of its outcome, so outcomes arrive in an order unrelated to the admissions.
  Correct means: it trips exactly on `failure_threshold` failures in a row, a recovered provider is
  used again, calls end.  Around it two libraries repeat and redirect requests without its knowledge.
* **Listening session.** A session is four threads stopped by Events and joined with timeouts; an
  expired join leaves a thread behind that meets the next session's Events and references.  The
  listen thread takes `_listen_lock` on a failure path while `listen_stop` holds it and joins that
  thread.  The signal handler runs on top of the main thread.  Correct means: one session at a time,
  nothing left when inactive, the streaming transcriber never reads a stopped device, calls return,
  a stop is final, SIGTERM ends the process.
* **Push-to-capture.** Each key release is a thread of its own, unordered with the others, with the
  watcher of its own and of newer captures, with `listen_stop` and with the listen loop, all of which
  share one marker, one watcher reference, one Event, one ring file and one model size.
  Correct means: one analysis per capture, of that capture's audio, shown on its own overlay, with
  the model size put back.
* **Model manager.** `get_transcriber` tests and returns an attribute that `unload_stt` and
  `swap_stt` set to None in other threads, without a lock.  Correct means: a caller whom nobody
  disturbs gets a model, of the configured size.
* **Pipeline and D-Bus Analyze.** A time limit whose expiry waits for the work it gave up on; a
  redaction whose expiry passes on unredacted text; callers that take the semaphore and callers that
  do not.  Correct means: D-Bus analyses run one at a time, raw text is a fallback only, every request
  is answered.
* **Router.** The budget is checked, money is spent, the cost is recorded and the answer is cached: four
  steps of concurrent calls over two databases without a common transaction.  Correct means: the
  budget is passed by a bounded amount, and nothing is served that was not recorded.
* **Transcript log.** Migrations are not one transaction with their version record; purge races
  `log_session`; action items live in a table and in JSON.
* **RAG.** Files change while they are hashed, parsed and recorded; a file that fails leaves its part in
  the open transaction; indexers are killed.  Correct means: chunks, vectors and full text agree, and
  what the watcher looks after is not found by text it has lost.

## Modules

| Module | Models | Extended by |
|---|---|---|
| `CircuitBreaker` | the breaker per key, remote callers with retries and fallbacks, streams, local callers | `MCCircuitBreaker`, `CircuitBreaker_proofs` |
| `ListenLifecycle` | listen_start, listen_stop, the four loops, calendar and signals | `MCListenLifecycle`, `ListenLifecycle_proofs` |
| `CopilotCapture` | capture_start, the watcher, releases, analysis results, model size, ring file | `MCCopilotCapture`, `CopilotCapture_proofs`, `CopilotPatience_proofs` |
| `SessionArchive` | what the transcript log promises: sessions appear whole, under an id of their own, and go for good | INSTANCEd by `SessionStore` |
| `SessionStore` | opening and migrating, log_session, purge, get_session_detail, action item updates | `MCSessionStore`, `SessionStore_proofs` |
| `LlmRequests` | every kind of LLM request over the ledger and the response cache, cost reports | `MCLlmRequests`, `LlmRequests_proofs` |
| `Analyses` | who starts an analysis, its pipeline thread, the model manager, step 2, both time limits | `MCAnalyses`, `Analyses_proofs` |
| `RagIndex` | the three tables of the index, indexing by file, directory, analysis and watcher | `MCRagIndex`, `RagIndex_proofs` |

### CircuitBreaker

`state[k]`, `consecutive_failures[k]` and `sinceFailure[k]` are the fields of `_CircuitState`, one per
key; `sinceFailure` counts clock ticks since `last_failure_ts` up to `Cooldown`, which is all that
`can_execute` asks.  A caller is a thread in `_completion_with_breaker` (up to `LastAttempt` attempts,
the breaker asked once) or in `local_llm.classify` / `simple_answer` (one attempt, key `local`).
Each operation under the lock is one action; between them everything may happen.  The provider is
external: it is up or down (`Toggle`) and answers accordingly.  LiteLLM asks the model and then each of `fallbacks[c]`;
an attempt is all of that in one step, since the breaker sees none of it.  A stream is a call with no fallbacks.
Instructor calls the wrapper again after an exception or an answer that does not validate: one more call of the
same caller, admitted and recorded like any other.  `recent` remembers the last
Threshold outcomes of each key, so that a property can compare the state with the history.

### ListenLifecycle

One action per access to shared state: taking `_listen_lock`, each join, each of the two reads of
`_streaming_thread`, opening, publishing, clearing and stopping the capture.  `th[kind][g]` is where
the thread of the g-th session is; `ref[kind]` the thread the daemon still knows; `stop[kind]` the
Event, which sessions share.  `"main"` runs ListenStart, ListenStop and the start inside CaptureStart,
`"calendar"` is the calendar thread, `"sigterm"` the handler, while which `"main"` cannot run.
A join returns when its thread has ended, or (JoinsMayExpire, or when the thread waits for the very
lock held around the join) because its timeout passed.

### CopilotCapture

A release thread (or the watcher at 30 s) walks through `take`, `stop_watcher`, `deref`, `join`,
`segment`, `write`, `opened`, `written`, `save`, `swap`, `stt`, `llm`, `restore`, `publish`, `announce`, which are the steps of
`_do_capture_release_sync` and of `analyze`.  `job[t]` holds what the thread took from the shared
attributes.  `file` says whose audio is in `ring.tmp` and `ring.raw`: a release and the listen loop open (and so truncate),
write and rename the same `ring.tmp` without a lock, and whoever has opened it writes on to wherever the other has renamed
it (`fd`).  `cards` and `snippet` whose results the overlay
status returns, `turns` the listening session each remembered turn belongs to.  Listening is reduced to
`mic`, since ListenLifecycle has the detail.

### SessionStore

A client is a daemon thread, a CLI command or a web request; each opens the database with a
`TranscriptLog` of its own, so `open` / `ddl` / `bump` (`_init_db`, `_run_migrations`) come before every
operation.  `db` is what is committed, `work` what the transaction of the lock's holder has made of it:
Python's `sqlite3` begins one at the first INSERT, UPDATE or DELETE, whereas `executescript` commits each
statement of a migration by itself, which is why the tables and the version are two steps.  A SELECT
sees `db` as it is then, so the three SELECTs of `get_session_detail` and the SELECT and the DELETEs of
`purge_before` are steps of their own.  `seq` is AUTOINCREMENT's counter.  `started_at` is
written in UTC and the cutoff is a local date: `clock` counts ticks of UTC, of which a day has
`DayLength`, and `Offset` is what the local zone is ahead.  The status file is written by truncating it first (`torn`).
One action item stands for all of a session's; segments and reports are not told apart, and FTS rows,
which triggers keep beside the segments in the same transaction, are part of them.

### LlmRequests

A requester is a thread of any process.  It asks one prompt and walks through `faq` (the local model),
`precheck` (the copilot cards' own look at the budget), `lookup`, `expired`, `budget`, `call`, `record`,
`store` to `served`: `complete_structured` and its callers, one step for each database operation, since
each opens, commits and closes a connection of its own.  `recorded[d]` is the sum of the rows of
`llm_calls` of UTC day d, `cache[p]` the row of a prompt, `answer[r]` whether the paid answer a requester
holds is in the ledger.  A stream and `daily-report --llm` go past budget, cache and ledger, as in the code.
`Fails` is a refusal, a failed call, a locked database or the end of the process: all of them lose the
requester's place and nothing that was committed.  `get_cost_today` reads an OperationalError as nothing
spent; `faults` counts how often.  A report reads totals and days in two statements.

### Analyses

`caller[c]` is the one who asked, `worker[c]` the place of the thread that runs its pipeline: the
executor's thread for daemon.analyze (`job` "limited"), the caller's own elsewhere.  `queue` is the
semaphore of the D-Bus interface.  `TimeLimit` is `future.result(timeout)`; `AnswerLate` can only come when the
thread is done, because leaving the `with ThreadPoolExecutor` block waits for it.  `get_transcriber` is
four steps (resolve the size, compare, load, return the attribute), `swap_stt` two; `overlapped` remembers whether
another thread touched the model meanwhile.  In the CLI and the web server no model manager is set, and
each pipeline loads a transcriber for itself.  `pending[c]` are the tasks of step 2, `redacted[c]` what
the LLM will be sent.  The process is chosen initially: in the daemon Analyze calls, releases, trigger and calendar
meet swaps and unloads, in the web server requests meet each other, in the CLI the main thread meets its
background thread.

### RagIndex

A place is a file and a position in it (page and chunk index).  A key is one row of a place: the tables do not keep
a place from having several (`MaxCopies`), and they say for each key what `chunks`, `vec_chunks` and
`fts_chunks` hold; `db` is committed, `work` the open transaction.  `Parse` reads the file and makes the plan
of `plan_diff` from one row of each place, whichever comes last (`Views`), or from none: `get_existing_chunks` takes an
OperationalError for a file without chunks (`NoneSeen`, at most `MaxUnseen` times).  `Apply` does one entry of the plan, in the
order deletions, updates, additions, `Commit` ends
`add_file`.  `FileFails` differs by caller: the watcher and `index FILE` drop the transaction, a directory goes on
with the next file inside it.  `Prune` is `delete_sources_not_in` with its commit.  The watcher's worker takes a `batch`
of files out of `pending` and deals with one after the other (`Ignore`, `IndexIfNeeded`, `Record`), unless an error
outside its try ends the thread (`WorkerDies`).  `excused` remembers, for each PDF,
why its index may be behind the file although no event is outstanding: a change the watcher was not told of, a failed
attempt or a lost batch, a change between hash and parse, another indexer, or rows that were not seen.  An attempt of
the watcher starts without an excuse, unless a place of the file has two rows (`Doubled`): the plan will know of one of them only.

## Runs

| Run | Instance | Shows |
|---|---|---|
| `breaker` | two callers, a remote key with one retry and one fallback, the local key, Threshold 2, Cooldown 1 | tripping, returning, recovery by any provider that stands for the key |
| `breaker_trial` | two callers, one key, Threshold 1 | finding: half-open admits every caller |
| `listen_timely` | two sessions; main, calendar, SIGTERM; joins do not expire; smart trigger, streaming STT | one session at a time; no stopped device read; quiet when inactive; SIGTERM exits |
| `listen_slow` | one session; every failure; joins may expire | calls return; loops end |
| `listen_handler` | one session; main and SIGTERM; nothing fails or expires | finding: the handler deadlocks on the lock its own thread holds |
| `listen_streaming` | one session, joins may expire | finding: a streaming thread that never ends |
| `copilot_patient` | two captures, one turn remembered, a patient user, SwapModel, ListenStop and Analyze in between | one analysis per capture, of its own audio, on its own overlay; the size put back; releases answered |
| `store` | two clients, two sessions, a day of four ticks at UTC+12, from 18:00 to noon of the next day, retention of one day, one kill | whole sessions and reads, a database only a crash can spoil, purges that spare the recent, the log implements its archive |
| `llm` | two requesters; one meeting prompt, one of cards and one other; limit 1, cost up to 1, TTL 1; two days of two hours, three calls, one failing read of the ledger | bounded overdraft, nothing served before it is recorded, reports that add up |
| `analyses` | two clients and one other thread, two sizes, each kind of process, both backends | one D-Bus analysis at a time, a settled model, raw text only as a fallback, every request answered |
| `rag` | a PDF with three contents of up to two texts, a text file with one text or none, up to two rows of a place, rows that are once not seen | tables that agree, no stale text without an excuse |
| `copilot_autorelease` | one capture held for 30 s | finding: the auto-release kills its own thread |

**Bounds.** Two callers are enough for every race of admissions and outcomes, Threshold 2 tells "in a
row" from "in total"; one fallback is enough to answer for the model, and two keys for a caller to come from another.  Two sessions show every effect of an old thread on a new session that the timely
properties exclude; with expiring joins one session already gives all the leftovers the liveness properties are about.
Two captures give every pair of a release and the next capture, and let the turns overflow MaxTurns = 1; the first of them may be
held for 30 s (`LongHolds`); two extras are a calendar analysis and a save of the listen loop, or two of either, or an Analyze,
a SwapModel or a ListenStop.
Two clients are every pair of operations on the store, the 18 hours are the least in which what is
logged during the run expires east of Greenwich (the inherited session is 18 hours older), and both an empty database and one of version 3 are upgraded.
Two requesters are every pair of requests; with a limit of 1 both can pass the check and overdraw, a failing read lets the third call pass as well, and two days
hold a midnight and an expiry.  Two clients of Analyze are one that holds the semaphore and one that waits, and one more
thread is enough to disturb a `get_transcriber`.  Two files that share a text are the least in which one is a duplicate
of the other, two texts in a file the least in which an update and an addition meet.  One reading that does not see the rows gives a place a second row, and every later plan
works on files that have two.
All bounds are constants: `MaxGen`, `MaxCaptures`, `MaxExtras`, `LongHolds`, `MaxTurns`, `MaxSessions`, `FirstTick`, `MaxClock`, `MaxCrashes`, `MaxCalls`, `MaxFaults`, `LastDay`, `Says`, `MaxCopies`, `MaxUnseen`, and in `CircuitBreaker` `Threshold`, `Cooldown`,
`RetryMax` and `FailureCap`.

**Which assumptions a run adds.** `listen_timely` assumes that threads end within the timeouts of the
joins (2 to 5 s); without that the model reaches, as the code does, a second recorder next to a slow
first one, an old thread that clears the newer recorder, and a quick restart that clears an Event of the old session.  `listen_slow`
has expired joins in one session, and asks only for progress.  `copilot_patient` assumes a user who waits for the answer.
`main.js` does not enforce it.  His patience binds neither the calendar thread, which analyses whenever a meeting has ended, nor the
listen loop.  With an impatient user the model reaches states nobody promised to exclude: the cards of a late analysis
over a new recording, a model left at the small size by two overlapping save/swap/restore, the segment of
another capture in the ring file.  The properties are stated where the code can keep them.

**Fairness.** Weak fairness for each thread's own steps: the OS schedules Python threads and
every call has a timeout or ends.  Strong fairness only for obtaining `_listen_lock`.  No fairness for
callers, users, failures, ticks of a periodic loop or the clock unless a property says so; in the breaker the
clock ticks, and `Recovers` is conditional on a provider that stays up and on calls that keep coming; where that
provider is a fallback, on streams of the model that cease, since they have no fallback to save them.

In Analyses each pipeline thread, each waiting caller and the semaphore are served: transcription, the calendar request
and the LLM end or fail (they have time limits of their own or end with their input).  A task of step 2 gets no fairness: it may hang for
ever, and `AnalysisAnswered` holds because `wait` has a limit.

**Stopping.** The runs of ListenLifecycle, CopilotCapture and SessionStore set CHECK_DEADLOCK FALSE:
their bounded numbers of sessions and captures run out, and the process may exit.

## Proofs

TLAPS proves these for every value of the constants that meets the named assumptions (bounds are
natural numbers, `Free` is no client, and the like):

* `CircuitBreaker_proofs`: `TypeCorrect`; `TripsCorrectly`, that a key trips only on Threshold failures
  in a row.  The inductive invariant relates the failure counter to the tail of the recent outcomes.
* `CopilotCapture_proofs`: `TypeCorrect`, which needs that releases and sessions never outnumber
  captures (`Counted`); `NoCaptureTwice`, for any user, patient or not, since the marker
  is the newest capture and unlike every marker a thread has taken (`MarkerIsNewest`).
* `CopilotPatience_proofs`: what holds for `Patient` users, who hold the key and do nothing else, and then wait
  for AnalysisDone; captures, sessions, turns, sizes, swaps, failures and keys held for 30 s
  are arbitrary, and calendar analyses, saves of the listen loop and its end come at any time.  `RecordingWatched`, `CardsFresh`, `CardsOfSnippet`, `SizeComesBack`, `TurnsStayInSession` and
  `HearsItsOwn` follow from one inductive invariant, `PatientInv`.  Its first half, `Order`, is who may run: one
  release or analysis at a time (`OneAtATime`), the watcher that the reference names and no other (`WatcherKnown`),
  alive as long as the marker is there (`MarkerWatched`), and the reference from the start of the watcher to the
  release's join of it (`ReferenceKept`, `ReleaseInOrder`).  Its second half, `Results`, is what each step finds
  and leaves: cards, size, turns, and whose audio may be in `ring.tmp` and `ring.raw`, open or closed.  Without patience two releases share model size and ring
  file and a late analysis fills the cards of the next recording.
  The join is why the order holds: `_do_capture_release_sync` goes on only when the watcher
  is dead, and a watcher that releases on its own dies at the join of itself before it touches any result.
* `ListenLifecycle_proofs`: `TypeCorrect` and `OneCriticalSection` (`_listen_lock` is held by whoever
  is inside `listen_start` or `listen_stop`, and left on every way out) for slow threads and all
  failures.  `SessionsDoNotOverlap`, `RecorderPublished`, `StreamReadsOpenDevice` and `InactiveIsQuiet` assume
  `Timely`: joins do not expire, and importing the audio module does not fail.
  Both can happen, and then these are false: an expired join leaves a thread that
  the next session revives, a failed import clears `_listen_active` while trigger and emitter run.
  The inductive invariant `TimelyInv` adds to types and lock that only the current session has threads
  (`OnlyCurrent`) and the references name them (`RefsCurrent`), how far a `listen_stop` has come (`JoinedAreDead`), that the listen
  thread owns the recorder and leaves nothing behind (`ListenThreadOwns`, `NothingLeft`) and ends only after its
  streaming thread, which lives inside it (`StreamingInside`).  It shows that a `listen_stop` of
  timely threads never has a streaming thread to join: the listen thread that it has joined has done that.
* `SessionStore_proofs`: all the safety properties of its run and `VersionGrows`, among them that the log implements
  `SessionArchive` (`Refines`).  The inductive invariant `IInv` says
  that exactly the lock's holder is inside a transaction (`LockOK`), that what a client believes of the
  schema is true (`SchemaOK`), how far the open transaction has come (`WorkOf`, `StageOf`), that ids
  are given in order (`IdsOK`), and what each client has read and chosen (`ReadOf`, `LoadedOf`,
  `VictimsOf`).  Only `Commit` changes what others see, and it does so while no other client is in a
  transaction; every other step need only be checked for the client that takes it (`OwnStep`).
  `OnlyCrashesSpoil` needs more: while migration 4 is applied and not recorded, its process is about
  to record it (`InGoodHands`), and no busy lock can stop it, since who holds the lock has
  already migrated.
* `LlmRequests_proofs`: `TypeCorrect`, `OverdraftIsBounded`, `PaidFirst` and `ReportsAddUp`.  What is recorded says nothing about the
  calls under way, so the bound is not inductive: `Overdraft` counts each requester that has passed the check and
  not recorded yet (`InFlight`) at the highest price.  Joining them costs a place and needs room under the
  limit, or a failed read; recording gives the place back.  `AskedAndRecorded` says where a prompt
  and an answer are to be found.  `ReportsAddUp` needs that no step takes back what is recorded of any day
  (`LedgerGrows`) and that days whose costs grow do not add up to less (`CostGrows`): the sum is the number of the
  units of cost, so larger costs are a larger finite set.
* `Analyses_proofs`: `TypeCorrect`, `OneAtATime`, `SettlesModel`, `RawOnlyThen`.  `InTurn` says that a D-Bus caller
  stands in the queue once, from its call to its reply, and that only the first has a pipeline, `Undisturbed` that a size
  resolved by an undisturbed `get_transcriber` is still the configured one, `RedactedOnce` that
  nothing is redacted before or after its task.
* `RagIndex_proofs`: `TablesAlwaysAgree` and `NeverStale`.  The open transaction agrees as well as the committed tables (`Agree`),
  after every chunk and wherever the indexer is killed; an addition needs that its row is not there yet, hence that a plan has
  one entry for a place (`OnePlan`) and adds where it has found or been given room (`AddsFree`), even after a failed file has left
  its part in the transaction.  `NeverStale` distinguishes PDFs: one that nobody indexes (`Settled`)
  is in the index as it was recorded and, without an outstanding event, as it reads; of one the watcher is at
  (`BeingIndexed`), each row is already as the file was hashed or has an entry of the plan, which is where it matters that no place
  has a second row when the plan is made.  Between transactions
  nothing is open (`NothingOpen`), so that no indexer commits what another left.

Every invariant and every action property that a passing run checks, and the refinement of `SessionArchive`, has its
theorem.  Checked by TLC only: liveness (`Recovers`, `ReleaseAnswered`, `AnalysisAnswered`, `LoopsEnd`, `SigtermExitsWhenFree` and
both `CallReturns`), which rests on fairness and so on ENABLED, beyond the prover.

## Plan

What is modelled follows the order of the hazards: state shared by threads first, then by processes.  Left are

1. `LlmRequests` composed with `CircuitBreaker`: here a call just fails or succeeds, there nobody asks the price.
2. Two indexers at once over the knowledge base, statement by statement.
3. The sequential algorithms against reference definitions, should one of them come into doubt: ring buffer, overlap of
   streaming segments, rank fusion.

## Not modelled

* Ring buffer, ring file and smart trigger (`audio/`), streaming text (`stt/streaming.py`): each belongs to one thread and
  computes on samples and words; unit tests reach what they do.  The races about them, who writes `ring.raw` and who
  reads a stopped device, are in CopilotCapture and ListenLifecycle.
* The numbers of ranking and embedding, and the text of prompts, templates and exports: data the properties do
  not tell apart.
* Configuration, secrets, preflight checks, observability, translations: they are read, and decide nothing
  that two actors could disagree about.
* `backup`, which copies databases while they are in use; the desktop client, scripts and packaging, which are clients or
  outside the Python program.

## Known behaviours that are not claimed

Most of these the models reach, as the code does; the others were seen in reading it.  Unless a doc is quoted,
nothing in the repository promises otherwise:

* an open circuit bars the fallbacks with the model, although its exception is "so that Instructor can try fallback"
  (circuit_breaker.py:145): Instructor only calls the same wrapper again;
* an answering fallback is recorded as a success of the model that was asked for, so a dead model is never
  skipped; failing streams open the circuit of requests that have fallbacks; the three calls of one request
  can trip a circuit by themselves;
* a signal before `run_until_complete` removes the PID file but does not stop the daemon;
* after a failed audio import the trigger and the emitter keep running and the daemon is inactive;
* a recorder that cannot start, or an error of the listen loop, leaves the daemon "listening" without a recorder; `InactiveMeansQuiet`
  is about the daemon that says it is inactive, and does not see this;
* `_streaming_thread` is tested and dereferenced in two steps: an AttributeError can leave
  listen_stop (or the listen thread's finally) half way;
* `recording_warning` may be announced after `analyzing`, and no property excludes it; two releases whose save, swap and
  restore overlap leave the wrong size;
* what a release transcribes may be what the listen loop saved, a mixture of it and the segment, or an empty file, since both
  write the same `ring.tmp` without a lock; when one renames what the other has just opened or written, the rename of the other
  fails: a release then announces an error, while the listen thread ends and the daemon stays "active" without a recorder;
* a failed mkdir of the ring's directory ends the release's thread without an AnalysisDone;
* the analyses of the calendar thread put their cards over a recording, and next to another capture's transcript;
* a process killed between the ALTER TABLE of migration 4 and its version leaves a database that no
  process can open;
* retention compares UTC dates of sessions with a local date: east of Greenwich a session may go up to the
  zone's offset before it is `retention_days` old.  At UTC+12 with `retention_days = 1` what is logged at 18:00
  UTC is purged at noon, 18 hours later; config.py:210 promises no more than that (`RecentKept` is the exact bound);
* two status updates at once lose one of them, and a crash while the file is written loses all; the web
  server does not update the table;
* a stream of the daemon's analysis and `daily-report --llm` go past budget, cache and ledger; a paid answer whose record fails, or
  whose process ends, is not in the ledger; two equal prompts at once are both paid for; an expired row is
  deleted by its key and takes with it one stored meanwhile; the import of `cost_daily.json` may run twice; over budget the
  cards refuse even what the cache could answer;
* the reply of an analysis that timed out comes when its pipeline ends; `daemon.analyze` logs a session for an error as well and
  resets the cards; tasks of step 2 that are given up keep a process from exiting; the calendar request of the pipeline has
  no time limit of its own;
* `get_transcriber` may return None or the size before a swap, when it is disturbed; the callers that take no
  semaphore can load a second model next to the first;
* the cards, `RefineCopilotAnswer` and `session_context` are sent without redaction; a live summary asks about silence as well; the final analysis
  of `listen` and `meeting` may overlap the background one after an expired join; a stream over SSE
  says "done" after an error;
* the synchronous methods of the D-Bus interface (`IndexPaths`, `RefineCopilotAnswer`) hold up every other call;
* a text file that became empty keeps its chunks; what a failed file has changed is committed by the next file or
  the prune, which takes all chunks of the failed file away; the new name of a file is indexed as a duplicate
  of the old one, whose chunks are pruned then, and a text that several files share goes with the
  file that holds its row: both come back with the next change only;
* the watcher is not told of moves and deletions, does not try again after an error, does not scan at start, loses its events when
  it stops, trusts a hash that was taken before the parser read the file, and keeps its hashes when the
  chunks are pruned;
* an OperationalError while the rows of a file are read makes all its texts new: they are added beside the rows it has, the file
  is recorded as indexed, and the old text stays findable; `plan_diff` then brings one row of each place up to date, and the others
  go only when the whole file does, or one by one when its place is given up;
* a locked database at the watcher's connect or lookup ends its worker thread: the batch is lost, watching goes on, and
  events pile up that nobody deals with;
* the statements of one search see different commits; its connection, kept from the first search, belongs to one thread.
