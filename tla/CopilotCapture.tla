--------------------------- MODULE CopilotCapture ---------------------------
(***************************************************************************)
(* Push-to-capture (core/daemon.py: capture_start, _copilot_watcher_loop,  *)
(* _do_capture_release_sync, capture_release, analyze; the D-Bus methods   *)
(* CaptureStart, CaptureRelease, Analyze and SwapModel).                   *)
(*                                                                         *)
(* CaptureStart runs on the main thread; it marks the start of capture     *)
(* number captures and starts a watcher thread that is to warn at 25 s and *)
(* to release at 30 s.  CaptureRelease returns at once and leaves the      *)
(* work to a thread of its own: take the marker, stop the watcher, write   *)
(* the segment to the ring file, swap the STT model to the small one,      *)
(* analyse, swap back, announce AnalysisDone.  Nothing orders two release  *)
(* threads, and nothing a release and the listen loop, which writes the    *)
(* ring file as well: both through the one ring.tmp, without a lock.       *)
(*                                                                         *)
(* Patient says that the user does nothing but release the key while it is *)
(* held, and nothing at all before the AnalysisDone; the desktop client    *)
(* does not enforce it (main.js sends capture_start and capture_release on *)
(* every key press).                                                       *)
(* Nobody's patience binds the calendar thread (calendar_auto_listen),     *)
(* which analyses when an event has ended.  Listening begins with a        *)
(* capture here; ListenLifecycle has the other ways.                       *)
(***************************************************************************)
EXTENDS Naturals, Sequences

CONSTANTS
  MaxCaptures,  \* bound: presses of the hotkey
  MaxExtras,    \* bound: SwapModel, Analyze, ListenStop, calendar analyses and saves of the listen loop
  MaxTurns,     \* _COPILOT_SESSION_MAX_TURNS
  Sizes,        \* STT model sizes
  Tiny,         \* cfg.copilot_stt_model_size
  Small,        \* cfg.model_size
  Patient,
  LongHolds     \* the captures for which the key may be held for 30 s

ASSUME BoundsAssumption == {MaxCaptures, MaxExtras} \subseteq Nat /\ MaxTurns \in Nat \ {0}
ASSUME PatienceAssumption == Patient \in BOOLEAN
ASSUME SizesAssumption == {Tiny, Small} \subseteq Sizes

Captures == 1..MaxCaptures
Watcher(k) == <<"watcher", k>>
Release(k) == <<"release", k>>
Meeting == <<"meeting", 0>>
Watchers == {Watcher(k) : k \in Captures}
Releases == {Release(k) : k \in Captures}
Loop == <<"listen loop", 0>>
Threads == Watchers \cup Releases \cup {Meeting, Loop}
Calendar == <<"calendar", 0>>     \* its analyses are one step: only their end shows
None == 0            \* no start marker, no AudioCapture, no watcher
Nobody == <<"none", 0>>

VARIABLES
  main,      \* where the main thread is inside capture_start or listen_stop
  key,       \* is the hotkey held down?
  captures, releases, extras,
  session, mic, turns, \* listening sessions so far, the current one's recorder, _copilot_session_turns
  start,     \* _copilot_capture_start_time: the capture it marks, or None
  age,       \* capture -> 0, 1 (25 s have passed) or 2 (30 s have passed)
  warned,    \* _copilot_warning_emitted
  wstop,     \* _copilot_watcher_stop
  wref,      \* _copilot_watcher_thread: the capture it watches, or None
  pc,        \* thread -> where it is
  job,       \* thread -> the marker a watcher saw, the marker a release took and the session of
             \* the AudioCapture it took
  joining,   \* release thread -> the watcher it is joining
  saved,     \* release thread -> saved_stt_size
  status,    \* thread -> outcome of its analysis, and what it announced
  size,      \* ModelManager._stt_model_size
  chosen,    \* the size configured, or requested last by SwapModel
  file,      \* whose audio is in ring.tmp and in ring.raw: sets of threads, {} when empty or absent
  tmp_there, \* is there a file of the name ring.tmp?
  fd,        \* thread -> the name its open file has now ("gone": none any more), or "closed"
  cards,     \* whose results the overlay cards show
  snippet,   \* whose transcript _last_copilot_transcript is
  overlay    \* the last CaptureStateChanged

user == <<main, key, captures, releases, extras>>
listening == <<session, mic>>
marker == <<start, warned>>
watch == <<age, wstop, wref>>
locals == <<job, joining, saved, status>>
model == <<size, chosen>>
disk == <<file, tmp_there, fd>>
results == <<cards, snippet, turns>>
vars == <<user, listening, marker, watch, pc, locals, model, disk, results, overlay>>

Locations == {"unborn", "wait", "judge", "warn", "take", "stop_watcher", "deref", "join", "segment",
              "write", "opened", "written", "save", "swap", "stt", "llm", "restore", "publish", "announce", "dead"}

TypeOK ==
  /\ main \in {"idle", "mark", "arm", "watch", "stopping"} /\ key \in {"up", "down"}
  /\ {captures, releases, session} \subseteq 0..MaxCaptures /\ mic \in {"off", "opening", "on", "lost"}
  /\ turns \in Seq(0..MaxCaptures) /\ Len(turns) <= MaxTurns
  /\ start \in 0..MaxCaptures /\ age \in [Captures -> 0..2] /\ warned \in BOOLEAN
  /\ wstop \in BOOLEAN /\ wref \in 0..MaxCaptures
  /\ pc \in [Threads -> Locations]
  /\ job \in [Threads -> [seen : 0..MaxCaptures, start : 0..MaxCaptures, capture : 0..MaxCaptures]]
  /\ joining \in [Threads -> 0..MaxCaptures] /\ saved \in [Threads -> Sizes]
  /\ status \in [Threads -> {"none", "ok", "error", "announced", "lost"}]
  /\ {size, chosen} \subseteq Sizes
  /\ file \in [tmp : SUBSET Threads, raw : SUBSET Threads] /\ tmp_there \in BOOLEAN /\ extras \in 0..MaxExtras
  /\ fd \in [Threads -> {"closed", "tmp", "raw", "gone"}]
  /\ {cards, snippet} \subseteq Threads \cup {Calendar, Nobody}
  /\ overlay \in {"armed", "recording", "recording_warning", "analyzing"}

Init ==
  /\ main = "idle" /\ key = "up" /\ captures = 0 /\ releases = 0 /\ extras = 0
  /\ session = 0 /\ mic = "off" /\ turns = <<>>
  /\ start = None /\ warned = FALSE
  /\ age = [k \in Captures |-> 0] /\ wstop = FALSE /\ wref = None
  /\ pc = [t \in Threads |-> IF t = Loop THEN "wait" ELSE "unborn"]
  /\ job = [t \in Threads |-> [seen |-> None, start |-> None, capture |-> None]]
  /\ joining = [t \in Threads |-> None] /\ saved = [t \in Threads |-> Small]
  /\ status = [t \in Threads |-> "none"]
  /\ size = Small /\ chosen = Small
  /\ file = [tmp |-> {}, raw |-> {}] /\ tmp_there = FALSE
  /\ fd = [t \in Threads |-> "closed"]
  /\ cards = Nobody /\ snippet = Nobody /\ overlay = "armed"

Running(t) == pc[t] \notin {"unborn", "dead"}
Goto(t, location) == pc' = [pc EXCEPT ![t] = location]

\* What a patient user waits for: every analysis has ended (and the key is up).
Answered == \A t \in Releases \cup {Meeting} : ~Running(t)
\* One more of the calls that are no part of a capture.
Extra == extras < MaxExtras /\ extras' = extras + 1

UserMayAct == main = "idle" /\ (Patient => Answered /\ key = "up")

\* _listen_capture: published once the recorder runs, None otherwise.
listen_capture == IF mic = "on" THEN session ELSE None

-----------------------------------------------------------------------------
(* write_bytes to ring.tmp and os.replace, by a release and by the listen  *)
(* loop.  Who has opened the file keeps it, whatever name it has by then.  *)

OpenTmp(t) ==
  /\ file' = [file EXCEPT !.tmp = {}] /\ tmp_there' = TRUE
  /\ fd' = [fd EXCEPT ![t] = "tmp"]
  /\ Goto(t, "opened")

\* Over all that is there, or over a part of it.
WriteTmp(t) ==
  /\ file' \in IF fd[t] = "gone" THEN {file}
              ELSE {[file EXCEPT ![fd[t]] = all] : all \in {{t}, file[fd[t]] \cup {t}}}
  /\ fd' = [fd EXCEPT ![t] = "closed"]
  /\ Goto(t, "written")
  /\ UNCHANGED tmp_there

ReplaceRaw ==
  /\ tmp_there
  /\ file' = [tmp |-> {}, raw |-> file.tmp] /\ tmp_there' = FALSE
  /\ fd' = [t \in Threads |-> CASE fd[t] = "tmp" -> "raw" [] fd[t] = "raw" -> "gone" [] OTHER -> fd[t]]

-----------------------------------------------------------------------------
(* capture_start, on the main thread                                       *)

\* Somebody may still ask how long capture k has lasted.
Asked(k) == start = k \/ \E t \in Watchers : pc[t] = "judge" /\ job[t].seen = k

\* listen_start does nothing when listening is already active.
CaptureStart ==
  /\ UserMayAct
  /\ key = "up" /\ captures < MaxCaptures
  /\ key' = "down" /\ main' = "mark"
  /\ captures' = captures + 1
  /\ IF mic = "off" THEN mic' = "opening" /\ session' = session + 1
                    ELSE UNCHANGED listening
  /\ age' = [k \in Captures |-> IF Asked(k) THEN age[k] ELSE 0]      \* not read again
  /\ UNCHANGED <<releases, extras, marker, wstop, wref, pc, locals, model, disk, results, overlay>>

\* Faulty variant: the cards of the previous capture stay.
MarkStart_keeps_cards ==
  /\ main = "mark"
  /\ main' = "arm"
  /\ start' = captures /\ warned' = FALSE
  /\ UNCHANGED <<key, captures, releases, extras, listening, watch, pc, locals, model, disk, results, overlay>>

MarkStart ==
  /\ main = "mark"
  /\ main' = "arm"
  /\ start' = captures /\ warned' = FALSE
  /\ cards' = Nobody
  /\ UNCHANGED <<key, captures, releases, extras, listening, watch, pc, locals, model, disk, snippet, turns,
                 overlay>>

\* Faulty variant: the stop Event of the previous watcher stays set.
ArmWatcher_no_clear ==
  /\ main = "arm"
  /\ main' = "watch"
  /\ UNCHANGED <<key, captures, releases, extras, listening, marker, watch, pc, locals, model, disk,
                 results, overlay>>

ArmWatcher ==
  /\ main = "arm"
  /\ main' = "watch"
  /\ wstop' = FALSE
  /\ UNCHANGED <<key, captures, releases, extras, listening, marker, age, wref, pc, locals, model, disk,
                 results, overlay>>

StartWatcher ==
  /\ main = "watch"
  /\ main' = "idle"
  /\ wref' = captures
  /\ Goto(Watcher(captures), "wait")
  /\ overlay' = "recording"
  /\ UNCHANGED <<key, captures, releases, extras, listening, marker, age, wstop, locals, model, disk, results>>

-----------------------------------------------------------------------------
(* _copilot_watcher_loop                                                   *)

\* Time passes for capture k.
Age(k) ==
  /\ Asked(k)
  /\ age[k] < IF k \in LongHolds THEN 2 ELSE 1
  /\ age' = [age EXCEPT ![k] = @ + 1]
  /\ UNCHANGED <<user, listening, marker, wstop, wref, pc, locals, model, disk, results, overlay>>

WatcherTick(k) ==
  /\ pc[Watcher(k)] = "wait"
  /\ ~wstop
  /\ job' = [job EXCEPT ![Watcher(k)].seen = start]
  /\ Goto(Watcher(k), IF start = None THEN "dead" ELSE "judge")
  /\ UNCHANGED <<user, listening, marker, watch, joining, saved, status, model, disk, results, overlay>>

WatcherStops(k) ==
  /\ pc[Watcher(k)] = "wait"
  /\ wstop
  /\ job' = [job EXCEPT ![Watcher(k)].seen = None]
  /\ Goto(Watcher(k), "dead")
  /\ UNCHANGED <<user, listening, marker, watch, joining, saved, status, model, disk, results, overlay>>

\* The elapsed time is that of the marker read before the lock was released.
WatcherJudges(k) ==
  /\ pc[Watcher(k)] = "judge"
  /\ LET elapsed == age[job[Watcher(k)].seen]
     IN /\ Goto(Watcher(k), CASE elapsed = 2 -> "take"
                              [] elapsed = 1 /\ ~warned -> "warn"
                              [] OTHER -> "wait")
        /\ warned' = (warned \/ elapsed = 1)
        /\ overlay' = IF elapsed = 2 THEN "analyzing" ELSE overlay
  /\ UNCHANGED <<user, listening, start, watch, locals, model, disk, results>>

WatcherWarns(k) ==
  /\ pc[Watcher(k)] = "warn"
  /\ overlay' = "recording_warning"
  /\ Goto(Watcher(k), "wait")
  /\ UNCHANGED <<user, listening, marker, watch, locals, model, disk, results>>

-----------------------------------------------------------------------------
(* capture_release in a thread of its own; _do_capture_release_sync, also  *)
(* entered by a watcher at 30 s                                            *)

CaptureRelease ==
  /\ main = "idle" /\ key = "down"
  /\ key' = "up" /\ releases' = releases + 1
  /\ Goto(Release(releases + 1), "take")
  /\ overlay' = "analyzing"
  /\ UNCHANGED <<main, captures, extras, listening, marker, watch, locals, model, disk, results>>

\* Faulty variant: the marker stays for the next release.
TakeMarker_keeps_marker(t) ==
  /\ pc[t] = "take"
  /\ job' = [job EXCEPT ![t].start = start, ![t].capture = listen_capture]
  /\ warned' = FALSE
  /\ Goto(t, "stop_watcher")
  /\ UNCHANGED <<user, listening, start, watch, joining, saved, status, model, disk, results, overlay>>

TakeMarker(t) ==
  /\ pc[t] = "take"
  /\ job' = [job EXCEPT ![t].start = start, ![t].capture = listen_capture]
  /\ start' = None /\ warned' = FALSE
  /\ Goto(t, "stop_watcher")
  /\ UNCHANGED <<user, listening, watch, joining, saved, status, model, disk, results, overlay>>

\* Faulty variant: the reference is cleared before the join.
StopWatcher_clears_ref(t) ==
  /\ pc[t] = "stop_watcher"
  /\ IF wref = None THEN Goto(t, "segment") /\ UNCHANGED wstop
                    ELSE Goto(t, "deref") /\ wstop' = TRUE
  /\ wref' = None
  /\ UNCHANGED <<user, listening, marker, age, locals, model, disk, results, overlay>>

StopWatcher(t) ==
  /\ pc[t] = "stop_watcher"
  /\ IF wref = None THEN Goto(t, "segment") /\ UNCHANGED wstop
                    ELSE Goto(t, "deref") /\ wstop' = TRUE
  /\ UNCHANGED <<user, listening, marker, age, wref, locals, model, disk, results, overlay>>

\* join on None is an AttributeError, join of the thread by itself a RuntimeError: either way the
\* thread is gone, without an AnalysisDone.
DerefWatcher(t) ==
  /\ pc[t] = "deref"
  /\ IF wref = None \/ t = Watcher(wref)
     THEN Goto(t, "dead") /\ UNCHANGED joining
     ELSE Goto(t, "join") /\ joining' = [joining EXCEPT ![t] = wref]
  /\ UNCHANGED <<user, listening, marker, watch, job, saved, status, model, disk, results, overlay>>

\* The join expires (2 s) only on a watcher that was told to go on by a newer capture_start: it
\* wakes up every second.
JoinWatcher(t) ==
  /\ pc[t] = "join"
  /\ ~Running(Watcher(joining[t])) \/ ~wstop
  /\ joining' = [joining EXCEPT ![t] = None]
  /\ wref' = None
  /\ Goto(t, "segment")
  /\ UNCHANGED <<user, listening, marker, age, wstop, job, saved, status, model, disk, results, overlay>>

\* Give up with status "error".
Fail(t) ==
  /\ status' = [status EXCEPT ![t] = "error"]
  /\ Goto(t, "announce")

\* No AudioCapture, or get_chunk raised.
NoSegment(t) ==
  /\ pc[t] = "segment"
  /\ Fail(t)
  /\ UNCHANGED <<user, listening, marker, watch, job, joining, saved, model, disk, results, overlay>>

\* Without a marker, but with a recorder, the segment is the pre-roll of one second.
GetSegment(t) ==
  /\ pc[t] = "segment"
  /\ job[t].capture # None
  /\ Goto(t, "write")
  /\ UNCHANGED <<user, listening, marker, watch, locals, model, disk, results, overlay>>

\* The directory is made before the try: an error ends the thread, and nothing is announced.
MakeDirFails(t) ==
  /\ pc[t] = "write"
  /\ status' = [status EXCEPT ![t] = "lost"]
  /\ Goto(t, "dead")
  /\ UNCHANGED <<user, listening, marker, watch, job, joining, saved, model, disk, results, overlay>>

OpenRing(t) ==
  /\ pc[t] = "write"
  /\ OpenTmp(t)
  /\ UNCHANGED <<user, listening, marker, watch, locals, model, results, overlay>>

WriteRing(t) ==
  /\ pc[t] = "opened"
  /\ WriteTmp(t)
  /\ UNCHANGED <<user, listening, marker, watch, locals, model, results, overlay>>

ReplaceRing(t) ==
  /\ pc[t] = "written"
  /\ ReplaceRaw /\ Goto(t, "save")
  /\ UNCHANGED <<user, listening, marker, watch, locals, model, results, overlay>>

\* Faulty variant: the analysis goes on with the ring file as it is.
WriteRingFails_continues(t) ==
  /\ pc[t] \in {"write", "opened", "written"}
  /\ Goto(t, "save")
  /\ fd' = [fd EXCEPT ![t] = "closed"]
  /\ UNCHANGED <<user, listening, marker, watch, locals, model, file, tmp_there, results, overlay>>

\* The open, the write or the replace raised; the replace does when ring.tmp is not there any more.
WriteRingFails(t) ==
  /\ pc[t] \in {"write", "opened", "written"}
  /\ Fail(t)
  /\ fd' = [fd EXCEPT ![t] = "closed"]
  /\ UNCHANGED <<user, listening, marker, watch, job, joining, saved, model, file, tmp_there, results,
                 overlay>>

SaveSize(t) ==
  /\ pc[t] = "save"
  /\ saved' = [saved EXCEPT ![t] = size]
  /\ Goto(t, "swap")
  /\ UNCHANGED <<user, listening, marker, watch, job, joining, status, model, disk, results, overlay>>

SwapToTiny(t) ==
  /\ pc[t] = "swap"
  /\ size' = Tiny
  /\ Goto(t, "stt")
  /\ UNCHANGED <<user, listening, marker, watch, locals, chosen, disk, results, overlay>>

-----------------------------------------------------------------------------
(* analyze: the pipeline reads the ring file and the model, then the       *)
(* results are stored under _copilot_lock                                  *)

Transcribe(t) ==
  /\ pc[t] = "stt"
  /\ Goto(t, "llm")
  /\ UNCHANGED <<user, listening, marker, watch, locals, model, disk, results, overlay>>

\* Faulty variant: the list of turns is never trimmed.
Remember_untrimmed(t) == Append(turns, job[t].capture)

\* The turn is kept for the next analyses: the last MaxTurns of them.
Remember(t) ==
  LET all == Append(turns, job[t].capture)
  IN IF Len(all) > MaxTurns THEN Tail(all) ELSE all

\* With a transcript: the LLM answered, or failed and the cards are emptied.
Analyzed(t, ok) ==
  /\ pc[t] = "llm"
  /\ cards' = IF ok THEN t ELSE Nobody
  /\ turns' = IF t = Meeting THEN turns ELSE Remember(t)
  /\ status' = [status EXCEPT ![t] = IF ok THEN "ok" ELSE "error"]
  /\ Goto(t, IF t = Meeting THEN "announce" ELSE "restore")
  /\ UNCHANGED <<user, listening, marker, watch, job, joining, saved, model, disk, snippet, overlay>>

\* Without a transcript (no audio, STT failed): the cards are emptied.  On a timeout or an
\* exception: nothing is stored.
AnalyzeFails(t) ==
  /\ pc[t] = "llm"
  /\ cards' \in {cards, Nobody}
  /\ status' = [status EXCEPT ![t] = "error"]
  /\ Goto(t, IF t = Meeting THEN "announce" ELSE "restore")
  /\ UNCHANGED <<user, listening, marker, watch, job, joining, saved, model, disk, snippet, turns,
                 overlay>>

\* Faulty variant: the configured size is not restored after a failed analysis.
RestoreSize_only_on_success(t) ==
  /\ pc[t] = "restore"
  /\ size' = IF status[t] = "ok" THEN saved[t] ELSE size
  /\ Goto(t, "publish")
  /\ UNCHANGED <<user, listening, marker, watch, locals, chosen, disk, results, overlay>>

RestoreSize(t) ==
  /\ pc[t] = "restore"
  /\ size' = saved[t]
  /\ saved' = [saved EXCEPT ![t] = Small]      \* not read again
  /\ Goto(t, "publish")
  /\ UNCHANGED <<user, listening, marker, watch, job, joining, status, chosen, disk, results, overlay>>

\* After an exception the function returns before it stores the transcript.
Publish(t) ==
  /\ pc[t] = "publish"
  /\ snippet' \in IF status[t] = "ok" THEN {t} ELSE {t, snippet}
  /\ Goto(t, "announce")
  /\ UNCHANGED <<user, listening, marker, watch, locals, model, disk, cards, turns, overlay>>

\* AnalysisDone.  The watcher's release ends here too, but announces nothing.
Announce(t) ==
  /\ pc[t] = "announce"
  /\ status' = IF t \in Watchers THEN status ELSE [status EXCEPT ![t] = "announced"]
  /\ Goto(t, "dead")
  /\ UNCHANGED <<user, listening, marker, watch, job, joining, saved, model, disk, results, overlay>>

-----------------------------------------------------------------------------
(* The rest of the daemon                                                  *)

CallAnalyze ==
  /\ UserMayAct /\ Extra
  /\ pc[Meeting] = "unborn"
  /\ Goto(Meeting, "stt")
  /\ UNCHANGED <<main, key, captures, releases, listening, marker, watch, locals, model, disk, results, overlay>>

SwapModel(s) ==
  /\ UserMayAct /\ Extra
  /\ size' = s /\ chosen' = s
  /\ UNCHANGED <<main, key, captures, releases, listening, marker, watch, pc, locals, disk, results, overlay>>

\* _calendar_auto_listen_try_analyze: an analysis like that of Analyze, at any time.
CalendarAnalyzes ==
  /\ Extra
  /\ cards' \in {Calendar, Nobody}
  /\ UNCHANGED <<main, key, captures, releases, listening, marker, watch, pc, locals, model, disk, snippet, turns, overlay>>

CallListenStop ==
  /\ UserMayAct /\ Extra
  /\ mic # "off"
  /\ main' = "stopping"
  /\ UNCHANGED <<key, captures, releases, listening, marker, watch, pc, locals, model, disk, results, overlay>>

OpenCapture ==
  /\ mic = "opening"
  /\ mic' = "on"
  /\ UNCHANGED <<user, session, marker, watch, pc, locals, model, disk, results, overlay>>

\* Whatever the listen thread raises ends it; listening stays "active", without a recorder.
LoopDies ==
  /\ mic \in {"opening", "on"}
  /\ mic' = "lost"
  /\ Goto(Loop, "wait") /\ fd' = [fd EXCEPT ![Loop] = "closed"]
  /\ UNCHANGED <<user, session, marker, watch, locals, model, file, tmp_there, results, overlay>>

CloseCapture ==
  /\ mic = "on" /\ main = "stopping" /\ pc[Loop] = "wait"
  /\ mic' = "off"
  /\ UNCHANGED <<user, session, marker, watch, pc, locals, model, disk, results, overlay>>

\* Faulty variant: the conversation survives listen_stop.
ListenStopped_keeps_turns ==
  /\ main = "stopping" /\ mic \in {"off", "lost"}
  /\ main' = "idle" /\ mic' = "off"
  /\ UNCHANGED <<key, captures, releases, extras, session, marker, watch, pc, locals, model, disk, results, overlay>>

\* The listen thread has been joined.
ListenStopped ==
  /\ main = "stopping" /\ mic \in {"off", "lost"}
  /\ main' = "idle" /\ mic' = "off"
  /\ turns' = <<>>
  /\ UNCHANGED <<key, captures, releases, extras, session, marker, watch, pc, locals, model, disk, cards,
                 snippet, overlay>>

\* The listen loop saves the whole recorded ring every few seconds.
PersistRing ==
  /\ \/ pc[Loop] = "wait" /\ mic = "on" /\ Extra /\ OpenTmp(Loop)
     \/ pc[Loop] = "opened" /\ WriteTmp(Loop) /\ UNCHANGED extras
     \/ pc[Loop] = "written" /\ ReplaceRaw /\ Goto(Loop, "wait") /\ UNCHANGED extras
  /\ UNCHANGED <<main, key, captures, releases, listening, marker, watch, locals, model, results, overlay>>

-----------------------------------------------------------------------------

MainThread == MarkStart \/ ArmWatcher \/ StartWatcher \/ ListenStopped

WatcherLoop(k) ==
  WatcherTick(k) \/ WatcherStops(k) \/ WatcherJudges(k) \/ WatcherWarns(k)

ReleaseSteps(t) ==
  \/ TakeMarker(t) \/ StopWatcher(t) \/ DerefWatcher(t) \/ JoinWatcher(t)
  \/ NoSegment(t) \/ GetSegment(t)
  \/ MakeDirFails(t) \/ OpenRing(t) \/ WriteRing(t) \/ ReplaceRing(t) \/ WriteRingFails(t)
  \/ SaveSize(t) \/ SwapToTiny(t)
  \/ Transcribe(t) \/ Analyzed(t, TRUE) \/ Analyzed(t, FALSE) \/ AnalyzeFails(t)
  \/ RestoreSize(t) \/ Publish(t) \/ Announce(t)

ListenThread == OpenCapture \/ PersistRing \/ LoopDies \/ CloseCapture

User == CaptureStart \/ CaptureRelease \/ CallAnalyze \/ CallListenStop \/ \E s \in Sizes : SwapModel(s)

Next ==
  \/ User \/ MainThread \/ ListenThread \/ CalendarAnalyzes
  \/ \E k \in Captures : WatcherLoop(k) \/ Age(k)
  \/ \E t \in Threads \ {Loop} : ReleaseSteps(t)

Spec == Init /\ [][Next]_vars

\* Threads run, waits and the pipeline end.  The user does as he likes; saving the ring may take for ever.
Fairness ==
  /\ WF_vars(MainThread) /\ WF_vars(OpenCapture) /\ WF_vars(CloseCapture)
  /\ \A k \in Captures : WF_vars(WatcherLoop(k))
  /\ \A t \in Threads \ {Loop} : WF_vars(ReleaseSteps(t))

FairSpec == Spec /\ Fairness

-----------------------------------------------------------------------------
(* Properties.                                                             *)

\* What the overlay is told, read under _copilot_lock.
get_copilot_capture_status == [cards |-> cards, snippet |-> snippet]

Recording == start # None /\ main = "idle"

\* "30s auto-stop" (daemon.py:133): a capture being recorded has a live watcher that is not told to
\* stop and that a release will find.
RecordingIsWatched == Recording => wref = start /\ Running(Watcher(start)) /\ ~wstop

\* "clear fast-track and deep-track cards for new recording" (daemon.py:438): while a capture is
\* recorded the overlay shows no card of an earlier capture, nor of an analysis the user asked for.
\* It may show those of the calendar's: no patience of his keeps them away.
FreshCards == Recording => get_copilot_capture_status.cards \in {Nobody, Calendar}

\* Between captures the overlay (GetCopilotCaptureStatus) never shows the cards of one capture with
\* the transcript of another; those of a meeting, also the calendar's, it does.
CardsMatchSnippet ==
  Answered => LET shown == get_copilot_capture_status
              IN  shown.cards \in {Nobody, Meeting, Calendar, shown.snippet}

\* The model is back to the size the user chose when no release is in progress.
SizeRestored == Answered => size = chosen

\* "session memory ... (cleared on listen_stop)" (daemon.py:152): the turns an analysis is given come
\* from the current listening session, and none is left after listen_stop.
TurnsOfThisSession ==
  /\ \A i \in 1..Len(turns) : turns[i] = session
  /\ mic = "off" /\ main = "idle" => turns = <<>>

\* What a release transcribes was never cut for another capture, however its save and those of the
\* listen loop interleave on ring.tmp and ring.raw, and whichever of them fails.  It need not be the
\* segment: it may be what the loop saved, a mixture of both, or empty.
HearsNoOtherCapture == \A t \in Releases : pc[t] = "stt" => file.raw \subseteq {t, Loop}

\* However releases, watchers and key presses race, a capture is handed to one release only, so no
\* capture is analysed (and paid for) twice.
MarkerTakenOnce ==
  \A t, u \in Threads : job[t].start = job[u].start /\ job[t].start # None => t = u

\* CaptureRelease: "signals emitted when done" (dbus_service.py:295).  Whatever step fails, and however
\* releases, watchers and listen loop interleave, a release ends with its AnalysisDone: all but one
\* whose thread the mkdir of the ring's directory has killed.
ReleaseAnswered == \A r \in Releases : pc[r] = "take" ~> status[r] \in {"announced", "lost"}

\* "at 30s auto-release" (daemon.py:394): a capture held for 30 s is analysed and announced.
AutoReleases ==
  \A k \in Captures :
    start = k /\ age[k] = 2 ~> \E t \in Threads : status[t] = "announced" /\ job[t].start = k
=============================================================================
