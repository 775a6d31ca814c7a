--------------------------- MODULE ListenLifecycle ---------------------------
(***************************************************************************)
(* Starting and stopping the daemon's listening session                    *)
(* (core/daemon.py: listen_start, listen_stop, _listen_loop,               *)
(* _streaming_loop, _trigger_loop, _dbus_streaming_emitter_loop, and       *)
(* run_daemon's signal handler).                                           *)
(*                                                                         *)
(* Controllers call listen_start and listen_stop: "main" is the asyncio    *)
(* thread, where the D-Bus methods ListenStart, ListenStop and             *)
(* CaptureStart run; "calendar" is the calendar thread; "sigterm" is the   *)
(* signal handler, which Python runs on top of whatever the main thread    *)
(* was doing.  _listen_lock is a plain threading.Lock: not reentrant.      *)
(*                                                                         *)
(* Each successful listen_start starts generation gen of the listen, the   *)
(* emitter and (smart_trigger) the trigger thread; the listen thread       *)
(* starts the streaming thread of its generation.  The threads are stopped *)
(* by Events and joined with a timeout: listen_stop goes on when a join    *)
(* expires.  JoinsMayExpire says whether threads can be slower than the    *)
(* timeouts (2, 3, 4 and 5 seconds in the code).                           *)
(***************************************************************************)
EXTENDS Naturals, FiniteSets

CONSTANTS
  MaxGen,          \* bound: how many sessions are started
  Controllers,     \* which of "main", "calendar", "sigterm" act
  JoinsMayExpire,  \* may a join time out although its thread is making progress?
  Failures,        \* what may go wrong: "import" (no audio module), "device" (pw-record), "write" (ring)
  SmartTrigger,    \* cfg.smart_trigger
  StreamingSTT     \* cfg.streaming_stt

ASSUME MaxGenAssumption == MaxGen \in Nat
ASSUME ControllersAssumption == Controllers \subseteq {"main", "calendar", "sigterm"}
ASSUME SwitchesAssumption ==
  /\ {JoinsMayExpire, SmartTrigger, StreamingSTT} \subseteq BOOLEAN
  /\ Failures \subseteq {"import", "device", "write"}

Gens == 1..MaxGen
NoThread == 0          \* Python's None, for a thread or a capture
NoOne == "no one"
Kinds == {"listen", "streaming", "trigger", "emitter"}

VARIABLES
  lock,              \* owner of _listen_lock
  active,            \* _listen_active
  gen,               \* sessions started so far
  stop,              \* kind -> is its stop Event set?
  ref,               \* kind -> the generation self._<kind>_thread refers to, or NoThread
  th,                \* kind -> generation -> where that thread is
  listen_capture,    \* _listen_capture: generation of the capture, or NoThread
  streaming_capture, \* _streaming_capture
  scap,              \* streaming thread -> the capture it took from _streaming_capture
  mic,               \* generation -> its AudioCapture: "none", "open" or "stopped"
  pc,                \* controller -> where it is
  joining,           \* controller -> the streaming thread it is joining
  closing,           \* listen thread -> the streaming thread it is joining
  process            \* "booting", "serving", "stopping" or "exited"

vars == <<lock, active, gen, stop, ref, th, listen_capture, streaming_capture, scap, mic, pc,
          joining, closing, process>>

session == <<listen_capture, streaming_capture, scap, mic>>

Locations ==
  [listen    |-> {"unborn", "new", "want_lock", "publish", "spawn", "record", "close_check",
                  "close_deref", "close_join", "close_clear", "close_stop", "dead"},
   streaming |-> {"unborn", "begin", "wait", "load", "dead"},
   trigger   |-> {"unborn", "wait", "analyzing", "dead"},
   emitter   |-> {"unborn", "get", "dead"}]

ControllerLocations ==
  {"idle", "want_start", "in_start", "want_stop", "in_stop", "join_emitter", "join_listen",
   "join_trigger", "check_streaming", "deref_streaming", "join_streaming", "finish", "cleanup"}

TypeOK ==
  /\ lock \in Controllers \cup {NoOne}
  /\ active \in BOOLEAN
  /\ gen \in 0..MaxGen
  /\ stop \in [Kinds -> BOOLEAN]
  /\ ref \in [Kinds -> 0..MaxGen]
  /\ th \in [Kinds -> [Gens -> UNION {Locations[k] : k \in Kinds}]]
  /\ \A k \in Kinds, g \in Gens : th[k][g] \in Locations[k]
  /\ listen_capture \in 0..MaxGen /\ streaming_capture \in 0..MaxGen
  /\ scap \in [Gens -> 0..MaxGen]
  /\ mic \in [Gens -> {"none", "open", "stopped"}]
  /\ pc \in [Controllers -> ControllerLocations]
  /\ joining \in [Controllers -> 0..MaxGen] /\ closing \in [Gens -> 0..MaxGen]
  /\ process \in {"booting", "serving", "stopping", "exited"}

Init ==
  /\ lock = NoOne
  /\ active = FALSE
  /\ gen = 0
  /\ stop = [k \in Kinds |-> FALSE]
  /\ ref = [k \in Kinds |-> NoThread]
  /\ th = [k \in Kinds |-> [g \in Gens |-> "unborn"]]
  /\ listen_capture = NoThread
  /\ streaming_capture = NoThread
  /\ scap = [g \in Gens |-> NoThread]
  /\ mic = [g \in Gens |-> "none"]
  /\ pc = [c \in Controllers |-> "idle"]
  /\ joining = [c \in Controllers |-> NoThread] /\ closing = [g \in Gens |-> NoThread]
  /\ process = "booting"

-----------------------------------------------------------------------------
(* Helpers.                                                                *)

Alive(k, g) == th[k][g] \notin {"unborn", "dead"}

Become(k, g, location) == th' = [th EXCEPT ![k][g] = location]

Goto(c, location) == pc' = [pc EXCEPT ![c] = location]

\* The handler has work left once listen_stop returns.
Return(c) == Goto(c, IF c = "sigterm" THEN "cleanup" ELSE "idle")

\* The signal handler suspends the main thread until it returns.
Runnable(c) ==
  /\ process # "exited"
  /\ c = "main" => ("sigterm" \in Controllers => pc["sigterm"] = "idle")

\* Faulty variant: joins without a timeout.
Joined_no_timeout(k, g) == g # NoThread => ~Alive(k, g)

\* Does a join of thread g return?  g has ended, or the timeout expired.  A join held up by a
\* thread that itself waits for _listen_lock can only expire.
Joined(k, g) == g # NoThread => (~Alive(k, g) \/ JoinsMayExpire \/ th[k][g] = "want_lock")

-----------------------------------------------------------------------------
(* listen_start                                                            *)

Acquire(c) ==
  /\ Runnable(c)
  /\ lock = NoOne
  /\ lock' = c
  /\ \/ pc[c] = "want_start" /\ Goto(c, "in_start")
     \/ pc[c] = "want_stop" /\ Goto(c, "in_stop")
  /\ UNCHANGED <<active, gen, stop, ref, th, session, joining, closing, process>>

AlreadyListening(c) ==
  /\ Runnable(c)
  /\ pc[c] = "in_start"
  /\ active
  /\ lock' = NoOne
  /\ Return(c)
  /\ UNCHANGED <<active, gen, stop, ref, th, session, joining, closing, process>>

StartedKinds == {"listen", "emitter"} \cup (IF SmartTrigger THEN {"trigger"} ELSE {})

\* Faulty variant: the emitter thread is given the trigger's target.
FirstLocation_wrong_target(k) == IF k = "listen" THEN "new" ELSE "wait"

FirstLocation(k) == CASE k = "listen" -> "new" [] k = "emitter" -> "get" [] k = "trigger" -> "wait"

ListenStart(c) ==
  /\ Runnable(c)
  /\ pc[c] = "in_start"
  /\ ~active
  /\ gen < MaxGen
  /\ gen' = gen + 1
  /\ stop' = [k \in Kinds |-> stop[k] /\ k \notin StartedKinds]
  /\ ref' = [k \in Kinds |-> IF k \in StartedKinds THEN gen + 1 ELSE ref[k]]
  /\ th' = [k \in Kinds |-> IF k \in StartedKinds
                            THEN [th[k] EXCEPT ![gen + 1] = FirstLocation(k)] ELSE th[k]]
  /\ active' = TRUE
  /\ lock' = NoOne
  /\ Return(c)
  /\ UNCHANGED <<session, joining, closing, process>>

-----------------------------------------------------------------------------
(* listen_stop: everything below happens with _listen_lock held.           *)

NotListening(c) ==
  /\ Runnable(c)
  /\ pc[c] = "in_stop"
  /\ ~active
  /\ lock' = NoOne
  /\ Return(c)
  /\ UNCHANGED <<active, gen, stop, ref, th, session, joining, closing, process>>

\* Faulty variant: the trigger is not told to stop.
SetStopEvents_no_trigger(c) ==
  /\ Runnable(c)
  /\ pc[c] = "in_stop"
  /\ active
  /\ stop' = [stop EXCEPT !["listen"] = TRUE, !["emitter"] = TRUE]
  /\ Goto(c, "join_emitter")
  /\ UNCHANGED <<lock, active, gen, ref, th, session, joining, closing, process>>

SetStopEvents(c) ==
  /\ Runnable(c)
  /\ pc[c] = "in_stop"
  /\ active
  /\ stop' = [k \in Kinds |-> stop[k] \/ k # "streaming"]
  /\ Goto(c, "join_emitter")
  /\ UNCHANGED <<lock, active, gen, ref, th, session, joining, closing, process>>

JoinEmitter(c) ==
  /\ Runnable(c)
  /\ pc[c] = "join_emitter"
  /\ Joined("emitter", ref["emitter"])
  /\ Goto(c, "join_listen")
  /\ UNCHANGED <<lock, active, gen, stop, ref, th, session, joining, closing, process>>

\* Faulty variant: the listen thread is not joined.
JoinListen_skipped(c) ==
  /\ Runnable(c)
  /\ pc[c] = "join_listen"
  /\ Goto(c, "join_trigger")
  /\ UNCHANGED <<lock, active, gen, stop, ref, th, session, joining, closing, process>>

JoinListen(c) ==
  /\ Runnable(c)
  /\ pc[c] = "join_listen"
  /\ Joined("listen", ref["listen"])
  /\ Goto(c, "join_trigger")
  /\ UNCHANGED <<lock, active, gen, stop, ref, th, session, joining, closing, process>>

JoinTrigger(c) ==
  /\ Runnable(c)
  /\ pc[c] = "join_trigger"
  /\ Joined("trigger", ref["trigger"])
  /\ ref' = [ref EXCEPT !["listen"] = NoThread, !["trigger"] = NoThread, !["emitter"] = NoThread]
  /\ stop' = [stop EXCEPT !["streaming"] = TRUE]
  /\ Goto(c, "check_streaming")
  /\ UNCHANGED <<lock, active, gen, th, session, joining, closing, process>>

\* "if self._streaming_thread:" ...
CheckStreaming(c) ==
  /\ Runnable(c)
  /\ pc[c] = "check_streaming"
  /\ Goto(c, IF ref["streaming"] = NoThread THEN "finish" ELSE "deref_streaming")
  /\ UNCHANGED <<lock, active, gen, stop, ref, th, session, joining, closing, process>>

\* ... "self._streaming_thread.join(timeout=4.0)": the attribute is read again.
DerefStreaming(c) ==
  /\ Runnable(c)
  /\ pc[c] = "deref_streaming"
  /\ ref["streaming"] # NoThread
  /\ joining' = [joining EXCEPT ![c] = ref["streaming"]]
  /\ Goto(c, "join_streaming")
  /\ UNCHANGED <<lock, active, gen, stop, ref, th, session, closing, process>>

\* It became None in between: AttributeError leaves listen_stop, releasing the lock.  ListenStop
\* catches it; out of the signal handler it ends the event loop, or a D-Bus callback swallows it.
DerefStreamingFails(c) ==
  /\ Runnable(c)
  /\ pc[c] = "deref_streaming"
  /\ ref["streaming"] = NoThread
  /\ lock' = NoOne
  /\ Goto(c, "idle")
  /\ process' \in IF c = "sigterm" THEN {process, "exited"} ELSE {process}
  /\ UNCHANGED <<active, gen, stop, ref, th, session, joining, closing>>

JoinStreaming(c) ==
  /\ Runnable(c)
  /\ pc[c] = "join_streaming"
  /\ Joined("streaming", joining[c])
  /\ joining' = [joining EXCEPT ![c] = NoThread]
  /\ Goto(c, "finish")
  /\ UNCHANGED <<lock, active, gen, stop, ref, th, session, closing, process>>

ListenStopped(c) ==
  /\ Runnable(c)
  /\ pc[c] = "finish"
  /\ ref' = [ref EXCEPT !["streaming"] = NoThread]
  /\ streaming_capture' = NoThread
  /\ active' = FALSE
  /\ lock' = NoOne
  /\ Return(c)
  /\ UNCHANGED <<gen, stop, th, listen_capture, scap, mic, joining, closing, process>>

-----------------------------------------------------------------------------
(* _listen_loop, generation g                                              *)

Listen(g, from) == process # "exited" /\ th["listen"][g] = from

ImportFails(g) ==
  /\ Listen(g, "new")
  /\ "import" \in Failures
  /\ Become("listen", g, "want_lock")
  /\ UNCHANGED <<lock, active, gen, stop, ref, session, pc, joining, closing, process>>

ClearActive(g) ==
  /\ Listen(g, "want_lock")
  /\ lock = NoOne
  /\ active' = FALSE
  /\ Become("listen", g, "dead")
  /\ UNCHANGED <<lock, gen, stop, ref, session, pc, joining, closing, process>>

\* pw-record is missing: capture.start() raises and the thread dies.
DeviceFails(g) ==
  /\ Listen(g, "new")
  /\ "device" \in Failures
  /\ Become("listen", g, "dead")
  /\ UNCHANGED <<lock, active, gen, stop, ref, session, pc, joining, closing, process>>

OpenCapture(g) ==
  /\ Listen(g, "new")
  /\ mic' = [mic EXCEPT ![g] = "open"]
  /\ Become("listen", g, "publish")
  /\ UNCHANGED <<lock, active, gen, stop, ref, listen_capture, streaming_capture, scap, pc,
                 joining, closing, process>>

PublishCapture(g) ==
  /\ Listen(g, "publish")
  /\ listen_capture' = g
  /\ IF StreamingSTT
     THEN /\ stop' = [stop EXCEPT !["streaming"] = FALSE]
          /\ streaming_capture' = g
          /\ Become("listen", g, "spawn")
     ELSE /\ UNCHANGED <<stop, streaming_capture>>
          /\ Become("listen", g, "record")
  /\ UNCHANGED <<lock, active, gen, ref, scap, mic, pc, joining, closing, process>>

SpawnStreaming(g) ==
  /\ Listen(g, "spawn")
  /\ ref' = [ref EXCEPT !["streaming"] = g]
  /\ th' = [th EXCEPT !["listen"][g] = "record", !["streaming"][g] = "begin"]
  /\ UNCHANGED <<lock, active, gen, stop, session, pc, joining, closing, process>>

\* The loop ends: the stop Event is set, or saving the ring raised.
EndRecording(g) ==
  /\ Listen(g, "record")
  /\ stop["listen"] \/ "write" \in Failures
  /\ Become("listen", g, "close_check")
  /\ UNCHANGED <<lock, active, gen, stop, ref, session, pc, joining, closing, process>>

\* Faulty variant: the capture is stopped under the streaming thread.
CloseCheck_no_join(g) ==
  /\ Listen(g, "close_check")
  /\ Become("listen", g, "close_clear")
  /\ UNCHANGED <<lock, active, gen, stop, ref, session, pc, joining, closing, process>>

CloseCheck(g) ==
  /\ Listen(g, "close_check")
  /\ IF ref["streaming"] = NoThread
     THEN Become("listen", g, "close_clear") /\ UNCHANGED stop
     ELSE Become("listen", g, "close_deref") /\ stop' = [stop EXCEPT !["streaming"] = TRUE]
  /\ UNCHANGED <<lock, active, gen, ref, session, pc, joining, closing, process>>

CloseDeref(g) ==
  /\ Listen(g, "close_deref")
  /\ IF ref["streaming"] = NoThread
     THEN Become("listen", g, "dead") /\ UNCHANGED closing     \* AttributeError in the finally
     ELSE Become("listen", g, "close_join") /\ closing' = [closing EXCEPT ![g] = ref["streaming"]]
  /\ UNCHANGED <<lock, active, gen, stop, ref, session, pc, joining, process>>

CloseJoin(g) ==
  /\ Listen(g, "close_join")
  /\ Joined("streaming", closing[g])
  /\ closing' = [closing EXCEPT ![g] = NoThread]
  /\ ref' = [ref EXCEPT !["streaming"] = NoThread]
  /\ Become("listen", g, "close_clear")
  /\ UNCHANGED <<lock, active, gen, stop, session, pc, joining, process>>

\* Faulty variant: _listen_capture keeps the stopped capture.
CloseClear_keeps_capture(g) ==
  /\ Listen(g, "close_clear")
  /\ streaming_capture' = NoThread
  /\ Become("listen", g, "close_stop")
  /\ UNCHANGED <<lock, active, gen, stop, ref, listen_capture, scap, mic, pc, joining, closing, process>>

CloseClear(g) ==
  /\ Listen(g, "close_clear")
  /\ streaming_capture' = NoThread
  /\ listen_capture' = NoThread
  /\ Become("listen", g, "close_stop")
  /\ UNCHANGED <<lock, active, gen, stop, ref, scap, mic, pc, joining, closing, process>>

StopCapture(g) ==
  /\ Listen(g, "close_stop")
  /\ mic' = [mic EXCEPT ![g] = "stopped"]
  /\ Become("listen", g, "dead")
  /\ UNCHANGED <<lock, active, gen, stop, ref, listen_capture, streaming_capture, scap, pc,
                 joining, closing, process>>

ListenLoop(g) ==
  \/ ClearActive(g) \/ OpenCapture(g) \/ PublishCapture(g) \/ SpawnStreaming(g)
  \/ EndRecording(g) \/ CloseCheck(g) \/ CloseDeref(g) \/ CloseJoin(g) \/ CloseClear(g)
  \/ StopCapture(g)

ListenFault(g) == ImportFails(g) \/ DeviceFails(g)

-----------------------------------------------------------------------------
(* _streaming_loop, _trigger_loop and the emitter, generation g            *)

StreamingBegin(g) ==
  /\ process # "exited"
  /\ th["streaming"][g] = "begin"
  /\ scap' = [scap EXCEPT ![g] = streaming_capture]
  /\ Become("streaming", g, IF streaming_capture = NoThread THEN "dead" ELSE "wait")
  /\ UNCHANGED <<lock, active, gen, stop, ref, listen_capture, streaming_capture, mic, pc,
                 joining, closing, process>>

\* The interval passed without a stop: fetch (maybe load) the transcriber.
StreamingTick(g) ==
  /\ process # "exited"
  /\ th["streaming"][g] = "wait"
  /\ ~stop["streaming"]
  /\ Become("streaming", g, "load")
  /\ UNCHANGED <<lock, active, gen, stop, ref, session, pc, joining, closing, process>>

\* get_chunk, then process_chunk.
StreamingRead(g) ==
  /\ process # "exited"
  /\ th["streaming"][g] = "load"
  /\ Become("streaming", g, "wait")
  /\ UNCHANGED <<lock, active, gen, stop, ref, session, pc, joining, closing, process>>

\* SmartTrigger.check: a pause after enough speech, and no analysis for a while.
TriggerFires(g) ==
  /\ process # "exited"
  /\ th["trigger"][g] = "wait"
  /\ ~stop["trigger"]
  /\ Become("trigger", g, "analyzing")
  /\ UNCHANGED <<lock, active, gen, stop, ref, session, pc, joining, closing, process>>

TriggerAnalyzed(g) ==
  /\ process # "exited"
  /\ th["trigger"][g] = "analyzing"
  /\ Become("trigger", g, "wait")
  /\ UNCHANGED <<lock, active, gen, stop, ref, session, pc, joining, closing, process>>

SeesStop(k, g) ==
  /\ process # "exited"
  /\ th[k][g] \in {"wait", "get"}
  /\ stop[k]
  /\ Become(k, g, "dead")
  /\ UNCHANGED <<lock, active, gen, stop, ref, session, pc, joining, closing, process>>

StreamingLoop(g) == StreamingBegin(g) \/ StreamingRead(g) \/ SeesStop("streaming", g)

TriggerLoop(g) == TriggerAnalyzed(g) \/ SeesStop("trigger", g)

EmitterLoop(g) == SeesStop("emitter", g)

Periodic(g) == StreamingTick(g) \/ TriggerFires(g)

-----------------------------------------------------------------------------
(* Who calls: D-Bus methods, the calendar thread, SIGTERM or SIGINT.       *)

Calls(c) ==
  /\ Runnable(c)
  /\ pc[c] = "idle"
  /\ UNCHANGED <<lock, active, gen, stop, ref, th, session, joining, closing, process>>

StartsPending == Cardinality({c \in Controllers : pc[c] \in {"want_start", "in_start"}})

CallListenStart ==
  /\ "main" \in Controllers /\ process = "serving"
  /\ gen + StartsPending < MaxGen
  /\ Calls("main") /\ Goto("main", "want_start")

CallListenStop ==
  /\ "main" \in Controllers /\ process = "serving"
  /\ Calls("main") /\ Goto("main", "want_stop")

\* is_listening() takes the lock too, and releases it before listen_start takes it again.
CalendarEvent ==
  /\ "calendar" \in Controllers
  /\ lock = NoOne /\ ~active
  /\ gen + StartsPending < MaxGen
  /\ Calls("calendar") /\ Goto("calendar", "want_start")

Signal ==
  /\ "sigterm" \in Controllers
  /\ process \in {"booting", "serving"}
  /\ pc["sigterm"] = "idle"
  /\ Goto("sigterm", "want_stop")
  /\ UNCHANGED <<lock, active, gen, stop, ref, th, session, joining, closing, process>>

\* run_until_complete begins: from here on the handler finds loop.is_running().
Serve ==
  /\ process = "booting"
  /\ Runnable("main")
  /\ process' = "serving"
  /\ UNCHANGED <<lock, active, gen, stop, ref, th, session, pc, joining, closing>>

\* Faulty variant: the handler forgets to stop the loop.
Cleanup_keeps_serving ==
  /\ process # "exited"
  /\ "sigterm" \in Controllers /\ pc["sigterm"] = "cleanup"
  /\ Goto("sigterm", "idle")
  /\ UNCHANGED <<lock, active, gen, stop, ref, th, session, joining, closing, process>>

\* The handler removes ring.raw and the PID file, then stops the loop if there is one running.
Cleanup ==
  /\ process # "exited"
  /\ "sigterm" \in Controllers /\ pc["sigterm"] = "cleanup"
  /\ process' = IF process = "serving" THEN "stopping" ELSE process
  /\ Goto("sigterm", "idle")
  /\ UNCHANGED <<lock, active, gen, stop, ref, th, session, joining, closing>>

\* stop_event is set and the main thread is back in the loop: the process ends, and with it
\* every daemon thread.
Exit ==
  /\ process = "stopping"
  /\ Runnable("main") /\ ("main" \in Controllers => pc["main"] = "idle")
  /\ process' = "exited"
  /\ UNCHANGED <<lock, active, gen, stop, ref, th, session, pc, joining, closing>>

-----------------------------------------------------------------------------

Controller(c) ==
  \/ Acquire(c) \/ AlreadyListening(c) \/ ListenStart(c)
  \/ NotListening(c) \/ SetStopEvents(c) \/ JoinEmitter(c) \/ JoinListen(c) \/ JoinTrigger(c)
  \/ CheckStreaming(c) \/ DerefStreaming(c) \/ DerefStreamingFails(c) \/ JoinStreaming(c)
  \/ ListenStopped(c)

Calling == CallListenStart \/ CallListenStop \/ CalendarEvent \/ Signal

Loop == Serve \/ Cleanup \/ Exit

Next ==
  \/ \E c \in Controllers : Controller(c)
  \/ \E g \in Gens : 
       \/ ListenLoop(g) \/ ListenFault(g)
       \/ StreamingLoop(g) \/ TriggerLoop(g) \/ EmitterLoop(g) \/ Periodic(g)
  \/ Calling
  \/ Loop

Spec == Init /\ [][Next]_vars

\* Every thread keeps running: the OS schedules them, joins return or expire, a lock that is
\* released is eventually obtained by who waits for it, loading and transcribing end.  Nobody has
\* to call, nothing has to fail, and no interval has to elapse without a stop.
Fairness ==
  /\ \A c \in Controllers : SF_vars(Acquire(c)) /\ WF_vars(Controller(c))
  /\ \A g \in Gens : /\ SF_vars(ClearActive(g)) /\ WF_vars(ListenLoop(g))
                     /\ WF_vars(StreamingLoop(g))
                     /\ WF_vars(TriggerLoop(g))
                     /\ WF_vars(EmitterLoop(g))
  /\ WF_vars(Loop)

FairSpec == Spec /\ Fairness

-----------------------------------------------------------------------------
(* Properties.                                                             *)

\* However start, stop, the calendar and thread ends interleave, no two listening sessions (two
\* pw-record recorders, two smart triggers, two streaming transcribers) run at the same time.
OneThreadPerKind ==
  \A k \in Kinds : \A g, h \in Gens : Alive(k, g) /\ Alive(k, h) => g = h

\* "self._listen_capture: Any = None  # AudioCapture while listen_loop is running" (daemon.py:135):
\* a recording session's capture is the one CaptureRelease will find.
CapturePublished ==
  \A g \in Gens : th["listen"][g] = "record" => listen_capture = g

\* "Stop streaming thread before capture so it doesn't call get_chunk on stopped device"
\* (daemon.py:1074).
NoStoppedRead ==
  \A g \in Gens : th["streaming"][g] = "load" => mic[scap[g]] = "open"

\* When the daemon says it is not listening and nobody is in listen_start or listen_stop, nothing
\* of a session is left: no thread, no open recorder, no published capture.
Quiet ==
  /\ \A k \in Kinds, g \in Gens : ~Alive(k, g)
  /\ \A g \in Gens : mic[g] # "open"
  /\ listen_capture = NoThread /\ streaming_capture = NoThread

InactiveMeansQuiet == ~active /\ lock = NoOne => Quiet

\* Whatever fails, and however slow the threads are, a call of listen_start or listen_stop returns,
\* unless the signal handler has caught the main thread with _listen_lock in its hands.
HandlerBlocked == "sigterm" \in Controllers /\ pc["sigterm"] = "want_stop" /\ lock = "main"

CallReturns ==
  \A c \in Controllers :
    pc[c] # "idle" ~> (pc[c] = "idle" \/ process = "exited" \/ HandlerBlocked)

\* If listen_stop ends listening for good, every listen loop, trigger and emitter ends, however slow
\* it was.  (After a failed import there is nothing left to stop: active is FALSE already, and the
\* trigger and the emitter go on.)
IdleForGood ==
  process # "exited" /\ ~active /\ stop["listen"] /\ lock = NoOne /\ \A c \in Controllers : pc[c] = "idle"

LoopsEnd == <>[]IdleForGood => <>[](\A k \in Kinds \ {"streaming"}, g \in Gens : ~Alive(k, g))

\* "Stop streaming thread before capture" (daemon.py:1074): if listening ends for good, so does
\* every streaming transcriber.
StreamingEnds == <>[]IdleForGood => <>[](\A g \in Gens : ~Alive("streaming", g))

\* run_daemon, "Run daemon: write PID, register D-Bus, graceful SIGTERM." (daemon.py:1428): the
\* handler returns, and the daemon exits.
HandlerReturns ==
  "sigterm" \in Controllers => (pc["sigterm"] # "idle" ~> (pc["sigterm"] = "idle" \/ process = "exited"))

\* What does hold: a signal that arrives while the loop runs and the main thread is not itself
\* inside listen_start or listen_stop ends the daemon, whatever the calendar and the session's
\* threads are doing.
SigtermExitsWhenFree ==
  "sigterm" \in Controllers =>
    (pc["sigterm"] = "want_stop" /\ process = "serving" /\ lock # "main" ~> process = "exited")
=============================================================================
