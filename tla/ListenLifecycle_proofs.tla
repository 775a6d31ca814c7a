---------------------- MODULE ListenLifecycle_proofs ----------------------
(***************************************************************************)
(* Proofs about ListenLifecycle: for any number of sessions and any        *)
(* controllers, with and without smart trigger and streaming.  Typing and  *)
(* the lock need no assumption.  That the sessions do not overlap needs    *)
(* Timely: no join expires, and the audio module is there to import; the   *)
(* runs listen_slow and listen_streaming show what happens otherwise.      *)
(***************************************************************************)
EXTENDS ListenLifecycle, TLAPS

\* Between the acquisition of _listen_lock and its release.
Held ==
  {"in_start", "in_stop", "join_emitter", "join_listen", "join_trigger", "check_streaming",
   "deref_streaming", "join_streaming", "finish"}

\* _listen_lock is held by the controller that is inside, and by nobody else.
LockHeld == \A c \in Controllers : pc[c] \in Held <=> lock = c

Timely == ~JoinsMayExpire /\ "import" \notin Failures

NoneAlive(k) == \A g \in Gens : ~Alive(k, g)

\* Only threads of the newest session live, and only while the daemon says it is listening.
OnlyCurrent == \A k \in Kinds, g \in Gens : Alive(k, g) => g = gen /\ active

\* What listen_stop has joined is dead; and it never finds a streaming thread, because the listen
\* thread it has joined has joined that one.
JoinedAreDead ==
  \A c \in Controllers :
    /\ pc[c] \in Held \ {"in_start", "in_stop"} => active
    /\ pc[c] \in {"join_listen", "join_trigger", "check_streaming", "finish"} => NoneAlive("emitter")
    /\ pc[c] \in {"join_trigger", "check_streaming", "finish"} => NoneAlive("listen")
    /\ pc[c] \in {"check_streaming", "finish"} => NoneAlive("trigger")
    /\ pc[c] \notin {"deref_streaming", "join_streaming"}

\* Until then the references are those of the newest session, so what is joined is what lives.
RefsCurrent ==
  active /\ (\A c \in Controllers : pc[c] \notin {"check_streaming", "finish"}) =>
    /\ ref["listen"] = gen /\ ref["emitter"] = gen
    /\ ref["trigger"] = gen \/ NoneAlive("trigger")

\* Where a listen thread has a streaming thread.
Streams == {"record", "close_check", "close_deref", "close_join"}

\* Step by step, what a listen thread has opened and published.
ListenThreadOwns ==
  \A g \in Gens :
    /\ th["listen"][g] # "want_lock"
    /\ th["listen"][g] \in {"new", "publish"} => listen_capture = NoThread /\ streaming_capture = NoThread
    /\ th["listen"][g] \in {"new", "publish", "spawn", "close_clear", "close_stop"} =>
         ref["streaming"] = NoThread
    /\ th["listen"][g] \in {"spawn", "close_clear"} \cup Streams => listen_capture = g
    /\ th["listen"][g] = "spawn" => streaming_capture = g
    /\ th["listen"][g] \in Streams =>
         /\ ref["streaming"] \in {g, NoThread}
         /\ ref["streaming"] = g => streaming_capture = g
    /\ th["listen"][g] \in {"close_deref", "close_join"} => ref["streaming"] = g
    /\ th["listen"][g] = "close_join" => closing[g] = g
    /\ th["listen"][g] = "close_stop" => listen_capture = NoThread /\ streaming_capture = NoThread
    /\ th["listen"][g] \in {"publish", "spawn", "close_clear", "close_stop"} \cup Streams <=>
         mic[g] = "open"

\* A listen thread that ends leaves nothing behind.
NothingLeft ==
  NoneAlive("listen") =>
    listen_capture = NoThread /\ streaming_capture = NoThread /\ ref["streaming"] = NoThread

\* A streaming thread lives inside its listen thread, and reads that one's capture.
StreamingInside ==
  \A g \in Gens :
    /\ Alive("streaming", g) => th["listen"][g] \in Streams /\ ref["streaming"] = g
    /\ th["streaming"][g] \in {"wait", "load"} => scap[g] = g

OrderInv ==
  /\ OnlyCurrent /\ JoinedAreDead /\ RefsCurrent
  /\ ListenThreadOwns /\ NothingLeft /\ StreamingInside

TimelyInv == Timely /\ TypeOK /\ LockHeld /\ OrderInv

-----------------------------------------------------------------------------
(* The helpers. *)

LEMMA LocationsOf ==
  /\ Locations["listen"] = {"unborn", "new", "want_lock", "publish", "spawn", "record", "close_check",
                            "close_deref", "close_join", "close_clear", "close_stop", "dead"}
  /\ Locations["streaming"] = {"unborn", "begin", "wait", "load", "dead"}
  /\ Locations["trigger"] = {"unborn", "wait", "analyzing", "dead"}
  /\ Locations["emitter"] = {"unborn", "get", "dead"}
  BY DEF Locations

LEMMA NoThreadTyped == NoThread \in 0..MaxGen
  BY MaxGenAssumption DEF NoThread

LEMMA NoOneApart == NoOne \notin Controllers
  BY ControllersAssumption DEF NoOne

ThreadsTyped ==
  /\ th \in [Kinds -> [Gens -> UNION {Locations[k] : k \in Kinds}]]
  /\ \A k \in Kinds, g \in Gens : th[k][g] \in Locations[k]

\* One thread moves to one of its locations, the others stay.
LEMMA Became ==
  ASSUME ThreadsTyped, NEW k \in Kinds, NEW g \in Gens, NEW l \in Locations[k], Become(k, g, l)
  PROVE  /\ th'[k][g] = l
         /\ \A j \in Kinds, h \in Gens : j # k \/ h # g => th'[j][h] = th[j][h]
         /\ ThreadsTyped'
<1>1. th' = [th EXCEPT ![k] = [th[k] EXCEPT ![g] = l]]
  BY DEF Become
<1>2. /\ DOMAIN th = Kinds /\ th[k] \in [Gens -> UNION {Locations[j] : j \in Kinds}]
      /\ \A j \in Kinds : DOMAIN th[j] = Gens
  BY DEF ThreadsTyped
<1>3. th'[k] = [th[k] EXCEPT ![g] = l] /\ \A j \in Kinds \ {k} : th'[j] = th[j]
  BY <1>1, <1>2
<1>4. th'[k][g] = l /\ \A h \in Gens \ {g} : th'[k][h] = th[k][h]
  BY <1>2, <1>3
<1>5. l \in UNION {Locations[j] : j \in Kinds}
  OBVIOUS
<1>6. [th[k] EXCEPT ![g] = l] \in [Gens -> UNION {Locations[j] : j \in Kinds}]
  BY <1>2, <1>5
<1>7. th' \in [Kinds -> [Gens -> UNION {Locations[j] : j \in Kinds}]]
  BY <1>1, <1>6 DEF ThreadsTyped
<1>8. ASSUME NEW j \in Kinds, NEW h \in Gens PROVE th'[j][h] \in Locations[j]
  BY <1>3, <1>4 DEF ThreadsTyped
<1>9. QED
  BY <1>3, <1>4, <1>7, <1>8 DEF ThreadsTyped

\* The listen thread and the streaming thread it starts move together.
LEMMA Spawned ==
  ASSUME ThreadsTyped, NEW g \in Gens, SpawnStreaming(g)
  PROVE  /\ th'["listen"][g] = "record" /\ th'["streaming"][g] = "begin"
         /\ \A j \in Kinds, h \in Gens :
              h # g \/ j \notin {"listen", "streaming"} => th'[j][h] = th[j][h]
         /\ ThreadsTyped'
<1> DEFINE Places == UNION {Locations[j] : j \in Kinds}
           listens == [th["listen"] EXCEPT ![g] = "record"]
           streams == [th["streaming"] EXCEPT ![g] = "begin"]
<1>1. /\ "listen" \in Kinds /\ "streaming" \in Kinds
      /\ "record" \in Locations["listen"] /\ "begin" \in Locations["streaming"]
  BY LocationsOf DEF Kinds
<1>2. th' = [th EXCEPT !["listen"] = listens, !["streaming"] = streams]
  BY DEF SpawnStreaming
<1>3. /\ DOMAIN th = Kinds /\ th \in [Kinds -> [Gens -> Places]]
      /\ \A j \in Kinds : th[j] \in [Gens -> Places]
  BY DEF ThreadsTyped
<1>4. "record" \in Places /\ "begin" \in Places
  BY <1>1
<1> HIDE DEF Places
<1>5. /\ listens \in [Gens -> Places] /\ streams \in [Gens -> Places]
      /\ listens[g] = "record" /\ \A h \in Gens \ {g} : listens[h] = th["listen"][h]
      /\ streams[g] = "begin" /\ \A h \in Gens \ {g} : streams[h] = th["streaming"][h]
  BY <1>1, <1>3, <1>4
<1> HIDE DEF listens, streams
<1>6. /\ th' \in [Kinds -> [Gens -> Places]] /\ th'["listen"] = listens /\ th'["streaming"] = streams
      /\ \A j \in Kinds \ {"listen", "streaming"} : th'[j] = th[j]
  BY <1>1, <1>2, <1>3, <1>5
<1>7. ASSUME NEW j \in Kinds, NEW h \in Gens PROVE th'[j][h] \in Locations[j]
  BY <1>1, <1>5, <1>6 DEF ThreadsTyped
<1>8. QED
  BY <1>5, <1>6, <1>7 DEF ThreadsTyped, Places

LEMMA Went ==
  ASSUME pc \in [Controllers -> ControllerLocations], NEW c \in Controllers, NEW l, Goto(c, l)
  PROVE  /\ pc'[c] = l /\ \A d \in Controllers \ {c} : pc'[d] = pc[d]
         /\ l \in ControllerLocations => pc' \in [Controllers -> ControllerLocations]
  BY DEF Goto

-----------------------------------------------------------------------------
(* Typing. *)

LEMMA InitTyped == Init => TypeOK
<1> SUFFICES ASSUME Init PROVE TypeOK
  OBVIOUS
<1>1. \A k \in Kinds : "unborn" \in Locations[k]
  BY LocationsOf DEF Kinds
<1>2. \A k \in Kinds : [g \in Gens |-> "unborn"] \in [Gens -> UNION {Locations[j] : j \in Kinds}]
  BY <1>1
<1>3. th \in [Kinds -> [Gens -> UNION {Locations[j] : j \in Kinds}]]
  BY <1>2 DEF Init
<1>4. \A k \in Kinds, g \in Gens : th[k][g] \in Locations[k]
  BY <1>1 DEF Init
<1>5. /\ pc \in [Controllers -> ControllerLocations] /\ joining \in [Controllers -> 0..MaxGen]
      /\ scap \in [Gens -> 0..MaxGen] /\ closing \in [Gens -> 0..MaxGen] /\ ref \in [Kinds -> 0..MaxGen]
  BY NoThreadTyped DEF Init, ControllerLocations
<1>6. lock \in Controllers \cup {NoOne} /\ active \in BOOLEAN /\ gen \in 0..MaxGen
  <2>1. lock = NoOne /\ active = FALSE /\ gen = 0
    BY DEF Init
  <2>2. gen \in 0..MaxGen
    BY <2>1, MaxGenAssumption
  <2>3. QED
    BY <2>1, <2>2
<1>7. stop \in [Kinds -> BOOLEAN] /\ mic \in [Gens -> {"none", "open", "stopped"}]
  BY DEF Init
<1>8. /\ listen_capture \in 0..MaxGen /\ streaming_capture \in 0..MaxGen
      /\ process \in {"booting", "serving", "stopping", "exited"}
  BY NoThreadTyped DEF Init
<1>9. QED
  BY <1>3, <1>4, <1>5, <1>6, <1>7, <1>8 DEF TypeOK

\* Steps of a thread: it goes somewhere, and may set what else it writes.
LEMMA ThreadTyped ==
  ASSUME TypeOK, NEW k \in Kinds, NEW g \in Gens, NEW l \in Locations[k], Become(k, g, l),
         lock' = lock, gen' = gen, pc' = pc, joining' = joining, process' = process,
         active' \in {active, FALSE},
         stop' = stop \/ \E b \in BOOLEAN : stop' = [stop EXCEPT !["streaming"] = b],
         ref' = ref \/ ref' = [ref EXCEPT !["streaming"] = NoThread],
         listen_capture' \in {listen_capture, g, NoThread},
         streaming_capture' \in {streaming_capture, g, NoThread},
         scap' = scap \/ scap' = [scap EXCEPT ![g] = streaming_capture],
         mic' = mic \/ \E m \in {"open", "stopped"} : mic' = [mic EXCEPT ![g] = m],
         closing' = closing \/ closing' = [closing EXCEPT ![g] = NoThread]
           \/ closing' = [closing EXCEPT ![g] = ref["streaming"]]
  PROVE  TypeOK'
<1>1. ThreadsTyped'
  BY Became DEF TypeOK, ThreadsTyped
<1>2. "streaming" \in Kinds /\ g \in 0..MaxGen
  BY MaxGenAssumption DEF Kinds, Gens
<1>3. stop' \in [Kinds -> BOOLEAN]
  BY DEF TypeOK
<1>4. ref' \in [Kinds -> 0..MaxGen]
  BY NoThreadTyped DEF TypeOK
<1>5. scap' \in [Gens -> 0..MaxGen]
  BY DEF TypeOK
<1>6. closing' \in [Gens -> 0..MaxGen]
  BY <1>2, NoThreadTyped DEF TypeOK
<1>7. mic' \in [Gens -> {"none", "open", "stopped"}]
  BY DEF TypeOK
<1>8. /\ listen_capture' \in 0..MaxGen /\ streaming_capture' \in 0..MaxGen
      /\ active' \in BOOLEAN
  BY <1>2, NoThreadTyped DEF TypeOK
<1>9. QED
  BY <1>1, <1>3, <1>4, <1>5, <1>6, <1>7, <1>8 DEF TypeOK, ThreadsTyped

LEMMA ListenTyped ==
  ASSUME TypeOK, NEW g \in Gens, ListenLoop(g) \/ ListenFault(g)
  PROVE  TypeOK'
<1> USE LocationsOf DEF session
<1>1. "listen" \in Kinds
  BY DEF Kinds
<1>2. CASE ImportFails(g)
  BY <1>1, <1>2, ThreadTyped DEF ImportFails
<1>3. CASE ClearActive(g)
  BY <1>1, <1>3, ThreadTyped DEF ClearActive
<1>4. CASE DeviceFails(g)
  BY <1>1, <1>4, ThreadTyped DEF DeviceFails
<1>5. CASE OpenCapture(g)
  BY <1>1, <1>5, ThreadTyped DEF OpenCapture
<1>6. CASE PublishCapture(g)
  BY <1>1, <1>6, ThreadTyped DEF PublishCapture
<1>7. CASE SpawnStreaming(g)
  <2>1. ThreadsTyped'
    BY <1>7, Spawned DEF TypeOK, ThreadsTyped
  <2>2. ref' = [ref EXCEPT !["streaming"] = g] /\ g \in 0..MaxGen
    BY <1>7, MaxGenAssumption DEF SpawnStreaming, Gens
  <2>3. ref' \in [Kinds -> 0..MaxGen]
    BY <2>2 DEF TypeOK
  <2>4. QED
    BY <1>7, <2>1, <2>3 DEF SpawnStreaming, TypeOK, ThreadsTyped
<1>8. CASE EndRecording(g)
  BY <1>1, <1>8, ThreadTyped DEF EndRecording
<1>9. CASE CloseCheck(g)
  BY <1>1, <1>9, ThreadTyped DEF CloseCheck
<1>10. CASE CloseDeref(g)
  BY <1>1, <1>10, ThreadTyped DEF CloseDeref
<1>11. CASE CloseJoin(g)
  BY <1>1, <1>11, ThreadTyped DEF CloseJoin
<1>12. CASE CloseClear(g)
  BY <1>1, <1>12, ThreadTyped DEF CloseClear
<1>13. CASE StopCapture(g)
  BY <1>1, <1>13, ThreadTyped DEF StopCapture
<1>14. QED
  BY <1>2, <1>3, <1>4, <1>5, <1>6, <1>7, <1>8, <1>9, <1>10, <1>11, <1>12, <1>13 DEF ListenLoop, ListenFault

LEMMA OtherLoopsTyped ==
  ASSUME TypeOK, NEW g \in Gens,
         StreamingLoop(g) \/ TriggerLoop(g) \/ EmitterLoop(g) \/ Periodic(g)
  PROVE  TypeOK'
<1> USE LocationsOf DEF session
<1>1. {"streaming", "trigger", "emitter"} \subseteq Kinds
  BY DEF Kinds
<1>2. CASE StreamingBegin(g)
  BY <1>1, <1>2, ThreadTyped DEF StreamingBegin
<1>3. CASE StreamingTick(g) \/ StreamingRead(g)
  BY <1>1, <1>3, ThreadTyped DEF StreamingTick, StreamingRead
<1>4. CASE TriggerFires(g) \/ TriggerAnalyzed(g)
  BY <1>1, <1>4, ThreadTyped DEF TriggerFires, TriggerAnalyzed
<1>5. ASSUME NEW k \in {"streaming", "trigger", "emitter"}, SeesStop(k, g) PROVE TypeOK'
  BY <1>1, <1>5, ThreadTyped DEF SeesStop
<1>6. QED
  BY <1>2, <1>3, <1>4, <1>5 DEF StreamingLoop, TriggerLoop, EmitterLoop, Periodic

LEMMA ControllerTyped ==
  ASSUME TypeOK, NEW c \in Controllers, Controller(c)
  PROVE  TypeOK'
<1> USE DEF session, Return
\* Where it goes is one of its locations.
<1>1. pc' \in [Controllers -> ControllerLocations]
  <2>1. \E l \in ControllerLocations : Goto(c, l)
    BY DEF Controller, Acquire, AlreadyListening, ListenStart, NotListening, SetStopEvents, JoinEmitter,
           JoinListen, JoinTrigger, CheckStreaming, DerefStreaming, DerefStreamingFails, JoinStreaming,
           ListenStopped, ControllerLocations
  <2>2. QED
    BY <2>1, Went DEF TypeOK
<1>2. CASE Acquire(c) \/ AlreadyListening(c) \/ NotListening(c) \/ JoinEmitter(c) \/ JoinListen(c) \/ CheckStreaming(c)
  BY <1>1, <1>2
  DEF Acquire, AlreadyListening, NotListening, JoinEmitter, JoinListen, CheckStreaming, TypeOK
<1>3. CASE ListenStart(c)
  <2>1. gen + 1 \in Gens /\ gen + 1 \in 0..MaxGen
    BY <1>3, MaxGenAssumption DEF ListenStart, TypeOK, Gens
  <2>2. stop' \in [Kinds -> BOOLEAN] /\ ref' \in [Kinds -> 0..MaxGen]
    BY <1>3, <2>1 DEF ListenStart, TypeOK
  <2>3. \A k \in StartedKinds : k \in Kinds /\ FirstLocation(k) \in Locations[k]
    BY LocationsOf DEF StartedKinds, FirstLocation, Kinds
  <2>4. \A k \in Kinds : th'[k] = IF k \in StartedKinds
                                  THEN [th[k] EXCEPT ![gen + 1] = FirstLocation(k)] ELSE th[k]
    BY <1>3 DEF ListenStart
  <2> DEFINE Places == UNION {Locations[j] : j \in Kinds}
  <2>5. /\ \A k \in Kinds : Locations[k] \subseteq Places
        /\ th \in [Kinds -> [Gens -> Places]]
    BY DEF TypeOK
  <2> HIDE DEF Places
  <2>6. \A k \in Kinds : th[k] \in [Gens -> Places] /\ th'[k] \in [Gens -> Places]
    BY <2>3, <2>4, <2>5
  <2>7. th' \in [Kinds -> [Gens -> Places]]
    BY <1>3, <2>4, <2>6 DEF ListenStart
  <2>8. ASSUME NEW k \in Kinds, NEW g \in Gens PROVE th'[k][g] \in Locations[k]
    BY <2>3, <2>4, <2>6 DEF TypeOK
  <2>9. lock' \in Controllers \cup {NoOne} /\ active' \in BOOLEAN /\ gen' \in 0..MaxGen
    BY <1>3, <2>1 DEF ListenStart
  <2>10. QED
    BY <1>1, <1>3, <2>2, <2>7, <2>8, <2>9 DEF ListenStart, TypeOK, Places
<1>4. CASE SetStopEvents(c)
  <2>1. stop' \in [Kinds -> BOOLEAN]
    BY <1>4 DEF SetStopEvents, TypeOK
  <2>2. QED
    BY <1>1, <1>4, <2>1 DEF SetStopEvents, TypeOK
<1>5. CASE JoinTrigger(c)
  <2>1. stop' \in [Kinds -> BOOLEAN] /\ ref' \in [Kinds -> 0..MaxGen]
    BY <1>5, NoThreadTyped DEF JoinTrigger, TypeOK
  <2>2. QED
    BY <1>1, <1>5, <2>1 DEF JoinTrigger, TypeOK
<1>6. CASE DerefStreaming(c)
  <2>1. ref["streaming"] \in 0..MaxGen
    BY DEF TypeOK, Kinds
  <2>2. joining' \in [Controllers -> 0..MaxGen]
    BY <1>6, <2>1 DEF DerefStreaming, TypeOK
  <2>3. QED
    BY <1>1, <1>6, <2>2 DEF DerefStreaming, TypeOK
<1>7. CASE DerefStreamingFails(c)
  BY <1>1, <1>7 DEF DerefStreamingFails, TypeOK
<1>8. CASE JoinStreaming(c)
  <2>1. joining' \in [Controllers -> 0..MaxGen]
    BY <1>8, NoThreadTyped DEF JoinStreaming, TypeOK
  <2>2. QED
    BY <1>1, <1>8, <2>1 DEF JoinStreaming, TypeOK
<1>9. CASE ListenStopped(c)
  <2>1. ref' \in [Kinds -> 0..MaxGen] /\ streaming_capture' \in 0..MaxGen
    BY <1>9, NoThreadTyped DEF ListenStopped, TypeOK
  <2>2. QED
    BY <1>1, <1>9, <2>1 DEF ListenStopped, TypeOK
<1>10. QED
  BY <1>2, <1>3, <1>4, <1>5, <1>6, <1>7, <1>8, <1>9 DEF Controller

LEMMA CallingTyped ==
  ASSUME TypeOK, Calling \/ Loop
  PROVE  TypeOK'
<1> USE DEF session
<1>1. CASE CallListenStart \/ CallListenStop \/ CalendarEvent \/ Signal
  <2>1. PICK c \in Controllers, l \in ControllerLocations : Goto(c, l)
    BY <1>1 DEF CallListenStart, CallListenStop, CalendarEvent, Signal, ControllerLocations
  <2>2. pc' \in [Controllers -> ControllerLocations]
    BY <2>1, Went DEF TypeOK
  <2>3. QED
    BY <1>1, <2>2 DEF CallListenStart, CallListenStop, CalendarEvent, Signal, Calls, TypeOK
<1>2. CASE Cleanup
  <2>1. pc' \in [Controllers -> ControllerLocations]
    BY <1>2, Went DEF Cleanup, ControllerLocations, TypeOK
  <2>2. QED
    BY <1>2, <2>1 DEF Cleanup, TypeOK
<1>3. CASE Serve \/ Exit
  BY <1>3 DEF Serve, Exit, TypeOK
<1>4. QED
  BY <1>1, <1>2, <1>3 DEF Calling, Loop

LEMMA NextTyped == TypeOK /\ [Next]_vars => TypeOK'
<1>1. TypeOK /\ UNCHANGED vars => TypeOK'
  BY DEF TypeOK, vars, session
<1>2. QED
  BY <1>1, ListenTyped, OtherLoopsTyped, ControllerTyped, CallingTyped DEF Next

\* Threads, Events, references and captures stay in their types, however slow the threads are and
\* whatever fails (daemon.py, listen_start, listen_stop and the loops).
THEOREM TypeCorrect == FairSpec => []TypeOK
<1>1. QED
  BY InitTyped, NextTyped, PTL DEF Spec, FairSpec

-----------------------------------------------------------------------------
(* The lock. *)

LEMMA InitLock == Init => LockHeld
  BY NoOneApart DEF Init, LockHeld, Held

LEMMA NextLock == TypeOK /\ LockHeld /\ [Next]_vars => LockHeld'
<1> SUFFICES ASSUME TypeOK, LockHeld, [Next]_vars PROVE LockHeld'
  OBVIOUS
<1> USE NoOneApart DEF session
<1>1. UNCHANGED <<lock, pc>> => LockHeld'
  BY DEF LockHeld
\* Whoever acquires it goes in, whoever releases it comes out.
<1>2. ASSUME NEW c \in Controllers, NEW l, Goto(c, l),
             \/ pc[c] \notin Held /\ lock = NoOne /\ lock' = c /\ l \in Held
             \/ pc[c] \in Held /\ lock' = NoOne /\ l \notin Held
             \/ (pc[c] \in Held <=> l \in Held) /\ lock' = lock
      PROVE  LockHeld'
  <2>1. pc'[c] = l /\ \A d \in Controllers \ {c} : pc'[d] = pc[d]
    BY <1>2, Went DEF TypeOK
  <2>2. pc[c] \in Held <=> lock = c
    BY DEF LockHeld
  <2>3. ASSUME NEW d \in Controllers \ {c} PROVE pc'[d] \in Held <=> lock' = d
    <3>1. pc'[d] = pc[d] /\ (pc[d] \in Held <=> lock = d) /\ d # c /\ d # NoOne
      BY <2>1 DEF LockHeld
    <3>2. QED
      BY <1>2, <2>2, <3>1
  <2>4. pc'[c] \in Held <=> lock' = c
    BY <1>2, <2>1, <2>2
  <2>5. QED
    BY <2>3, <2>4 DEF LockHeld
<1>3. ASSUME NEW c \in Controllers, Controller(c) PROVE LockHeld'
  <2>1. CASE Acquire(c)
    BY <1>2, <2>1 DEF Acquire, Held
  <2>2. CASE AlreadyListening(c) \/ ListenStart(c) \/ NotListening(c) \/ DerefStreamingFails(c) \/ ListenStopped(c)
    <3>1. pc[c] \in Held /\ lock' = NoOne /\ \E l : Goto(c, l) /\ l \notin Held
      BY <2>2 DEF AlreadyListening, ListenStart, NotListening, DerefStreamingFails, ListenStopped, Return, Held
    <3>2. QED
      BY <1>2, <3>1
  <2>3. CASE SetStopEvents(c) \/ JoinEmitter(c) \/ JoinListen(c) \/ JoinTrigger(c) \/ CheckStreaming(c)
             \/ DerefStreaming(c) \/ JoinStreaming(c)
    <3>1. pc[c] \in Held /\ lock' = lock /\ \E l : Goto(c, l) /\ l \in Held
      BY <2>3 DEF SetStopEvents, JoinEmitter, JoinListen, JoinTrigger, CheckStreaming, DerefStreaming,
                  JoinStreaming, Held
    <3>2. QED
      BY <1>2, <3>1
  <2>4. QED
    BY <1>3, <2>1, <2>2, <2>3 DEF Controller
<1>4. ASSUME NEW g \in Gens,
             \/ ListenLoop(g) \/ ListenFault(g)
             \/ StreamingLoop(g) \/ TriggerLoop(g) \/ EmitterLoop(g) \/ Periodic(g)
      PROVE  LockHeld'
  <2>1. UNCHANGED <<lock, pc>>
    BY <1>4
    DEF ListenLoop, ListenFault, StreamingLoop, TriggerLoop, EmitterLoop, Periodic, ImportFails, ClearActive,
        DeviceFails, OpenCapture, PublishCapture, SpawnStreaming, EndRecording, CloseCheck, CloseDeref,
        CloseJoin, CloseClear, StopCapture, StreamingBegin, StreamingTick, StreamingRead, TriggerFires,
        TriggerAnalyzed, SeesStop
  <2>2. QED
    BY <1>1, <2>1
<1>5. CASE Calling
  <2>1. PICK c \in Controllers : pc[c] \notin Held /\ \E l : Goto(c, l) /\ l \notin Held
    BY <1>5 DEF Calling, CallListenStart, CallListenStop, CalendarEvent, Signal, Calls, Held
  <2>2. lock' = lock
    BY <1>5 DEF Calling, CallListenStart, CallListenStop, CalendarEvent, Signal, Calls
  <2>3. QED
    BY <1>2, <2>1, <2>2
<1>6. CASE Loop
  <2>1. CASE Cleanup
    BY <1>2, <2>1 DEF Cleanup, Held
  <2>2. CASE Serve \/ Exit
    BY <1>1, <2>2 DEF Serve, Exit
  <2>3. QED
    BY <1>6, <2>1, <2>2 DEF Loop
<1>7. CASE UNCHANGED vars
  BY <1>1, <1>7 DEF vars
<1>8. QED
  BY <1>3, <1>4, <1>5, <1>6, <1>7 DEF Next

\* listen_start and listen_stop exclude each other, whoever calls them, signal handler included, and
\* no way out of them (an exception either) keeps the lock.
THEOREM OneCriticalSection == FairSpec => []LockHeld
<1>1. QED
  BY InitTyped, InitLock, NextTyped, NextLock, PTL DEF Spec, FairSpec

-----------------------------------------------------------------------------
(* Sessions do not overlap. *)

LEMMA KindsAre ==
  /\ {"listen", "streaming", "trigger", "emitter"} = Kinds
  /\ \A k \in Kinds : k \in {"listen", "streaming", "trigger", "emitter"}
  BY DEF Kinds

LEMMA InitOrder == Init => OrderInv
  BY KindsAre
  DEF Init, OrderInv, OnlyCurrent, JoinedAreDead, RefsCurrent, ListenThreadOwns, NothingLeft,
      StreamingInside, NoneAlive, Alive, Held, Streams

\* With enough time a join returns when the thread has ended.
LEMMA TimelyJoin ==
  ASSUME Timely, TypeOK, OrderInv, NEW k \in Kinds, NEW g \in Gens, Joined(k, g)
  PROVE  ~Alive(k, g)
<1>1. g # NoThread
  BY MaxGenAssumption DEF Gens, NoThread
<1>2. th[k][g] # "want_lock"
  <2>1. CASE k = "listen"
    BY <2>1 DEF OrderInv, ListenThreadOwns
  <2>2. CASE k # "listen"
    BY <2>2, LocationsOf, KindsAre DEF TypeOK
  <2>3. QED
    BY <2>1, <2>2
<1>3. QED
  BY <1>1, <1>2 DEF Timely, Joined

\* Calls, and the ways in and out of the lock that do nothing, leave the session alone.
LEMMA OrderFrame ==
  ASSUME OrderInv, UNCHANGED <<active, gen, ref, th, session, closing>>,
         \A c \in Controllers :
           pc'[c] # pc[c] => /\ pc[c] \notin {"check_streaming", "finish"}
                             /\ pc'[c] \notin Held \ {"in_start", "in_stop"}
  PROVE  OrderInv'
<1> USE DEF session, OrderInv
<1>1. OnlyCurrent' /\ ListenThreadOwns' /\ NothingLeft' /\ StreamingInside'
  BY DEF OnlyCurrent, ListenThreadOwns, NothingLeft, StreamingInside, NoneAlive, Alive
<1>2. JoinedAreDead'
  BY DEF JoinedAreDead, NoneAlive, Alive, Held
<1>3. RefsCurrent'
  BY DEF RefsCurrent, NoneAlive, Alive
<1>4. QED
  BY <1>1, <1>2, <1>3

\* When a thread moves or ends, the controllers' view stays right; a streaming thread begins inside
\* the current session.
LEMMA FewerAlive ==
  ASSUME OrderInv, UNCHANGED <<active, gen, pc>>,
         \A k \in {"listen", "trigger", "emitter"} : ref'[k] = ref[k],
         \A k \in Kinds, g \in Gens :
           Alive(k, g)' /\ ~Alive(k, g) => k = "streaming" /\ g = gen /\ active
  PROVE  OnlyCurrent' /\ JoinedAreDead' /\ RefsCurrent'
<1>1. OnlyCurrent'
  BY DEF OrderInv, OnlyCurrent
<1>2. \A k \in {"listen", "trigger", "emitter"} : NoneAlive(k) => NoneAlive(k)'
  BY KindsAre DEF NoneAlive
<1>3. JoinedAreDead'
  BY <1>2 DEF OrderInv, JoinedAreDead
<1>4. RefsCurrent'
  BY <1>2 DEF OrderInv, RefsCurrent
<1>5. QED
  BY <1>1, <1>3, <1>4

\* Where nobody listens everything is quiet.
LEMMA Inactive ==
  ASSUME OrderInv, ~active
  PROVE  Quiet /\ ref["streaming"] = NoThread
<1>1. \A k \in Kinds, g \in Gens : ~Alive(k, g)
  BY DEF OrderInv, OnlyCurrent
<1>2. NoneAlive("listen")
  BY <1>1, KindsAre DEF NoneAlive
<1>3. /\ listen_capture = NoThread /\ streaming_capture = NoThread /\ ref["streaming"] = NoThread
      /\ \A g \in Gens : mic[g] # "open"
  BY <1>2 DEF OrderInv, NothingLeft, ListenThreadOwns, NoneAlive, Alive, Streams
<1>4. QED
  BY <1>1, <1>3 DEF Quiet

LEMMA ControllerOrder ==
  ASSUME Timely, TypeOK, LockHeld, OrderInv, NEW c \in Controllers, Controller(c)
  PROVE  OrderInv'
<1> USE DEF session
<1>1. ASSUME pc[c] \in Held PROVE \A d \in Controllers \ {c} : pc[d] \notin Held
  BY <1>1 DEF LockHeld
<1>2. ASSUME NEW l, Goto(c, l) PROVE pc'[c] = l /\ \A d \in Controllers \ {c} : pc'[d] = pc[d]
  BY <1>2, Went DEF TypeOK
<1>3. CASE Acquire(c) \/ AlreadyListening(c) \/ NotListening(c)
  <2>1. pc[c] \notin {"check_streaming", "finish"} /\ pc'[c] \notin Held \ {"in_start", "in_stop"}
    BY <1>2, <1>3 DEF Acquire, AlreadyListening, NotListening, Return, Held
  <2>2. \A d \in Controllers \ {c} : pc'[d] = pc[d]
    BY <1>2, <1>3 DEF Acquire, AlreadyListening, NotListening, Return
  <2>3. UNCHANGED <<active, gen, ref, th, session, closing>>
    BY <1>3 DEF Acquire, AlreadyListening, NotListening
  <2>4. QED
    BY <2>1, <2>2, <2>3, OrderFrame
\* The session before is over: nothing of it is left for the new one to meet.
<1>4. CASE ListenStart(c)
  <2>1. /\ pc[c] = "in_start" /\ ~active /\ active' /\ gen' = gen + 1 /\ gen + 1 \in Gens
        /\ pc'[c] \notin Held /\ \A d \in Controllers \ {c} : pc'[d] = pc[d]
        /\ UNCHANGED <<session, closing>>
    BY <1>2, <1>4, MaxGenAssumption DEF ListenStart, Return, Held, TypeOK, Gens
  <2>2. \A d \in Controllers : pc'[d] \notin Held
    BY <1>1, <2>1 DEF Held
  <2>3. Quiet /\ ref["streaming"] = NoThread
    BY <2>1, Inactive
  <2>4. /\ \A k \in Kinds : th'[k] = IF k \in StartedKinds
                                     THEN [th[k] EXCEPT ![gen + 1] = FirstLocation(k)] ELSE th[k]
        /\ \A k \in Kinds : ref'[k] = IF k \in StartedKinds THEN gen + 1 ELSE ref[k]
        /\ \A k \in Kinds : DOMAIN th[k] = Gens
    BY <1>4 DEF ListenStart, TypeOK
  <2>5. \A k \in Kinds, g \in Gens :
          th'[k][g] = IF k \in StartedKinds /\ g = gen + 1 THEN FirstLocation(k) ELSE th[k][g]
    BY <2>1, <2>4
  <2>6. \A k \in Kinds, g \in Gens : Alive(k, g)' => k \in StartedKinds /\ g = gen'
    BY <2>1, <2>3, <2>5 DEF Quiet, Alive
  <2>7. OnlyCurrent' /\ JoinedAreDead'
    BY <2>1, <2>2, <2>6 DEF OnlyCurrent, JoinedAreDead, Held
  <2>8. {"listen", "emitter"} \subseteq StartedKinds /\ "streaming" \notin StartedKinds
    BY DEF StartedKinds
  <2>9. /\ ref'["listen"] = gen' /\ ref'["emitter"] = gen' /\ ref'["streaming"] = NoThread
        /\ ref'["trigger"] = gen' \/ NoneAlive("trigger")'
    BY <2>1, <2>3, <2>4, <2>6, <2>8, KindsAre DEF NoneAlive
  <2>10. RefsCurrent'
    BY <2>9 DEF RefsCurrent
  <2>11. \A g \in Gens : th'["listen"][g] \in {"unborn", "dead", "new"} /\ mic'[g] # "open"
    BY <2>1, <2>3, <2>5, <2>8, KindsAre DEF Quiet, Alive, FirstLocation
  <2>12. ListenThreadOwns' /\ NothingLeft'
    BY <2>1, <2>3, <2>9, <2>11 DEF ListenThreadOwns, NothingLeft, Quiet, Streams
  <2>13. \A g \in Gens : ~Alive("streaming", g)'
    BY <2>6, <2>8, KindsAre
  <2>14. StreamingInside'
    BY <2>13 DEF StreamingInside, Alive
  <2>15. QED
    BY <2>7, <2>10, <2>12, <2>14 DEF OrderInv
<1>5. CASE SetStopEvents(c)
  <2>1. /\ pc[c] = "in_stop" /\ active /\ pc'[c] = "join_emitter"
        /\ \A d \in Controllers \ {c} : pc'[d] = pc[d]
        /\ UNCHANGED <<active, gen, ref, th, session, closing>>
    BY <1>2, <1>5 DEF SetStopEvents
  <2>2. JoinedAreDead'
    BY <2>1 DEF OrderInv, JoinedAreDead, NoneAlive, Alive
  <2>3. OnlyCurrent' /\ RefsCurrent' /\ ListenThreadOwns' /\ NothingLeft' /\ StreamingInside'
    BY <2>1 DEF OrderInv, OnlyCurrent, RefsCurrent, ListenThreadOwns, NothingLeft, StreamingInside, NoneAlive, Alive
  <2>4. QED
    BY <2>2, <2>3 DEF OrderInv
\* Until the references are cleared the join of one is the join of all that live.
<1>6. ASSUME pc[c] \in {"join_emitter", "join_listen", "join_trigger"}
      PROVE  /\ active /\ ref["listen"] = gen /\ ref["emitter"] = gen
             /\ ref["trigger"] = gen \/ NoneAlive("trigger")
  <2>1. \A d \in Controllers : pc[d] \notin {"check_streaming", "finish"}
    BY <1>1, <1>6 DEF Held
  <2>2. active
    BY <1>6 DEF OrderInv, JoinedAreDead, Held
  <2>3. QED
    BY <2>1, <2>2 DEF OrderInv, RefsCurrent
<1>7. ASSUME NEW k \in Kinds, ref[k] = gen, Joined(k, ref[k]) PROVE NoneAlive(k)
  BY <1>7, TimelyJoin DEF OrderInv, OnlyCurrent, NoneAlive
<1>8. CASE JoinEmitter(c)
  <2>1. /\ pc[c] = "join_emitter" /\ pc'[c] = "join_listen"
        /\ \A d \in Controllers \ {c} : pc'[d] = pc[d]
        /\ UNCHANGED <<active, gen, ref, th, session, closing>>
    BY <1>2, <1>8 DEF JoinEmitter
  <2>2. active /\ NoneAlive("emitter")
    BY <1>6, <1>7, <1>8, <2>1, KindsAre DEF JoinEmitter
  <2>3. JoinedAreDead'
    BY <2>1, <2>2 DEF OrderInv, JoinedAreDead, NoneAlive, Alive
  <2>4. OnlyCurrent' /\ RefsCurrent' /\ ListenThreadOwns' /\ NothingLeft' /\ StreamingInside'
    BY <2>1 DEF OrderInv, OnlyCurrent, RefsCurrent, ListenThreadOwns, NothingLeft, StreamingInside, NoneAlive, Alive
  <2>5. QED
    BY <2>3, <2>4 DEF OrderInv
<1>9. CASE JoinListen(c)
  <2>1. /\ pc[c] = "join_listen" /\ pc'[c] = "join_trigger"
        /\ \A d \in Controllers \ {c} : pc'[d] = pc[d]
        /\ UNCHANGED <<active, gen, ref, th, session, closing>>
    BY <1>2, <1>9 DEF JoinListen
  <2>2. active /\ NoneAlive("listen")
    BY <1>6, <1>7, <1>9, <2>1, KindsAre DEF JoinListen
  <2>3. JoinedAreDead'
    BY <2>1, <2>2 DEF OrderInv, JoinedAreDead, NoneAlive, Alive
  <2>4. OnlyCurrent' /\ RefsCurrent' /\ ListenThreadOwns' /\ NothingLeft' /\ StreamingInside'
    BY <2>1 DEF OrderInv, OnlyCurrent, RefsCurrent, ListenThreadOwns, NothingLeft, StreamingInside, NoneAlive, Alive
  <2>5. QED
    BY <2>3, <2>4 DEF OrderInv
<1>10. CASE JoinTrigger(c)
  <2>1. /\ pc[c] = "join_trigger" /\ pc'[c] = "check_streaming"
        /\ \A d \in Controllers \ {c} : pc'[d] = pc[d]
        /\ ref'["streaming"] = ref["streaming"]
        /\ UNCHANGED <<active, gen, th, session, closing>>
    BY <1>2, <1>10 DEF JoinTrigger, TypeOK, Kinds
  <2>2. active /\ NoneAlive("trigger")
    BY <1>6, <1>7, <1>10, <2>1, KindsAre DEF JoinTrigger
  <2>3. JoinedAreDead'
    BY <2>1, <2>2 DEF OrderInv, JoinedAreDead, NoneAlive, Alive
  <2>4. RefsCurrent'
    BY <2>1 DEF RefsCurrent
  <2>5. OnlyCurrent' /\ ListenThreadOwns' /\ NothingLeft' /\ StreamingInside'
    BY <2>1 DEF OrderInv, OnlyCurrent, ListenThreadOwns, NothingLeft, StreamingInside, NoneAlive, Alive
  <2>6. QED
    BY <2>3, <2>4, <2>5 DEF OrderInv
\* The listen thread is dead, and has taken its streaming thread along.
<1>11. CASE CheckStreaming(c)
  <2>1. ref["streaming"] = NoThread
    BY <1>11 DEF CheckStreaming, OrderInv, JoinedAreDead, NothingLeft
  <2>2. /\ pc[c] = "check_streaming" /\ pc'[c] = "finish"
        /\ \A d \in Controllers \ {c} : pc'[d] = pc[d]
        /\ UNCHANGED <<active, gen, ref, th, session, closing>>
    BY <1>2, <1>11, <2>1 DEF CheckStreaming
  <2>3. JoinedAreDead'
    BY <2>2 DEF OrderInv, JoinedAreDead, NoneAlive, Alive, Held
  <2>4. RefsCurrent'
    BY <2>2 DEF RefsCurrent
  <2>5. OnlyCurrent' /\ ListenThreadOwns' /\ NothingLeft' /\ StreamingInside'
    BY <2>2 DEF OrderInv, OnlyCurrent, ListenThreadOwns, NothingLeft, StreamingInside, NoneAlive, Alive
  <2>6. QED
    BY <2>3, <2>4, <2>5 DEF OrderInv
<1>12. CASE DerefStreaming(c) \/ DerefStreamingFails(c) \/ JoinStreaming(c)
  BY <1>12 DEF DerefStreaming, DerefStreamingFails, JoinStreaming, OrderInv, JoinedAreDead
<1>13. CASE ListenStopped(c)
  <2>1. /\ pc[c] = "finish" /\ pc'[c] \notin Held /\ ~active' /\ streaming_capture' = NoThread
        /\ ref'["streaming"] = NoThread
        /\ \A d \in Controllers \ {c} : pc'[d] = pc[d]
        /\ UNCHANGED <<gen, th, listen_capture, scap, mic, closing>>
    BY <1>2, <1>13 DEF ListenStopped, Return, Held, TypeOK, Kinds
  <2>2. NoneAlive("emitter") /\ NoneAlive("listen") /\ NoneAlive("trigger")
    BY <2>1 DEF OrderInv, JoinedAreDead
  <2>3. NoneAlive("streaming")
    BY <2>2 DEF OrderInv, StreamingInside, NoneAlive, Alive, Streams
  <2>4. OnlyCurrent'
    BY <2>1, <2>2, <2>3, KindsAre DEF OnlyCurrent, NoneAlive, Alive
  <2>5. \A d \in Controllers : pc'[d] \notin Held
    BY <1>1, <2>1 DEF Held
  <2>6. JoinedAreDead' /\ RefsCurrent'
    BY <2>1, <2>5 DEF JoinedAreDead, RefsCurrent, Held
  <2>7. ListenThreadOwns'
    BY <2>1, <2>2 DEF OrderInv, ListenThreadOwns, NoneAlive, Alive, Streams
  <2>8. NothingLeft'
    BY <2>1, <2>2 DEF OrderInv, NothingLeft
  <2>9. StreamingInside'
    BY <2>1, <2>3 DEF StreamingInside, NoneAlive, Alive
  <2>10. QED
    BY <2>4, <2>6, <2>7, <2>8, <2>9 DEF OrderInv
<1>14. QED
  BY <1>3, <1>4, <1>5, <1>8, <1>9, <1>10, <1>11, <1>12, <1>13 DEF Controller

\* A step of a listen thread concerns it alone: no other listens or streams, or has a recorder open.
LEMMA ListenAlone ==
  ASSUME OrderInv, NEW g \in Gens, Alive("listen", g)
  PROVE  /\ g = gen /\ active
         /\ \A h \in Gens \ {g} : ~Alive("listen", h) /\ ~Alive("streaming", h) /\ mic[h] # "open"
  BY KindsAre DEF OrderInv, OnlyCurrent, ListenThreadOwns, Alive, Streams

LEMMA ListenOrder ==
  ASSUME Timely, TypeOK, OrderInv, NEW g \in Gens, ListenLoop(g) \/ ListenFault(g)
  PROVE  OrderInv'
<1> USE DEF session
<1>1. g # NoThread
  BY MaxGenAssumption DEF Gens, NoThread
\* What has to be shown of a step of g, besides what it does to g.
<1> DEFINE Owns(l) ==
      /\ l # "want_lock"
      /\ l \in {"new", "publish"} => listen_capture' = NoThread /\ streaming_capture' = NoThread
      /\ l \in {"new", "publish", "spawn", "close_clear", "close_stop"} =>
           ref'["streaming"] = NoThread
      /\ l \in {"spawn", "close_clear"} \cup Streams => listen_capture' = g
      /\ l = "spawn" => streaming_capture' = g
      /\ l \in Streams =>
           /\ ref'["streaming"] \in {g, NoThread}
           /\ ref'["streaming"] = g => streaming_capture' = g
      /\ l \in {"close_deref", "close_join"} => ref'["streaming"] = g
      /\ l = "close_join" => closing'[g] = g
      /\ l = "close_stop" => listen_capture' = NoThread /\ streaming_capture' = NoThread
      /\ l \in {"publish", "spawn", "close_clear", "close_stop"} \cup Streams <=>
           mic'[g] = "open"
<1>2. ASSUME NEW l, l \in Locations["listen"], Become("listen", g, l), Alive("listen", g),
             UNCHANGED <<active, gen, pc, scap>>,
             \A k \in {"listen", "trigger", "emitter"} : ref'[k] = ref[k],
             \A h \in Gens \ {g} : mic'[h] = mic[h],
             Owns(l), l # "unborn",
             l = "dead" => listen_capture' = NoThread /\ streaming_capture' = NoThread /\ ref'["streaming"] = NoThread,
             Alive("streaming", g) => l \in Streams /\ ref'["streaming"] = g
      PROVE  OrderInv'
  <2> HIDE DEF Owns
  <2>1. /\ th'["listen"][g] = l /\ \A h \in Gens \ {g} : th'["listen"][h] = th["listen"][h]
        /\ \A k \in Kinds \ {"listen"}, h \in Gens : th'[k][h] = th[k][h]
    BY <1>2, Became, KindsAre DEF TypeOK, ThreadsTyped
  <2>2. /\ g = gen /\ active
        /\ \A h \in Gens \ {g} : ~Alive("listen", h) /\ ~Alive("streaming", h) /\ mic[h] # "open"
    BY <1>2, ListenAlone
  <2>3. \A k \in Kinds, h \in Gens : Alive(k, h)' => Alive(k, h)
    BY <1>2, <2>1, <2>2, KindsAre DEF Alive
  <2>4. OnlyCurrent' /\ JoinedAreDead' /\ RefsCurrent'
    BY <1>2, <2>3, FewerAlive
  <2>5. \A h \in Gens \ {g} : th'["listen"][h] \in {"unborn", "dead"} /\ mic'[h] # "open"
    BY <1>2, <2>1, <2>2 DEF Alive
  <2>6. ListenThreadOwns'
    BY <1>2, <2>1, <2>5 DEF ListenThreadOwns, Owns, Streams
  <2>7. NothingLeft'
    <3>1. CASE l = "dead"
      BY <1>2, <3>1 DEF NothingLeft
    <3>2. CASE l # "dead"
      BY <1>2, <2>1, <3>2 DEF NothingLeft, NoneAlive, Alive
    <3>3. QED
      BY <3>1, <3>2
  <2>8. \A h \in Gens : Alive("streaming", h)' => h = g /\ Alive("streaming", g)
    BY <2>2, <2>3, KindsAre
  <2>9. \A h \in Gens : th'["streaming"][h] = th["streaming"][h]
    BY <2>1, KindsAre
  <2>10. StreamingInside'
    BY <1>2, <2>1, <2>8, <2>9 DEF OrderInv, StreamingInside, Alive
  <2>11. QED
    BY <2>4, <2>6, <2>7, <2>10 DEF OrderInv

\* What is known of g where it is.
<1>3. /\ th["listen"][g] \in {"new", "publish"} => listen_capture = NoThread /\ streaming_capture = NoThread
      /\ th["listen"][g] \in {"new", "publish", "spawn", "close_clear", "close_stop"} =>
           ref["streaming"] = NoThread
      /\ th["listen"][g] \in {"spawn", "close_clear"} \cup Streams => listen_capture = g
      /\ th["listen"][g] = "spawn" => streaming_capture = g
      /\ th["listen"][g] \in Streams =>
           /\ ref["streaming"] \in {g, NoThread}
           /\ ref["streaming"] = g => streaming_capture = g
      /\ th["listen"][g] \in {"close_deref", "close_join"} => ref["streaming"] = g
      /\ th["listen"][g] = "close_join" => closing[g] = g
      /\ th["listen"][g] = "close_stop" => listen_capture = NoThread /\ streaming_capture = NoThread
      /\ th["listen"][g] \in {"publish", "spawn", "close_clear", "close_stop"} \cup Streams <=>
           mic[g] = "open"
      /\ Alive("streaming", g) => th["listen"][g] \in Streams /\ ref["streaming"] = g
      /\ th["listen"][g] # "want_lock"
  BY DEF OrderInv, ListenThreadOwns, StreamingInside
<1> USE LocationsOf
<1>4. CASE ImportFails(g) \/ ClearActive(g)
  BY <1>3, <1>4 DEF ImportFails, ClearActive, Timely, Listen
<1>5. CASE DeviceFails(g)
  <2>1. th["listen"][g] = "new" /\ Become("listen", g, "dead")
    BY <1>5 DEF DeviceFails, Listen
  <2>2. UNCHANGED <<active, gen, pc, ref, session>>
    BY <1>5 DEF DeviceFails
  <2>3. Owns("dead")
    BY <1>3, <2>1, <2>2 DEF Streams
  <2>4. QED
    BY <1>2, <1>3, <2>1, <2>2, <2>3 DEF Alive, Streams
<1>6. CASE OpenCapture(g)
  <2>1. th["listen"][g] = "new" /\ Become("listen", g, "publish")
    BY <1>6 DEF OpenCapture, Listen
  <2>2. UNCHANGED <<active, gen, pc, ref, listen_capture, streaming_capture, scap>>
    BY <1>6 DEF OpenCapture
  <2>3. mic'[g] = "open" /\ \A h \in Gens \ {g} : mic'[h] = mic[h]
    BY <1>6 DEF OpenCapture, TypeOK
  <2>4. Owns("publish")
    BY <1>3, <2>1, <2>2, <2>3 DEF Streams
  <2>5. QED
    BY <1>2, <1>3, <2>1, <2>2, <2>3, <2>4 DEF Alive, Streams
<1>7. CASE PublishCapture(g)
  <2>1. th["listen"][g] = "publish" /\ listen_capture' = g
    BY <1>7 DEF PublishCapture, Listen
  <2>2. UNCHANGED <<active, gen, pc, ref, scap, mic>>
    BY <1>7 DEF PublishCapture
  <2>3. CASE StreamingSTT
    <3>1. streaming_capture' = g /\ Become("listen", g, "spawn")
      BY <1>7, <2>3 DEF PublishCapture
    <3>2. Owns("spawn")
      BY <1>3, <2>1, <2>2, <3>1 DEF Streams
    <3>3. QED
      BY <1>2, <1>3, <2>1, <2>2, <3>1, <3>2 DEF Alive, Streams
  <2>4. CASE ~StreamingSTT
    <3>1. Become("listen", g, "record")
      BY <1>7, <2>4 DEF PublishCapture
    <3>2. Owns("record")
      BY <1>1, <1>3, <2>1, <2>2, <3>1 DEF Streams
    <3>3. QED
      BY <1>2, <1>3, <2>1, <2>2, <3>1, <3>2 DEF Alive, Streams
  <2>5. QED
    BY <2>3, <2>4
\* The streaming thread begins; the listen thread is in its recording loop.
<1>8. CASE SpawnStreaming(g)
  <2>1. /\ th["listen"][g] = "spawn" /\ ref'["streaming"] = g
        /\ \A k \in {"listen", "trigger", "emitter"} : ref'[k] = ref[k]
        /\ UNCHANGED <<active, gen, pc, session, closing>>
    BY <1>8 DEF SpawnStreaming, Listen, TypeOK, Kinds
  <2>2. /\ th'["listen"][g] = "record" /\ th'["streaming"][g] = "begin"
        /\ \A k \in Kinds, h \in Gens :
             h # g \/ k \notin {"listen", "streaming"} => th'[k][h] = th[k][h]
    BY <1>8, Spawned DEF TypeOK, ThreadsTyped
  <2>3. /\ g = gen /\ active
        /\ \A h \in Gens \ {g} : ~Alive("listen", h) /\ ~Alive("streaming", h) /\ mic[h] # "open"
    BY <2>1, ListenAlone DEF Alive
  <2>4. \A k \in Kinds, h \in Gens :
          Alive(k, h)' /\ ~Alive(k, h) => k = "streaming" /\ h = gen /\ active
    <3>1. ASSUME NEW k \in Kinds, NEW h \in Gens, Alive(k, h)', ~Alive(k, h)
          PROVE  k = "streaming" /\ h = g
      BY <2>1, <2>2, <3>1 DEF Alive
    <3>2. QED
      BY <2>3, <3>1
  <2>5. OnlyCurrent' /\ JoinedAreDead' /\ RefsCurrent'
    BY <2>1, <2>4, FewerAlive
  <2>6. \A h \in Gens \ {g} :
          /\ th'["listen"][h] \in {"unborn", "dead"} /\ mic'[h] # "open"
          /\ th'["streaming"][h] \in {"unborn", "dead"}
    BY <2>1, <2>2, <2>3, KindsAre DEF Alive
  <2>7. ListenThreadOwns'
    BY <1>3, <2>1, <2>2, <2>6 DEF ListenThreadOwns, Streams
  <2>8. NothingLeft'
    BY <2>2 DEF NothingLeft, NoneAlive, Alive
  <2>9. StreamingInside'
    BY <2>1, <2>2, <2>6 DEF StreamingInside, Alive, Streams
  <2>10. QED
    BY <2>5, <2>7, <2>8, <2>9 DEF OrderInv
<1>9. CASE EndRecording(g)
  <2>1. th["listen"][g] = "record" /\ Become("listen", g, "close_check")
    BY <1>9 DEF EndRecording, Listen
  <2>2. UNCHANGED <<active, gen, pc, ref, session>>
    BY <1>9 DEF EndRecording
  <2>3. Owns("close_check")
    BY <1>3, <2>1, <2>2 DEF Streams
  <2>4. QED
    BY <1>2, <1>3, <2>1, <2>2, <2>3 DEF Alive, Streams
<1>10. CASE CloseCheck(g)
  <2>1. th["listen"][g] = "close_check"
    BY <1>10 DEF CloseCheck, Listen
  <2>2. UNCHANGED <<active, gen, pc, ref, session>>
    BY <1>10 DEF CloseCheck
  <2>3. CASE ref["streaming"] = NoThread
    <3>1. Become("listen", g, "close_clear")
      BY <1>10, <2>3 DEF CloseCheck
    <3>2. Owns("close_clear")
      BY <1>3, <2>1, <2>2, <2>3 DEF Streams
    <3>3. QED
      BY <1>1, <1>2, <1>3, <2>1, <2>2, <2>3, <3>1, <3>2 DEF Alive, Streams
  <2>4. CASE ref["streaming"] # NoThread
    <3>1. Become("listen", g, "close_deref") /\ ref["streaming"] = g
      BY <1>3, <1>10, <2>1, <2>4 DEF CloseCheck, Streams
    <3>2. Owns("close_deref")
      BY <1>3, <2>1, <2>2, <3>1 DEF Streams
    <3>3. QED
      BY <1>2, <1>3, <2>1, <2>2, <3>1, <3>2 DEF Alive, Streams
  <2>5. QED
    BY <2>3, <2>4
<1>11. CASE CloseDeref(g)
  <2>1. th["listen"][g] = "close_deref" /\ ref["streaming"] = g
    BY <1>3, <1>11 DEF CloseDeref, Listen
  <2>2. UNCHANGED <<active, gen, pc, ref, session>>
    BY <1>11 DEF CloseDeref
  <2>3. Become("listen", g, "close_join") /\ closing'[g] = g
    BY <1>1, <1>11, <2>1 DEF CloseDeref, TypeOK
  <2>4. Owns("close_join")
    BY <1>3, <2>1, <2>2, <2>3 DEF Streams
  <2>5. QED
    BY <1>2, <1>3, <2>1, <2>2, <2>3, <2>4 DEF Alive, Streams
\* With enough time the streaming thread is dead now.
<1>12. CASE CloseJoin(g)
  <2>1. th["listen"][g] = "close_join" /\ Become("listen", g, "close_clear")
    BY <1>12 DEF CloseJoin, Listen
  <2>2. UNCHANGED <<active, gen, pc, session>>
    BY <1>12 DEF CloseJoin
  <2>3. /\ ref'["streaming"] = NoThread
        /\ \A k \in {"listen", "trigger", "emitter"} : ref'[k] = ref[k]
    BY <1>12 DEF CloseJoin, TypeOK, Kinds
  <2>4. ~Alive("streaming", g)
    <3>1. Joined("streaming", g)
      BY <1>3, <1>12, <2>1 DEF CloseJoin
    <3>2. QED
      BY <3>1, TimelyJoin, KindsAre
  <2>5. Owns("close_clear")
    BY <1>3, <2>1, <2>2, <2>3 DEF Streams
  <2>6. QED
    BY <1>2, <2>1, <2>2, <2>3, <2>4, <2>5 DEF Alive
<1>13. CASE CloseClear(g)
  <2>1. th["listen"][g] = "close_clear" /\ Become("listen", g, "close_stop")
    BY <1>13 DEF CloseClear, Listen
  <2>2. /\ listen_capture' = NoThread /\ streaming_capture' = NoThread
        /\ UNCHANGED <<active, gen, pc, ref, scap, mic>>
    BY <1>13 DEF CloseClear
  <2>3. Owns("close_stop")
    BY <1>3, <2>1, <2>2 DEF Streams
  <2>4. QED
    BY <1>2, <1>3, <2>1, <2>2, <2>3 DEF Alive, Streams
<1>14. CASE StopCapture(g)
  <2>1. th["listen"][g] = "close_stop" /\ Become("listen", g, "dead")
    BY <1>14 DEF StopCapture, Listen
  <2>2. UNCHANGED <<active, gen, pc, ref, listen_capture, streaming_capture, scap>>
    BY <1>14 DEF StopCapture
  <2>3. mic'[g] = "stopped" /\ \A h \in Gens \ {g} : mic'[h] = mic[h]
    BY <1>14 DEF StopCapture, TypeOK
  <2>4. Owns("dead")
    BY <1>3, <2>1, <2>2, <2>3 DEF Streams
  <2>5. QED
    BY <1>2, <1>3, <2>1, <2>2, <2>3, <2>4 DEF Alive, Streams
<1>15. QED
  BY <1>4, <1>5, <1>6, <1>7, <1>8, <1>9, <1>10, <1>11, <1>12, <1>13, <1>14 DEF ListenLoop, ListenFault

LEMMA OtherLoopsOrder ==
  ASSUME TypeOK, OrderInv, NEW g \in Gens,
         StreamingLoop(g) \/ TriggerLoop(g) \/ EmitterLoop(g) \/ Periodic(g)
  PROVE  OrderInv'
<1> USE LocationsOf DEF session
\* The thread of kind k was alive before; the listen thread and what it owns are untouched.
<1>1. ASSUME NEW k \in {"streaming", "trigger", "emitter"}, NEW l \in Locations[k],
             Become(k, g, l), Alive(k, g),
             UNCHANGED <<active, gen, ref, pc, closing, listen_capture, streaming_capture, mic>>,
             \A h \in Gens \ {g} : scap'[h] = scap[h],
             k = "streaming" /\ l \in {"wait", "load"} => scap'[g] = g,
             k # "streaming" => scap' = scap
      PROVE  OrderInv'
  <2>1. /\ th'[k][g] = l /\ \A j \in Kinds, h \in Gens : j # k \/ h # g => th'[j][h] = th[j][h]
        /\ \A h \in Gens : th'["listen"][h] = th["listen"][h]
    <3>1. k \in Kinds /\ k # "listen" /\ "listen" \in Kinds
      BY KindsAre
    <3>2. ThreadsTyped
      BY DEF TypeOK, ThreadsTyped
    <3>3. th'[k][g] = l /\ \A j \in Kinds, h \in Gens : j # k \/ h # g => th'[j][h] = th[j][h]
      BY <1>1, <3>1, <3>2, Became
    <3>4. QED
      BY <3>1, <3>3
  <2>2. \A j \in Kinds, h \in Gens : Alive(j, h)' => Alive(j, h)
    BY <1>1, <2>1 DEF Alive
  <2>3. OnlyCurrent' /\ JoinedAreDead' /\ RefsCurrent'
    BY <1>1, <2>2, FewerAlive
  <2>4. ListenThreadOwns' /\ NothingLeft'
    BY <1>1, <2>1 DEF OrderInv, ListenThreadOwns, NothingLeft, NoneAlive, Alive
  <2>5. ASSUME NEW h \in Gens
        PROVE  /\ Alive("streaming", h)' => th'["listen"][h] \in Streams /\ ref'["streaming"] = h
               /\ th'["streaming"][h] \in {"wait", "load"} => scap'[h] = h
    <3>1. /\ Alive("streaming", h) => th["listen"][h] \in Streams /\ ref["streaming"] = h
          /\ th["streaming"][h] \in {"wait", "load"} => scap[h] = h
      BY DEF OrderInv, StreamingInside
    <3>2. Alive("streaming", h)' => Alive("streaming", h)
      BY <2>2, KindsAre
    <3>3. CASE k = "streaming" /\ h = g
      BY <1>1, <2>1, <3>1, <3>2, <3>3
    <3>4. CASE k # "streaming" \/ h # g
      BY <1>1, <2>1, <3>1, <3>2, <3>4, KindsAre
    <3>5. QED
      BY <3>3, <3>4
  <2>6. StreamingInside'
    BY <2>5 DEF StreamingInside
  <2>7. QED
    BY <2>3, <2>4, <2>6 DEF OrderInv
\* A streaming thread that begins finds the capture of its own listen thread.
<1>2. CASE StreamingBegin(g)
  <2>1. th["streaming"][g] = "begin" /\ UNCHANGED <<active, gen, ref, pc, closing, listen_capture, streaming_capture, mic>>
    BY <1>2 DEF StreamingBegin
  <2>2. streaming_capture = g
    BY <2>1, MaxGenAssumption DEF OrderInv, StreamingInside, ListenThreadOwns, Alive, Gens, NoThread
  <2>3. scap'[g] = g /\ \A h \in Gens \ {g} : scap'[h] = scap[h]
    BY <1>2, <2>2 DEF StreamingBegin, TypeOK
  <2>4. PICK l \in {"dead", "wait"} : Become("streaming", g, l)
    BY <1>2 DEF StreamingBegin
  <2>5. QED
    BY <1>1, <2>1, <2>3, <2>4 DEF Alive
<1>3. CASE StreamingTick(g) \/ StreamingRead(g)
  <2>1. /\ th["streaming"][g] \in {"wait", "load"}
        /\ UNCHANGED <<active, gen, ref, pc, closing, session>>
    BY <1>3 DEF StreamingTick, StreamingRead
  <2>2. scap[g] = g
    BY <2>1 DEF OrderInv, StreamingInside
  <2>3. PICK l \in {"load", "wait"} : Become("streaming", g, l)
    BY <1>3 DEF StreamingTick, StreamingRead
  <2>4. QED
    BY <1>1, <2>1, <2>2, <2>3 DEF Alive
<1>4. CASE TriggerFires(g) \/ TriggerAnalyzed(g)
  <2>1. /\ th["trigger"][g] \in {"wait", "analyzing"}
        /\ UNCHANGED <<active, gen, ref, pc, closing, session>>
    BY <1>4 DEF TriggerFires, TriggerAnalyzed
  <2>2. PICK l \in {"analyzing", "wait"} : Become("trigger", g, l)
    BY <1>4 DEF TriggerFires, TriggerAnalyzed
  <2>3. QED
    BY <1>1, <2>1, <2>2 DEF Alive
<1>5. ASSUME NEW k \in {"streaming", "trigger", "emitter"}, SeesStop(k, g) PROVE OrderInv'
  <2>1. /\ th[k][g] \in {"wait", "get"} /\ Become(k, g, "dead")
        /\ UNCHANGED <<active, gen, ref, pc, closing, session>>
    BY <1>5 DEF SeesStop
  <2>2. "dead" \in Locations[k]
    OBVIOUS
  <2>3. QED
    BY <1>1, <2>1, <2>2 DEF Alive
<1>6. QED
  BY <1>2, <1>3, <1>4, <1>5 DEF StreamingLoop, TriggerLoop, EmitterLoop, Periodic

LEMMA NextOrder == TimelyInv /\ [Next]_vars => TimelyInv'
<1> SUFFICES ASSUME TimelyInv, [Next]_vars PROVE TimelyInv'
  OBVIOUS
<1> USE DEF session
<1>1. Timely /\ TypeOK /\ LockHeld /\ OrderInv
  BY DEF TimelyInv
<1>2. TypeOK' /\ LockHeld'
  BY <1>1, NextTyped, NextLock
<1>3. ASSUME UNCHANGED <<active, gen, ref, th, session, closing>>,
             NEW c \in Controllers, NEW l, Goto(c, l),
             pc[c] \notin Held, l \notin Held
      PROVE  OrderInv'
  <2>1. pc'[c] = l /\ \A d \in Controllers \ {c} : pc'[d] = pc[d]
    BY <1>1, <1>3, Went DEF TypeOK
  <2>2. QED
    BY <1>1, <1>3, <2>1, OrderFrame DEF Held
<1>4. ASSUME Calling \/ Cleanup PROVE OrderInv'
  <2>1. PICK c \in Controllers : \E l : Goto(c, l) /\ pc[c] \notin Held /\ l \notin Held
    BY <1>4 DEF Calling, CallListenStart, CallListenStop, CalendarEvent, Signal, Cleanup, Calls, Held
  <2>2. UNCHANGED <<active, gen, ref, th, session, closing>>
    BY <1>4 DEF Calling, CallListenStart, CallListenStop, CalendarEvent, Signal, Cleanup, Calls
  <2>3. QED
    BY <1>3, <2>1, <2>2
<1>5. ASSUME Serve \/ Exit \/ UNCHANGED vars PROVE OrderInv'
  <2>1. UNCHANGED <<active, gen, ref, th, session, closing, pc>>
    BY <1>5 DEF Serve, Exit, vars
  <2>2. QED
    BY <1>1, <2>1, OrderFrame
<1>6. OrderInv'
  BY <1>1, <1>4, <1>5, ControllerOrder, ListenOrder, OtherLoopsOrder DEF Next, Calling, Loop
<1>7. QED
  BY <1>1, <1>2, <1>6 DEF TimelyInv, Timely

-----------------------------------------------------------------------------
(* What listen_start and listen_stop promise when threads are timely. *)

\* listen_stop ends the threads of a session in the order in which they lean on each other, so that
\* the next session finds nothing of it (daemon.py, listen_start, listen_stop, _listen_loop).
THEOREM TimelyOrder == Timely /\ FairSpec => []TimelyInv
<1>1. Timely /\ Init => TimelyInv
  BY InitTyped, InitLock, InitOrder DEF TimelyInv
<1>2. QED
  BY <1>1, NextOrder, PTL DEF Spec, FairSpec

\* No two sessions' recorders, smart triggers, emitters or streaming transcribers run at the same time,
\* for any number of sessions and any interleaving of main thread, calendar and signal handler
\* (daemon.py, listen_start, listen_stop).
THEOREM SessionsDoNotOverlap == Timely /\ FairSpec => []OneThreadPerKind
<1>1. TimelyInv => OneThreadPerKind
  BY DEF TimelyInv, OrderInv, OnlyCurrent, OneThreadPerKind
<1>2. QED
  BY <1>1, TimelyOrder, PTL

\* A session that records has published its capture (daemon.py, _listen_loop).
THEOREM RecorderPublished == Timely /\ FairSpec => []CapturePublished
<1>1. TimelyInv => CapturePublished
  BY DEF TimelyInv, OrderInv, ListenThreadOwns, CapturePublished, Streams
<1>2. QED
  BY <1>1, TimelyOrder, PTL

\* The streaming thread never reads a stopped device (daemon.py, _listen_loop, _streaming_loop).
THEOREM StreamReadsOpenDevice == Timely /\ FairSpec => []NoStoppedRead
<1>1. TimelyInv => NoStoppedRead
  <2> SUFFICES ASSUME TimelyInv, NEW g \in Gens, th["streaming"][g] = "load"
               PROVE  mic[scap[g]] = "open"
    BY DEF NoStoppedRead
  <2>1. scap[g] = g /\ th["listen"][g] \in Streams
    BY DEF TimelyInv, OrderInv, StreamingInside, Alive
  <2>2. QED
    BY <2>1 DEF TimelyInv, OrderInv, ListenThreadOwns
<1>2. QED
  BY <1>1, TimelyOrder, PTL

\* A daemon that says it is not listening has nothing of a session left: no thread, no open recorder, no
\* published capture (daemon.py, listen_stop, is_listening).
THEOREM InactiveIsQuiet == Timely /\ FairSpec => []InactiveMeansQuiet
<1>1. TimelyInv => InactiveMeansQuiet
  BY Inactive DEF TimelyInv, InactiveMeansQuiet
<1>2. QED
  BY <1>1, TimelyOrder, PTL
=============================================================================
