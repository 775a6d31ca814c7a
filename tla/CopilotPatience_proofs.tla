---------------------- MODULE CopilotPatience_proofs ----------------------
(***************************************************************************)
(* Proofs about CopilotCapture and the patient user: the one who, while he *)
(* holds the key, does nothing but release it, and who does nothing before *)
(* the AnalysisDone.  Most of what push-to-capture promises holds for him  *)
(* only; CopilotCapture_proofs has what holds for every user.              *)
(*                                                                         *)
(* Whatever else there is (captures, turns, sizes, SwapModel, ListenStop,  *)
(* Analyze, the calendar's analyses, saves of the listen loop, keys held   *)
(* for 30 s) is arbitrary.                                                 *)
(***************************************************************************)
EXTENDS CopilotCapture_proofs

\* The threads whose AnalysisDone (or answer) the user waits for.
Actors == Releases \cup {Meeting}

\* Where the watcher has been joined, and where the analysis has not stored its results.
Joined == {"segment", "write", "opened", "written", "save", "swap", "stt", "llm", "restore", "publish",
           "announce"}
Stopping == {"stop_watcher", "deref", "join"}
Recorded == {"write", "opened", "written", "save", "swap", "stt", "llm"}
BeforeResults == {"take"} \cup Stopping \cup {"segment"} \cup Recorded

\* The user waits: one analysis at a time, and none while the key is held or the main thread works.
OneAtATime ==
  /\ key = "down" \/ main # "idle" => Answered
  /\ main \in {"mark", "arm", "watch"} => key = "down"
  /\ main = "stopping" => key = "up"
  /\ key = "down" => captures # 0
  /\ \A t, u \in Actors : Running(t) /\ Running(u) => t = u

\* The marker is that of the capture being recorded, and its watcher has not released it yet.
MarkerWatched ==
  /\ start # None => start = captures
  /\ main = "mark" => start = None
  /\ main = "watch" => ~wstop
  /\ start # None /\ main = "idle" =>
       wref = start /\ ~wstop /\ pc[Watcher(start)] \in {"wait", "judge", "warn", "take"}

\* Only the watcher of the reference runs; it gets no further than the join of itself.
WatcherKnown ==
  \A k \in Captures :
    Running(Watcher(k)) =>
      /\ wref = k
      /\ pc[Watcher(k)] \in {"wait", "judge", "warn", "take", "stop_watcher", "deref"}
      /\ pc[Watcher(k)] \in {"stop_watcher", "deref"} => start = None

\* The reference is there from the start of the watcher to the join by the release.
ReferenceKept ==
  /\ main \in {"mark", "arm", "watch"} => wref = None
  /\ key = "down" /\ main = "idle" => wref # None
  /\ key = "up" /\ Answered => wref = None /\ start = None

ReleaseInOrder ==
  /\ pc[Meeting] \in {"unborn", "stt", "llm", "announce", "dead"}
  /\ \A t \in Actors :
       /\ pc[t] \in Stopping \cup Joined => start = None
       /\ pc[t] \in {"take"} \cup Stopping => wref # None
       /\ pc[t] \in {"deref", "join"} => wstop
       /\ pc[t] = "join" => joining[t] = wref
       /\ pc[t] \in Joined => wref = None

\* The cards are empty, or the calendar's, from the new marker to the results, and those of the last
\* release after.
CardsInOrder ==
  /\ start # None => cards \in {Nobody, Calendar}
  /\ key = "down" /\ main # "mark" => cards \in {Nobody, Calendar}
  /\ \A t \in Releases :
       /\ pc[t] \in BeforeResults => cards \in {Nobody, Calendar}
       /\ pc[t] \in {"restore", "publish"} => cards \in {Nobody, Calendar} \/ (cards = t /\ status[t] = "ok")
  /\ (\A t \in Releases : pc[t] \notin {"restore", "publish"}) => cards \in {Nobody, Meeting, Calendar, snippet}

\* The size chosen is either in use or remembered by the release that uses the small model.
SizeKept ==
  /\ (\A t \in Releases : pc[t] \notin {"stt", "llm", "restore"}) => size = chosen
  /\ \A t \in Releases : pc[t] \in {"swap", "stt", "llm", "restore"} => saved[t] = chosen

\* A recorder a release has taken is that of the current session, which goes on.
TurnsKept ==
  /\ \A i \in 1..Len(turns) : turns[i] = session
  /\ mic = "off" /\ main # "stopping" => turns = <<>>
  /\ \A t \in Releases :
       /\ pc[t] \in Stopping \cup {"segment"} \cup Recorded /\ job[t].capture # None =>
            job[t].capture = session /\ mic \in {"on", "lost"}
       /\ pc[t] \in Recorded => job[t].capture # None

\* From its open of ring.tmp on, what a release may rename to ring.raw is its own or the listen loop's,
\* and from its rename on so is what ring.raw holds, whoever still has the file open.
RingKept ==
  \A t \in Releases :
    /\ pc[t] \in {"opened", "written", "save", "swap", "stt"} => file.tmp \subseteq {t, Loop}
    /\ pc[t] \in {"save", "swap", "stt"} => file.raw \subseteq {t, Loop}

\* Who runs, and where.
Order == OneAtATime /\ MarkerWatched /\ WatcherKnown /\ ReferenceKept /\ ReleaseInOrder

-----------------------------------------------------------------------------
(* The threads. *)

LEMMA Apart ==
  /\ \A j, k \in Captures : Watcher(j) = Watcher(k) => j = k
  /\ \A k \in Captures : Watcher(k) \in Threads \ Actors /\ Release(k) \in Releases
  /\ Releases \subseteq Actors /\ Meeting \in Actors \ Releases /\ Actors \subseteq Threads
  /\ Nobody \notin Threads
  /\ Loop \in Threads \ Actors /\ \A k \in Captures : Watcher(k) # Loop
  /\ \A t \in Threads \ (Actors \cup {Loop}) : \E k \in Captures : t = Watcher(k)
  BY DEF Captures, Watcher, Release, Meeting, Loop, Watchers, Releases, Actors, Threads, Nobody

\* A thread that goes somewhere leaves the others where they are.
LEMMA Moved ==
  ASSUME TypeOK, NEW t \in Threads, NEW l, Goto(t, l)
  PROVE  pc'[t] = l /\ \A u \in Threads \ {t} : pc'[u] = pc[u]
  BY DEF TypeOK, Goto

\* While the user may act nobody runs but watchers.
LEMMA UserAlone ==
  ASSUME Patient, UserMayAct
  PROVE  main = "idle" /\ key = "up" /\ Answered
  BY DEF UserMayAct

-----------------------------------------------------------------------------
(* The order of the steps. *)

LEMMA InitOrder == Init => Order
  BY BoundsAssumption, Apart
  DEF Init, Order, OneAtATime, MarkerWatched, WatcherKnown, ReferenceKept, ReleaseInOrder, Running,
      Answered, None, Stopping, Joined, Actors

\* Most steps of the listen thread and of the clock touch nothing of it.
LEMMA OrderFrame ==
  ASSUME TypeOK, Order, UNCHANGED <<main, key, captures, start, wstop, wref, joining>>,
         \A t \in Threads \ {Loop} : pc'[t] = pc[t]
  PROVE  Order'
<1>1. \A t \in Actors : pc'[t] = pc[t]
  BY Apart
<1>2. \A k \in Captures : pc'[Watcher(k)] = pc[Watcher(k)]
  BY Apart
<1>3. OneAtATime' /\ ReleaseInOrder' /\ ReferenceKept'
  BY <1>1, Apart DEF Order, OneAtATime, ReleaseInOrder, ReferenceKept, Running, Answered, Actors
<1>4. start # None => start \in Captures
  BY BoundsAssumption DEF TypeOK, Captures, None
<1>5. MarkerWatched' /\ WatcherKnown'
  BY <1>2, <1>4 DEF Order, MarkerWatched, WatcherKnown, Running
<1>6. QED
  BY <1>3, <1>5 DEF Order

\* After the join a release (or a meeting's analysis) runs alone.
LEMMA OrderJoined ==
  ASSUME TypeOK, Order, NEW t \in Actors, pc[t] \in Joined,
         NEW l \in Joined \cup {"dead"}, Goto(t, l), 
         t = Meeting => l \in {"stt", "llm", "announce", "dead"},
         UNCHANGED <<main, key, captures, start, wstop, wref, joining>>
  PROVE  Order'
<1>1. pc'[t] = l /\ \A u \in Threads \ {t} : pc'[u] = pc[u]
  BY Apart, Moved
<1>2. Running(t) /\ ~Answered /\ key = "up" /\ main = "idle" /\ start = None /\ wref = None
  BY DEF TypeOK, Running, Joined, Order, OneAtATime, ReleaseInOrder, Answered, Actors
<1>3. \A u \in Actors \ {t} : ~Running(u) /\ ~Running(u)'
  BY <1>1, <1>2, Apart DEF Order, OneAtATime, Running
<1>4. OneAtATime'
  BY <1>2, <1>3 DEF Order, OneAtATime
<1>5. MarkerWatched'
  BY <1>2 DEF MarkerWatched
<1>6. WatcherKnown'
  BY <1>1, <1>2, Apart DEF Order, WatcherKnown, Running
<1>7. ReferenceKept'
  BY <1>2 DEF ReferenceKept
<1>8. ReleaseInOrder'
  BY <1>1, <1>2, <1>3, Apart DEF Order, ReleaseInOrder, Running, Joined, Stopping
<1>9. QED
  BY <1>4, <1>5, <1>6, <1>7, <1>8 DEF Order

LEMMA MainThreadOrder ==
  ASSUME Patient, TypeOK, Counted, Order, MainThread \/ ListenThread \/ CalendarAnalyzes
  PROVE  Order'
<1> USE DEF user, listening, marker, watch, locals, model, disk, results
\* The main thread works: the key is down, and nobody runs.
<1>1. main \in {"mark", "arm", "watch"} =>
        /\ key = "down" /\ Answered /\ wref = None /\ captures \in Captures
        /\ \A k \in Captures : ~Running(Watcher(k))
  BY BoundsAssumption DEF TypeOK, Order, OneAtATime, ReferenceKept, WatcherKnown, Captures, None
<1>2. CASE MarkStart
  <2>1. /\ main = "mark" /\ main' = "arm" /\ start' = captures
        /\ UNCHANGED <<key, captures, wstop, wref, pc, joining>>
    BY <1>2 DEF MarkStart
  <2>2. QED
    BY <1>1, <2>1, Apart DEF Order, OneAtATime, MarkerWatched, WatcherKnown, ReferenceKept, ReleaseInOrder, Running,
         Answered, Actors, Stopping, Joined
<1>3. CASE ArmWatcher
  <2>1. /\ main = "arm" /\ main' = "watch" /\ wstop' = FALSE
        /\ UNCHANGED <<key, captures, start, wref, pc, joining>>
    BY <1>3 DEF ArmWatcher
  <2>2. QED
    BY <1>1, <2>1, Apart DEF Order, OneAtATime, MarkerWatched, WatcherKnown, ReferenceKept, ReleaseInOrder, Running,
         Answered, Actors, Stopping, Joined
<1>4. CASE StartWatcher
  <2>1. /\ main = "watch" /\ main' = "idle" /\ wref' = captures /\ Goto(Watcher(captures), "wait")
        /\ UNCHANGED <<key, captures, start, wstop, joining>>
    BY <1>4 DEF StartWatcher
  <2>2. /\ pc'[Watcher(captures)] = "wait"
        /\ \A t \in Threads \ {Watcher(captures)} : pc'[t] = pc[t]
    BY <1>1, <2>1, Apart, Moved
  <2>3. /\ \A t \in Actors : pc'[t] = pc[t] /\ ~Running(t)
        /\ \A k \in Captures \ {captures} : pc'[Watcher(k)] = pc[Watcher(k)]
    BY <1>1, <2>1, <2>2, Apart DEF Answered, Actors
  <2>4. OneAtATime' /\ ReleaseInOrder'
    BY <1>1, <2>1, <2>3, Apart DEF Order, OneAtATime, ReleaseInOrder, Running, Answered, Actors, Stopping, Joined
  <2>5. MarkerWatched'
    BY <1>1, <2>1, <2>2 DEF Order, MarkerWatched
  <2>6. WatcherKnown' /\ ReferenceKept'
    BY <1>1, <2>1, <2>2, <2>3 DEF Running, WatcherKnown, ReferenceKept, Captures, None
  <2>7. QED
    BY <2>4, <2>5, <2>6 DEF Order
<1>5. CASE ListenStopped
  <2>1. main = "stopping" /\ main' = "idle" /\ UNCHANGED <<key, captures, start, wstop, wref, pc, joining>>
    BY <1>5 DEF ListenStopped
  <2>2. QED
    BY <2>1, Apart DEF Order, OneAtATime, MarkerWatched, WatcherKnown, ReferenceKept, ReleaseInOrder, Running,
         Answered
<1>6. CASE ListenThread \/ CalendarAnalyzes
  <2>1. UNCHANGED <<main, key, captures, start, wstop, wref, joining>>
    BY <1>6 DEF ListenThread, OpenCapture, CloseCapture, PersistRing, LoopDies, CalendarAnalyzes
  <2>2. pc' = pc \/ \E l \in Locations : Goto(Loop, l)
    BY <1>6 DEF ListenThread, OpenCapture, CloseCapture, PersistRing, LoopDies, CalendarAnalyzes,
                OpenTmp, WriteTmp, Locations
  <2>3. \A t \in Threads \ {Loop} : pc'[t] = pc[t]
    BY <2>2, Apart, Moved
  <2>4. QED
    BY <2>1, <2>3, OrderFrame
<1>7. QED
  BY <1>2, <1>3, <1>4, <1>5, <1>6 DEF MainThread

LEMMA UserOrder ==
  ASSUME Patient, TypeOK, Counted, Order, User
  PROVE  Order'
<1> USE DEF user, listening, marker, watch, locals, model, disk, results
\* Between captures nothing but the listen thread runs.
<1>1. UserMayAct =>
        /\ main = "idle" /\ key = "up" /\ Answered /\ wref = None /\ start = None
        /\ \A k \in Captures : ~Running(Watcher(k))
  BY BoundsAssumption, UserAlone DEF TypeOK, Order, ReferenceKept, WatcherKnown, Captures, None
<1>2. CASE CaptureStart
  <2>1. /\ UserMayAct /\ key' = "down" /\ main' = "mark" /\ captures' = captures + 1
        /\ captures \in Nat /\ UNCHANGED <<start, wstop, wref, pc, joining>>
    BY <1>2, BoundsAssumption DEF CaptureStart, TypeOK
  <2>2. QED
    BY <1>1, <2>1, Apart DEF Order, OneAtATime, MarkerWatched, WatcherKnown, ReferenceKept, ReleaseInOrder, Running,
         Answered, Actors
<1>3. CASE CaptureRelease
  <2>1. /\ main = "idle" /\ key = "down" /\ main' = "idle" /\ key' = "up"
        /\ Goto(Release(releases + 1), "take")
        /\ UNCHANGED <<captures, start, wstop, wref, joining>>
    BY <1>3 DEF CaptureRelease
  <2> DEFINE r == Release(releases + 1)
  <2>2. r \in Releases
    <3>1. releases + 1 \in Captures
      BY <2>1, NextRelease
    <3>2. QED
      BY <3>1, Apart
  <2>3. pc'[r] = "take" /\ \A u \in Threads \ {r} : pc'[u] = pc[u]
    BY <2>1, <2>2, Apart, Moved
  <2>4. Answered /\ wref # None
    BY <2>1 DEF Order, OneAtATime, ReferenceKept
  <2> HIDE DEF r
  <2>5. \A u \in Actors : ~Running(u) /\ (u # r => ~Running(u)')
    BY <2>3, <2>4, Apart DEF Answered, Actors, Running
  <2>6. OneAtATime'
    BY <2>1, <2>5 DEF Order, OneAtATime
  <2>7. /\ \A k \in Captures : pc'[Watcher(k)] = pc[Watcher(k)]
        /\ ~Answered' 
    BY <2>2, <2>3, Apart DEF Answered, Running
  <2>8. ASSUME start # None PROVE pc'[Watcher(start)] = pc[Watcher(start)]
    BY <2>7, <2>8, BoundsAssumption DEF TypeOK, Captures, None
  <2>9. MarkerWatched' /\ WatcherKnown' /\ ReferenceKept'
    BY <2>1, <2>4, <2>7, <2>8 DEF Order, MarkerWatched, WatcherKnown, ReferenceKept, Running
  <2>10. ReleaseInOrder'
    BY <2>1, <2>2, <2>3, <2>4, <2>5, Apart DEF Order, ReleaseInOrder, Running, Stopping, Joined
  <2>11. QED
    BY <2>6, <2>9, <2>10 DEF Order
<1>4. CASE CallAnalyze
  <2>1. /\ UserMayAct /\ Goto(Meeting, "stt")
        /\ UNCHANGED <<main, key, captures, start, wstop, wref, joining>>
    BY <1>4 DEF CallAnalyze
  <2>2. pc'[Meeting] = "stt" /\ \A u \in Threads \ {Meeting} : pc'[u] = pc[u]
    BY <2>1, Apart, Moved
  <2>3. \A u \in Actors : ~Running(u) /\ (u # Meeting => ~Running(u)')
    BY <1>1, <2>1, <2>2, Apart DEF Answered, Actors, Running
  <2>4. \A k \in Captures : pc'[Watcher(k)] = pc[Watcher(k)]
    BY <2>2, Apart
  <2>5. OneAtATime'
    BY <1>1, <2>1, <2>3 DEF Order, OneAtATime
  <2>6. MarkerWatched' /\ WatcherKnown' /\ ReferenceKept'
    BY <1>1, <2>1, <2>4 DEF MarkerWatched, WatcherKnown, ReferenceKept, Running
  <2>7. ReleaseInOrder'
    BY <1>1, <2>1, <2>2, <2>3, Apart DEF Order, ReleaseInOrder, Running, Stopping, Joined
  <2>8. QED
    BY <2>5, <2>6, <2>7 DEF Order
<1>5. CASE CallListenStop
  <2>1. /\ UserMayAct /\ main' = "stopping"
        /\ UNCHANGED <<key, captures, start, wstop, wref, pc, joining>>
    BY <1>5 DEF CallListenStop
  <2>2. QED
    BY <1>1, <2>1 DEF Order, OneAtATime, MarkerWatched, WatcherKnown, ReferenceKept, ReleaseInOrder, Running,
         Answered
<1>6. ASSUME NEW s \in Sizes, SwapModel(s) PROVE Order'
  BY <1>6, OrderFrame DEF SwapModel
<1>7. QED
  BY <1>2, <1>3, <1>4, <1>5, <1>6 DEF User

LEMMA WatcherOrder ==
  ASSUME Patient, TypeOK, Counted, Order, NEW k \in Captures, WatcherLoop(k) \/ Age(k)
  PROVE  Order'
<1> USE DEF user, listening, marker, watch, locals, model, disk, results
<1> DEFINE w == Watcher(k)
<1>1. w \in Threads \ Actors /\ \A j \in Captures \ {k} : Watcher(j) # w
  BY Apart
\* A watcher that runs stays in its loop, goes to take the marker, or ends when there is none left
\* to watch.
<1>2. ASSUME NEW l, Goto(w, l), Running(w),
             UNCHANGED <<main, key, captures, start, wstop, wref, joining>>,
             l = "dead" => start = None \/ wstop, l \in {"wait", "judge", "warn", "take", "dead"}
      PROVE  Order'
  <2> HIDE DEF w
  <2>1. pc'[w] = l /\ \A u \in Threads \ {w} : pc'[u] = pc[u]
    BY <1>1, <1>2, Moved
  <2>2. \A u \in Actors : pc'[u] = pc[u]
    BY <1>1, <2>1, Apart
  <2>3. OneAtATime' /\ ReferenceKept' /\ ReleaseInOrder'
    BY <1>2, <2>2, Apart DEF Order, OneAtATime, ReferenceKept, ReleaseInOrder, Running, Answered, Actors
  <2>4. wref = k
    BY <1>2 DEF w, Order, WatcherKnown
  <2>5. MarkerWatched'
    BY <1>2, <2>1, <2>4 DEF w, Order, MarkerWatched
  <2>6. WatcherKnown'
    BY <1>1, <1>2, <2>1, <2>4, Apart DEF w, Order, WatcherKnown, Running
  <2>7. QED
    BY <2>3, <2>5, <2>6 DEF Order
<1>3. CASE WatcherTick(k)
  BY <1>2, <1>3 DEF WatcherTick, Running
<1>4. CASE WatcherStops(k)
  BY <1>2, <1>4 DEF WatcherStops, Running
<1>5. CASE WatcherJudges(k)
  <2>1. PICK l \in {"take", "warn", "wait"} : Goto(w, l)
    BY <1>5 DEF WatcherJudges
  <2>2. QED
    BY <1>2, <1>5, <2>1 DEF WatcherJudges, Running
<1>6. CASE WatcherWarns(k)
  BY <1>2, <1>6 DEF WatcherWarns, Running
<1>7. CASE Age(k)
  BY <1>7, OrderFrame DEF Age
<1>8. QED
  BY <1>3, <1>4, <1>5, <1>6, <1>7 DEF WatcherLoop

\* At 30 s the watcher takes the marker; its join of itself is the end of it.
LEMMA AutoReleaseOrder ==
  ASSUME Patient, TypeOK, Counted, Order, NEW k \in Captures, ReleaseSteps(Watcher(k))
  PROVE  Order'
<1> USE DEF user, listening, marker, watch, locals, model, disk, results
<1> DEFINE w == Watcher(k)
<1>1. /\ w \in Threads \ Actors /\ \A j \in Captures \ {k} : Watcher(j) # w
      /\ Running(w) => wref = k /\ wref # None
  BY Apart DEF Order, WatcherKnown, Captures, None
<1>2. Running(w) => pc[w] \in {"take", "stop_watcher", "deref", "wait", "judge", "warn"}
  BY DEF Order, WatcherKnown
\* In each of its three steps: what changes besides the watcher.
<1>3. ASSUME NEW l, Goto(w, l), Running(w), l \in {"stop_watcher", "deref", "dead"},
             start' = None, wstop' \in {wstop, TRUE}, UNCHANGED <<main, key, captures, wref, joining>>
      PROVE  Order'
  <2> HIDE DEF w
  <2>1. pc'[w] = l /\ \A u \in Threads \ {w} : pc'[u] = pc[u]
    BY <1>1, <1>3, Moved
  <2>2. \A u \in Actors : pc'[u] = pc[u]
    BY <1>1, <2>1, Apart
  <2>3. OneAtATime' /\ ReferenceKept' 
    BY <1>3, <2>2, Apart DEF Order, OneAtATime, ReferenceKept, Running, Answered, Actors
  <2>4. ReleaseInOrder'
    <3>1. wstop => wstop'
      BY <1>3
    <3>2. QED
      BY <1>3, <2>2, <3>1, Apart DEF Order, ReleaseInOrder
  <2>5. main # "watch"
    BY <1>1, <1>3 DEF Order, ReferenceKept
  <2>6. MarkerWatched'
    BY <1>3, <2>5 DEF MarkerWatched
  <2>7. WatcherKnown'
    BY <1>1, <1>3, <2>1, Apart DEF w, Order, WatcherKnown, Running
  <2>8. QED
    BY <2>3, <2>4, <2>6, <2>7 DEF Order
<1>4. CASE TakeMarker(w)
  BY <1>3, <1>4 DEF TakeMarker, Running
<1>5. CASE StopWatcher(w)
  <2>1. start = None
    BY <1>5 DEF StopWatcher, Order, WatcherKnown, Running
  <2>2. QED
    BY <1>1, <1>3, <1>5, <2>1 DEF StopWatcher, Running
<1>6. CASE DerefWatcher(w)
  <2>1. start = None
    BY <1>6 DEF DerefWatcher, Order, WatcherKnown, Running
  <2>2. QED
    BY <1>1, <1>3, <1>6, <2>1 DEF DerefWatcher, Running
<1>7. QED
  BY <1>2, <1>4, <1>5, <1>6
  DEF ReleaseSteps, JoinWatcher, NoSegment, GetSegment, MakeDirFails, OpenRing, WriteRing, ReplaceRing,
                WriteRingFails, SaveSize, SwapToTiny,
      Transcribe, Analyzed, AnalyzeFails, RestoreSize, Publish, Announce, Running

LEMMA ReleaseOrder ==
  ASSUME Patient, TypeOK, Counted, Order, NEW t \in Actors, ReleaseSteps(t)
  PROVE  Order'
<1> USE DEF user, listening, marker, watch, locals, model, disk, results
<1>1. /\ t \in Threads /\ ~ \E k \in Captures : t = Watcher(k)
      /\ Releases \subseteq Actors /\ Meeting \in Actors
  BY Apart
<1>2. ASSUME Running(t)
      PROVE  /\ main = "idle" /\ key = "up" /\ \A u \in Actors \ {t} : ~Running(u)
  BY <1>2 DEF TypeOK, Order, OneAtATime, Answered, Actors
\* Before the join the release stays where its marks are; which, depends on the step.
<1>3. ASSUME NEW l, Goto(t, l), Running(t), t # Meeting, l \in Stopping \cup {"segment"},
             start' = None, wstop' \in {wstop, TRUE}, wref' \in {wref, None},
             UNCHANGED <<main, key, captures>>,
             l \in {"deref", "join"} => wstop',
             l = "join" => joining'[t] = wref,
             IF l = "segment" THEN wref' = None /\ \A k \in Captures : ~Running(Watcher(k))
                              ELSE wref # None /\ wref' = wref
      PROVE  Order'
  <2>1. pc'[t] = l /\ \A u \in Threads \ {t} : pc'[u] = pc[u]
    BY <1>1, <1>3, Moved
  <2>2. /\ \A u \in Actors \ {t} : ~Running(u) /\ ~Running(u)'
        /\ \A k \in Captures : pc'[Watcher(k)] = pc[Watcher(k)]
        /\ ~Answered'
    BY <1>1, <1>2, <1>3, <2>1, Apart DEF Running, Answered, Actors, Stopping
  <2>3. OneAtATime' /\ MarkerWatched' /\ ReferenceKept'
    BY <1>2, <1>3, <2>2 DEF OneAtATime, MarkerWatched, ReferenceKept
  <2>4. WatcherKnown'
    BY <1>3, <2>2 DEF Order, WatcherKnown, Running, Stopping
  <2>5. ReleaseInOrder'
    BY <1>1, <1>3, <2>1, <2>2 DEF Order, ReleaseInOrder, Running, Stopping, Joined
  <2>6. QED
    BY <2>3, <2>4, <2>5 DEF Order
<1>4. pc[Meeting] \notin {"take"} \cup Stopping \cup {"segment", "write", "opened", "written", "save", "swap", "restore",
                        "publish"}
  BY DEF Order, ReleaseInOrder, Stopping
<1>5. CASE TakeMarker(t)
  <2>1. wref # None /\ pc[t] = "take"
    BY <1>5 DEF TakeMarker, Order, ReleaseInOrder
  <2>2. QED
    BY <1>3, <1>4, <1>5, <2>1 DEF TakeMarker, Running, Stopping
<1>6. CASE StopWatcher(t)
  <2>1. wref # None /\ start = None /\ pc[t] = "stop_watcher"
    BY <1>6 DEF StopWatcher, Order, ReleaseInOrder, Stopping
  <2>2. QED
    BY <1>3, <1>4, <1>6, <2>1 DEF StopWatcher, Running, Stopping
<1>7. CASE DerefWatcher(t)
  <2>1. wref # None /\ start = None /\ wstop /\ pc[t] = "deref"
    BY <1>7 DEF DerefWatcher, Order, ReleaseInOrder, Stopping
  <2>2. wref \in Captures
    BY <2>1, BoundsAssumption DEF TypeOK, Captures, None
  <2>3. joining' = [joining EXCEPT ![t] = wref] /\ Goto(t, "join")
    BY <1>1, <1>7, <2>1, <2>2 DEF DerefWatcher
  <2>4. joining'[t] = wref
    BY <1>1, <2>3 DEF TypeOK
  <2>5. QED
    BY <1>3, <1>4, <1>7, <2>1, <2>3, <2>4 DEF DerefWatcher, Running, Stopping
<1>8. CASE JoinWatcher(t)
  <2>1. wref # None /\ start = None /\ wstop /\ pc[t] = "join" /\ joining[t] = wref
    BY <1>8 DEF JoinWatcher, Order, ReleaseInOrder, Stopping
  <2>2. \A k \in Captures : ~Running(Watcher(k))
    BY <1>8, <2>1 DEF JoinWatcher, Order, WatcherKnown
  <2>3. QED
    BY <1>3, <1>4, <1>8, <2>1, <2>2 DEF JoinWatcher, Running, Stopping
<1>9. CASE NoSegment(t) \/ GetSegment(t) \/ MakeDirFails(t) \/ OpenRing(t) \/ WriteRing(t) \/ ReplaceRing(t)
           \/ WriteRingFails(t) \/ SaveSize(t) \/ SwapToTiny(t)
           \/ RestoreSize(t) \/ Publish(t)
  <2>1. t # Meeting /\ pc[t] \in Joined
    BY <1>4, <1>9 DEF NoSegment, GetSegment, MakeDirFails, OpenRing, WriteRing, ReplaceRing,
                WriteRingFails, SaveSize, SwapToTiny, RestoreSize, Publish,
                      Joined
  <2>2. \E l \in Joined \cup {"dead"} : Goto(t, l)
    BY <1>9 DEF NoSegment, GetSegment, MakeDirFails, OpenRing, WriteRing, ReplaceRing,
                WriteRingFails, SaveSize, SwapToTiny, RestoreSize, Publish,
                OpenTmp, WriteTmp, Fail, Joined
  <2>3. UNCHANGED <<main, key, captures, start, wstop, wref, joining>>
    BY <1>9 DEF NoSegment, GetSegment, MakeDirFails, OpenRing, WriteRing, ReplaceRing,
                WriteRingFails, SaveSize, SwapToTiny, RestoreSize, Publish
  <2>4. QED
    BY <2>1, <2>2, <2>3, OrderJoined
<1>10. ASSUME NEW ok \in BOOLEAN,
              Transcribe(t) \/ Analyzed(t, ok) \/ AnalyzeFails(t) \/ Announce(t)
       PROVE  Order'
  <2>1. pc[t] \in Joined
    BY <1>10 DEF Transcribe, Analyzed, AnalyzeFails, Announce, Joined
  <2>2. \E l \in Joined \cup {"dead"} :
          Goto(t, l) /\ (t = Meeting => l \in {"stt", "llm", "announce", "dead"})
    BY <1>10 DEF Transcribe, Analyzed, AnalyzeFails, Announce, Joined
  <2>3. UNCHANGED <<main, key, captures, start, wstop, wref, joining>>
    BY <1>10 DEF Transcribe, Analyzed, AnalyzeFails, Announce
  <2>4. QED
    BY <2>1, <2>2, <2>3, OrderJoined
<1>11. QED
  BY <1>5, <1>6, <1>7, <1>8, <1>9, <1>10 DEF ReleaseSteps

LEMMA NextOrder ==
  ASSUME Patient, TypeOK, Counted, Order, [Next]_vars
  PROVE  Order'
<1>1. CASE UNCHANGED vars
  BY <1>1, OrderFrame DEF vars, user, marker, watch, locals
<1>2. ASSUME NEW t \in Threads \ {Loop}, ReleaseSteps(t) PROVE Order'
  BY <1>2, Apart, AutoReleaseOrder, ReleaseOrder
<1>3. QED
  BY <1>1, <1>2, UserOrder, MainThreadOrder, WatcherOrder DEF Next

-----------------------------------------------------------------------------
(* What the analyses leave: cards, model size, turns, ring file. *)

Results == CardsInOrder /\ SizeKept /\ TurnsKept /\ RingKept

LEMMA InitResults == Init => Results
  BY Apart DEF Init, Results, CardsInOrder, SizeKept, TurnsKept, RingKept, BeforeResults, Stopping, Recorded, None

\* A running release is the only one, and the user and the main thread wait for it.
LEMMA OthersRest ==
  ASSUME TypeOK, Order, NEW t \in Actors, Running(t)
  PROVE  /\ main = "idle" /\ key = "up"
         /\ \A u \in Releases \ {t} : pc[u] \in {"unborn", "dead"}
  BY Apart DEF TypeOK, Order, OneAtATime, Answered, Actors, Running

\* What a step on the files does to what is in them.
LEMMA FilesOfWriter ==
  ASSUME TypeOK, NEW t, WriteTmp(t)
  PROVE  file'.tmp \subseteq file.tmp \cup {t} /\ file'.raw \subseteq file.raw \cup {t}
<1>1. CASE file' = file
  BY <1>1
<1>2. CASE file' # file
  <2>1. PICK all \in {{t}, file[fd[t]] \cup {t}} : file' = [file EXCEPT ![fd[t]] = all]
    BY <1>2 DEF WriteTmp
  <2>2. file \in [tmp : SUBSET Threads, raw : SUBSET Threads]
    BY DEF TypeOK
  <2>3. CASE fd[t] = "tmp"
    BY <2>1, <2>2, <2>3
  <2>4. CASE fd[t] = "raw"
    BY <2>1, <2>2, <2>4
  <2>5. CASE fd[t] \notin {"tmp", "raw"}
    BY <2>1, <2>2, <2>5
  <2>6. QED
    BY <2>3, <2>4, <2>5
<1>3. QED
  BY <1>1, <1>2

LEMMA FilesOfOpen ==
  ASSUME TypeOK, NEW t, OpenTmp(t)
  PROVE  file'.tmp = {} /\ file'.raw = file.raw
  BY DEF TypeOK, OpenTmp

LEMMA FilesOfReplace ==
  ASSUME ReplaceRaw
  PROVE  file'.tmp = {} /\ file'.raw = file.tmp
  BY DEF ReplaceRaw

LEMMA FilesOfLoop ==
  ASSUME TypeOK, OpenTmp(Loop) \/ WriteTmp(Loop) \/ ReplaceRaw, NEW t
  PROVE  /\ file.tmp \subseteq {t, Loop} => file'.tmp \subseteq {t, Loop}
         /\ file.tmp \subseteq {t, Loop} /\ file.raw \subseteq {t, Loop} => file'.raw \subseteq {t, Loop}
<1>1. CASE OpenTmp(Loop)
  BY <1>1, FilesOfOpen
<1>2. CASE WriteTmp(Loop)
  BY <1>2, FilesOfWriter
<1>3. CASE ReplaceRaw
  BY <1>3, FilesOfReplace
<1>4. QED
  BY <1>1, <1>2, <1>3

\* A step that touches no release, no result and no size, and takes at most the marker away.
LEMMA ResultsFrame ==
  ASSUME Results, start' \in {start, None}, UNCHANGED file,
         UNCHANGED <<main, key, cards, snippet, size, chosen, turns, session, mic, saved, status>>,
         \A t \in Releases : pc'[t] = pc[t] /\ job'[t].capture = job[t].capture
  PROVE  Results'
<1>1. CardsInOrder'
  BY DEF Results, CardsInOrder
<1>2. SizeKept'
  BY DEF Results, SizeKept
<1>3. TurnsKept'
  BY DEF Results, TurnsKept
<1>4. RingKept'
  BY DEF Results, RingKept
<1>5. QED
  BY <1>1, <1>2, <1>3, <1>4 DEF Results

\* A save of the listen loop adds nobody's audio but its own to the files, and takes ring.tmp from
\* under a release together with what is in it.
LEMMA SaveResults ==
  ASSUME TypeOK, Results, PersistRing
  PROVE  Results'
<1>1. /\ UNCHANGED <<main, key, start, cards, snippet, size, chosen, turns, session, mic, saved, status, job>>
      /\ \/ OpenTmp(Loop)
         \/ WriteTmp(Loop)
         \/ ReplaceRaw /\ Goto(Loop, "wait")
  BY DEF PersistRing, listening, marker, locals, model, results
<1>2. \A t \in Releases : pc'[t] = pc[t]
  BY <1>1, Apart, Moved DEF OpenTmp, WriteTmp
<1>3. \A t \in Releases :
        /\ file.tmp \subseteq {t, Loop} => file'.tmp \subseteq {t, Loop}
        /\ file.tmp \subseteq {t, Loop} /\ file.raw \subseteq {t, Loop} => file'.raw \subseteq {t, Loop}
  BY <1>1, FilesOfLoop
<1>4. RingKept'
  BY <1>2, <1>3 DEF Results, RingKept
<1>5. CardsInOrder' /\ SizeKept' /\ TurnsKept'
  BY <1>1, <1>2 DEF Results, CardsInOrder, SizeKept, TurnsKept
<1>6. QED
  BY <1>4, <1>5 DEF Results

LEMMA MainThreadResults ==
  ASSUME TypeOK, Order, Results, MainThread \/ ListenThread \/ CalendarAnalyzes
  PROVE  Results'
<1> USE DEF user, listening, marker, watch, locals, model, disk, results
\* No release runs while the main thread works.
<1>1. main # "idle" => \A t \in Releases : pc[t] \in {"unborn", "dead"}
  BY Apart DEF TypeOK, Order, OneAtATime, Answered, Running
<1>2. CASE MarkStart
  <2>1. /\ main = "mark" /\ main' = "arm" /\ cards' = Nobody
        /\ UNCHANGED <<key, snippet, size, chosen, turns, session, mic, saved, status, pc, job, file>>
    BY <1>2 DEF MarkStart
  <2>2. CardsInOrder'
    BY <1>1, <2>1 DEF CardsInOrder
  <2>3. SizeKept' /\ TurnsKept' /\ RingKept'
    BY <2>1 DEF Results, SizeKept, TurnsKept, RingKept
  <2>4. QED
    BY <2>2, <2>3 DEF Results
<1>3. CASE ArmWatcher
  <2>1. /\ main = "arm" /\ main' = "watch"
        /\ UNCHANGED <<key, start, cards, snippet, size, chosen, turns, session, mic, saved, status, pc, job, file>>
    BY <1>3 DEF ArmWatcher
  <2>2. QED
    BY <2>1 DEF Results, CardsInOrder, SizeKept, TurnsKept, RingKept
<1>4. CASE StartWatcher
  <2>1. /\ main = "watch" /\ main' = "idle" /\ Goto(Watcher(captures), "wait")
        /\ UNCHANGED <<key, start, cards, snippet, size, chosen, turns, session, mic, saved, status, job, file>>
    BY <1>4 DEF StartWatcher
  <2>2. captures \in Captures
    BY <2>1, BoundsAssumption DEF TypeOK, Order, OneAtATime, Captures
  <2>3. \A t \in Releases : pc'[t] = pc[t]
    BY <2>1, <2>2, Apart, Moved
  <2>4. QED
    BY <2>1, <2>3 DEF Results, CardsInOrder, SizeKept, TurnsKept, RingKept
<1>5. CASE ListenStopped
  <2>1. /\ main = "stopping" /\ main' = "idle" /\ turns' = <<>>
        /\ UNCHANGED <<key, start, cards, snippet, size, chosen, session, saved, status, pc, job, file>>
    BY <1>5 DEF ListenStopped
  <2>2. TurnsKept'
    BY <1>1, <2>1 DEF TurnsKept, Stopping, Recorded
  <2>3. QED
    BY <2>1, <2>2 DEF Results, CardsInOrder, SizeKept, RingKept
<1>6. CASE OpenCapture
  <2>1. /\ mic = "opening" /\ mic' = "on"
        /\ UNCHANGED <<main, key, start, cards, snippet, size, chosen, session, turns, saved, status, pc, job, file>>
    BY <1>6 DEF OpenCapture
  <2>2. QED
    BY <2>1 DEF Results, CardsInOrder, SizeKept, TurnsKept, RingKept
<1>7. CASE CloseCapture
  <2>1. /\ main = "stopping"
        /\ UNCHANGED <<main, key, start, cards, snippet, size, chosen, session, turns, saved, status, pc, job, file>>
    BY <1>7 DEF CloseCapture
  <2>2. TurnsKept'
    BY <1>1, <2>1 DEF Results, TurnsKept, Stopping, Recorded
  <2>3. QED
    BY <2>1, <2>2 DEF Results, CardsInOrder, SizeKept, RingKept
<1>8. CASE PersistRing
  BY <1>8, SaveResults
<1>9. CASE LoopDies
  <2>1. /\ mic \in {"opening", "on"} /\ mic' = "lost" /\ Goto(Loop, "wait")
        /\ UNCHANGED <<main, key, start, cards, snippet, size, chosen, session, turns, saved, status, job, file>>
    BY <1>9 DEF LoopDies
  <2>2. \A t \in Releases : pc'[t] = pc[t]
    BY <2>1, Apart, Moved
  <2>3. TurnsKept'
    BY <2>1, <2>2 DEF Results, TurnsKept
  <2>4. QED
    BY <2>1, <2>2, <2>3 DEF Results, CardsInOrder, SizeKept, RingKept
<1>10. CASE CalendarAnalyzes
  <2>1. /\ cards' \in {Calendar, Nobody}
        /\ UNCHANGED <<main, key, start, snippet, size, chosen, session, mic, turns, saved, status, pc, job, file>>
    BY <1>10 DEF CalendarAnalyzes
  <2>2. QED
    BY <2>1 DEF Results, CardsInOrder, SizeKept, TurnsKept, RingKept
<1>11. QED
  BY <1>2, <1>3, <1>4, <1>5, <1>6, <1>7, <1>8, <1>9, <1>10 DEF MainThread, ListenThread

LEMMA UserResults ==
  ASSUME Patient, TypeOK, Counted, Order, Results, User
  PROVE  Results'
<1> USE DEF user, listening, marker, watch, locals, model, disk, results
\* The user acts when no release runs.
<1>1. UserMayAct \/ key = "down" => \A t \in Releases : pc[t] \in {"unborn", "dead"}
  BY UserAlone, Apart DEF TypeOK, Order, OneAtATime, Answered, Running
<1>2. CASE CaptureStart
  <2>1. /\ UserMayAct /\ key' = "down" /\ main' = "mark" /\ mic' # "off"
        /\ UNCHANGED <<start, cards, snippet, size, chosen, turns, saved, status, pc, job, file>>
        /\ mic = "off" \/ session' = session
    BY <1>2 DEF CaptureStart
  <2>2. main = "idle" /\ start = None
    BY <2>1, UserAlone DEF Order, ReferenceKept
  <2>3. TurnsKept'
    BY <1>1, <2>1, <2>2 DEF Results, TurnsKept, Stopping, Recorded
  <2>4. CardsInOrder' /\ SizeKept' /\ RingKept'
    BY <2>1, <2>2 DEF Results, CardsInOrder, SizeKept, RingKept
  <2>5. QED
    BY <2>3, <2>4 DEF Results
<1>3. CASE CaptureRelease
  <2> DEFINE r == Release(releases + 1)
  <2>1. /\ main = "idle" /\ key = "down" /\ main' = "idle" /\ key' = "up" /\ Goto(r, "take")
        /\ UNCHANGED <<start, cards, snippet, size, chosen, turns, session, mic, saved, status, job, file>>
    BY <1>3 DEF CaptureRelease
  <2>2. r \in Releases
    <3>1. releases + 1 \in Captures
      BY <2>1, NextRelease
    <3>2. QED
      BY <3>1, Apart
  <2> HIDE DEF r
  <2>3. pc'[r] = "take" /\ \A t \in Releases \ {r} : pc'[t] = pc[t]
    BY <2>1, <2>2, Apart, Moved
  <2>4. cards \in {Nobody, Calendar}
    BY <2>1 DEF Results, CardsInOrder
  <2>5. CardsInOrder'
    BY <1>1, <2>1, <2>3, <2>4 DEF CardsInOrder, BeforeResults, Stopping, Recorded
  <2>6. SizeKept' /\ TurnsKept' /\ RingKept'
    BY <1>1, <2>1, <2>3 DEF Results, SizeKept, TurnsKept, RingKept, Stopping, Recorded
  <2>7. QED
    BY <2>5, <2>6 DEF Results
<1>4. CASE CallAnalyze
  <2>1. \A t \in Releases : pc'[t] = pc[t]
    BY <1>4, Apart, Moved DEF CallAnalyze
  <2>2. QED
    BY <1>4, <2>1, ResultsFrame DEF CallAnalyze
<1>5. CASE CallListenStop
  <2>1. /\ UserMayAct /\ mic # "off" /\ main' = "stopping"
        /\ UNCHANGED <<key, start, cards, snippet, size, chosen, turns, session, mic, saved, status, pc, job, file>>
    BY <1>5 DEF CallListenStop
  <2>2. main = "idle" /\ key = "up"
    BY <2>1, UserAlone
  <2>3. QED
    BY <2>1, <2>2 DEF Results, CardsInOrder, SizeKept, TurnsKept, RingKept
<1>6. ASSUME NEW s \in Sizes, SwapModel(s) PROVE Results'
  <2>1. /\ UserMayAct /\ size' = s /\ chosen' = s
        /\ UNCHANGED <<main, key, start, cards, snippet, turns, session, mic, saved, status, pc, job, file>>
    BY <1>6 DEF SwapModel
  <2>2. SizeKept'
    BY <1>1, <2>1 DEF SizeKept
  <2>3. QED
    BY <2>1, <2>2 DEF Results, CardsInOrder, TurnsKept, RingKept
<1>7. QED
  BY <1>2, <1>3, <1>4, <1>5, <1>6 DEF User

\* No watcher is a release, and none gets as far as the analysis.
LEMMA WatcherResults ==
  ASSUME TypeOK, Order, Results, NEW k \in Captures,
         WatcherLoop(k) \/ Age(k) \/ ReleaseSteps(Watcher(k))
  PROVE  Results'
<1> USE DEF user, listening, marker, watch, locals, model, disk, results
<1> DEFINE w == Watcher(k)
<1>1. w \in Threads /\ \A t \in Releases : t # w /\ t \in Threads
  BY Apart
<1>2. ASSUME NEW l, Goto(w, l) PROVE \A t \in Releases : pc'[t] = pc[t]
  <2> HIDE DEF w
  <2>1. QED
    BY <1>1, <1>2, Moved
<1>3. CASE WatcherTick(k) \/ WatcherStops(k)
  <2>1. PICK m : job' = [job EXCEPT ![w].seen = m]
    BY <1>3 DEF WatcherTick, WatcherStops
  <2>2. \A t \in Releases : job'[t].capture = job[t].capture
    BY <1>1, <2>1 DEF TypeOK
  <2>3. \A t \in Releases : pc'[t] = pc[t]
    BY <1>2, <1>3 DEF WatcherTick, WatcherStops
  <2>4. QED
    BY <1>3, <2>2, <2>3, ResultsFrame DEF WatcherTick, WatcherStops
<1>4. CASE WatcherJudges(k) \/ WatcherWarns(k) \/ Age(k)
  <2>1. \A t \in Releases : pc'[t] = pc[t]
    BY <1>2, <1>4 DEF WatcherJudges, WatcherWarns, Age
  <2>2. QED
    BY <1>4, <2>1, ResultsFrame DEF WatcherJudges, WatcherWarns, Age
<1>5. CASE TakeMarker(w)
  <2>1. job' = [job EXCEPT ![w].start = start, ![w].capture = listen_capture] /\ Goto(w, "stop_watcher")
    BY <1>5 DEF TakeMarker
  <2>2. \A t \in Releases : job'[t].capture = job[t].capture
    BY <1>1, <2>1 DEF TypeOK
  <2>3. \A t \in Releases : pc'[t] = pc[t]
    BY <1>2, <2>1
  <2>4. QED
    BY <1>5, <2>2, <2>3, ResultsFrame DEF TakeMarker
<1>6. CASE StopWatcher(w) \/ DerefWatcher(w)
  <2>1. \A t \in Releases : pc'[t] = pc[t]
    BY <1>2, <1>6 DEF StopWatcher, DerefWatcher
  <2>2. QED
    BY <1>6, <2>1, ResultsFrame DEF StopWatcher, DerefWatcher
<1>7. ReleaseSteps(w) => TakeMarker(w) \/ StopWatcher(w) \/ DerefWatcher(w)
  <2>1. pc[w] \in {"unborn", "dead", "take", "stop_watcher", "deref", "wait", "judge", "warn"}
    BY DEF Order, WatcherKnown, Running
  <2>2. QED
    BY <2>1 DEF ReleaseSteps, JoinWatcher, NoSegment, GetSegment, MakeDirFails, OpenRing, WriteRing, ReplaceRing,
                WriteRingFails, SaveSize, SwapToTiny,
                Transcribe, Analyzed, AnalyzeFails, RestoreSize, Publish, Announce
<1>8. QED
  BY <1>3, <1>4, <1>5, <1>6, <1>7 DEF WatcherLoop

\* The turn a release adds is of the session it took the recorder from, and trimming takes from the
\* front: if all turns were of this session, they still are.
LEMMA RememberKept ==
  ASSUME TypeOK, NEW t \in Threads, job[t].capture = session,
         \A i \in 1..Len(turns) : turns[i] = session
  PROVE  \A i \in 1..Len(Remember(t)) : Remember(t)[i] = session
<1> DEFINE all == Append(turns, job[t].capture)
<1>1. job[t].capture \in 0..MaxCaptures /\ turns \in Seq(0..MaxCaptures) /\ Len(turns) \in Nat
  BY DEF TypeOK
<1>2. /\ all \in Seq(0..MaxCaptures) /\ Len(all) = Len(turns) + 1
      /\ \A i \in 1..Len(turns) + 1 : all[i] = session
  BY <1>1
<1> HIDE DEF all
<1>3. /\ Len(Tail(all)) = Len(turns)
      /\ \A i \in 1..Len(turns) : Tail(all)[i] = all[i + 1]
  BY <1>1, <1>2
<1>4. \A i \in 1..Len(turns) : i + 1 \in 1..Len(turns) + 1
  BY <1>1
<1>5. \A i \in 1..Len(Tail(all)) : Tail(all)[i] = session
  BY <1>2, <1>3, <1>4
<1>6. Remember(t) = IF Len(all) > MaxTurns THEN Tail(all) ELSE all
  BY DEF Remember, all
<1>7. QED
  BY <1>2, <1>5, <1>6

LEMMA MeetingResults ==
  ASSUME TypeOK, Order, Results, ReleaseSteps(Meeting)
  PROVE  Results'
<1> USE DEF user, listening, marker, watch, locals, model, disk, results
<1> DEFINE m == Meeting
<1>1. m \in Threads /\ \A t \in Releases : t # m /\ t \in Threads
  BY Apart
<1>2. ASSUME NEW l, Goto(m, l) PROVE \A t \in Releases : pc'[t] = pc[t]
  <2> HIDE DEF m
  <2>1. QED
    BY <1>1, <1>2, Moved
<1>3. CASE Transcribe(m)
  <2>1. \A t \in Releases : pc'[t] = pc[t]
    BY <1>2, <1>3 DEF Transcribe
  <2>2. QED
    BY <1>3, <2>1, ResultsFrame DEF Transcribe
\* Its cards are its own, and no release runs that would have others.
<1>4. ASSUME NEW ok \in BOOLEAN, Analyzed(m, ok) \/ AnalyzeFails(m) \/ Announce(m) PROVE Results'
  <2>1. \A t \in Releases : pc'[t] = pc[t]
    BY <1>2, <1>4 DEF Analyzed, AnalyzeFails, Announce
  <2>2. /\ cards' \in {cards, Nobody, Meeting} /\ pc[m] \in {"llm", "announce"}
        /\ UNCHANGED <<main, key, start, snippet, turns, size, chosen, session, mic, saved, job, file>>
    BY <1>4 DEF Analyzed, AnalyzeFails, Announce
  <2>3. \A t \in Releases : pc[t] \in {"unborn", "dead"}
    BY <1>1, <2>2, OthersRest, Apart DEF Running
  <2>4. key = "up" /\ start = None
    BY <2>2, OthersRest, Apart DEF Order, ReleaseInOrder, Running, Joined
  <2>5. CardsInOrder'
    BY <2>1, <2>2, <2>3, <2>4 DEF Results, CardsInOrder, BeforeResults, Stopping, Recorded
  <2>6. SizeKept' /\ TurnsKept' /\ RingKept'
    BY <2>1, <2>2 DEF Results, SizeKept, TurnsKept, RingKept
  <2>7. QED
    BY <2>5, <2>6 DEF Results
<1>5. ReleaseSteps(m) => \/ Transcribe(m) \/ AnalyzeFails(m) \/ Announce(m)
                         \/ \E ok \in BOOLEAN : Analyzed(m, ok)
  <2>1. pc[m] \in {"unborn", "stt", "llm", "announce", "dead"}
    BY DEF Order, ReleaseInOrder
  <2>2. QED
    BY <2>1 DEF ReleaseSteps, TakeMarker, StopWatcher, DerefWatcher, JoinWatcher, NoSegment, GetSegment,
                MakeDirFails, OpenRing, WriteRing, ReplaceRing,
                WriteRingFails, SaveSize, SwapToTiny, RestoreSize, Publish
<1>6. QED
  BY <1>3, <1>4, <1>5

LEMMA ReleaseResults ==
  ASSUME TypeOK, Order, Results, NEW t \in Releases, ReleaseSteps(t)
  PROVE  Results'
<1> USE DEF user, listening, marker, watch, locals, model, disk, results
<1>1. t \in Threads /\ t \in Actors /\ t # Meeting /\ t \notin Watchers
  BY Apart DEF Watchers
<1>2. pc[t] \notin {"unborn", "dead"} =>
        key = "up" /\ main = "idle" /\ \A u \in Releases \ {t} : pc[u] \in {"unborn", "dead"}
  BY <1>1, OthersRest DEF Running
<1>3. ASSUME NEW l, Goto(t, l) PROVE pc'[t] = l /\ \A u \in Releases \ {t} : pc'[u] = pc[u]
  BY <1>1, <1>3, Moved, Apart
<1>4. pc[t] \in Stopping \cup Joined => start = None
  BY <1>1 DEF Order, ReleaseInOrder
<1> DEFINE Alone == /\ key = "up" /\ main = "idle" /\ key' = "up" /\ main' = "idle" /\ start' = None
                    /\ \A u \in Releases \ {t} : pc[u] \in {"unborn", "dead"} /\ pc'[u] = pc[u]
\* The recorder it takes is that of the session, if it records.
<1>5. CASE TakeMarker(t)
  <2>1. /\ Alone /\ pc[t] = "take" /\ pc'[t] = "stop_watcher"
        /\ UNCHANGED <<cards, snippet, turns, size, chosen, session, mic, saved, status, file>>
    BY <1>2, <1>3, <1>5 DEF TakeMarker
  <2>2. job'[t].capture = IF mic = "on" THEN session ELSE None
    BY <1>1, <1>5 DEF TakeMarker, TypeOK, listen_capture
  <2>3. TurnsKept'
    BY <2>1, <2>2 DEF Results, TurnsKept, Stopping, Recorded
  <2>4. CardsInOrder' /\ SizeKept' /\ RingKept'
    BY <2>1 DEF Results, CardsInOrder, SizeKept, RingKept, BeforeResults, Stopping, Recorded
  <2>5. QED
    BY <2>3, <2>4 DEF Results
<1>6. CASE StopWatcher(t) \/ DerefWatcher(t) \/ JoinWatcher(t)
  <2>1. /\ Alone /\ pc[t] \in Stopping /\ pc'[t] \in {"deref", "join", "segment", "dead"}
        /\ UNCHANGED <<cards, snippet, turns, size, chosen, session, mic, saved, status, file, job>>
    BY <1>2, <1>3, <1>4, <1>6 DEF StopWatcher, DerefWatcher, JoinWatcher, Stopping
  <2>2. cards \in {Nobody, Calendar}
    BY <2>1 DEF Results, CardsInOrder, BeforeResults
  <2>3. CardsInOrder'
    BY <2>1, <2>2 DEF CardsInOrder, BeforeResults, Stopping, Recorded
  <2>4. SizeKept' /\ TurnsKept' /\ RingKept'
    BY <2>1 DEF Results, SizeKept, TurnsKept, RingKept, Stopping, Recorded
  <2>5. QED
    BY <2>3, <2>4 DEF Results
<1>7. CASE NoSegment(t) \/ WriteRingFails(t) \/ MakeDirFails(t)
  <2>1. /\ Alone /\ pc[t] \in {"segment", "write", "opened", "written"} /\ pc'[t] \in {"announce", "dead"}
        /\ UNCHANGED <<cards, snippet, turns, size, chosen, session, mic, saved, file, job>>
    BY <1>2, <1>3, <1>4, <1>7 DEF NoSegment, WriteRingFails, MakeDirFails, Fail, Joined
  <2>2. cards \in {Nobody, Calendar}
    BY <2>1 DEF Results, CardsInOrder, BeforeResults, Recorded
  <2>3. CardsInOrder'
    BY <2>1, <2>2 DEF CardsInOrder, BeforeResults, Stopping, Recorded
  <2>4. SizeKept' /\ TurnsKept' /\ RingKept'
    BY <2>1 DEF Results, SizeKept, TurnsKept, RingKept, Stopping, Recorded
  <2>5. QED
    BY <2>3, <2>4 DEF Results
<1>8. CASE GetSegment(t) \/ SaveSize(t) \/ SwapToTiny(t) \/ Transcribe(t)
  <2>1. /\ Alone /\ pc[t] \in {"segment"} \cup Recorded
        /\ UNCHANGED <<cards, snippet, turns, chosen, session, mic, job, file>>
    BY <1>2, <1>3, <1>4, <1>8 DEF GetSegment, SaveSize, SwapToTiny, Transcribe, Joined, Recorded
  <2>2. \/ pc[t] = "segment" /\ pc'[t] = "write" /\ job[t].capture # None /\ UNCHANGED <<size, saved>>
        \/ pc[t] = "save" /\ pc'[t] = "swap" /\ saved'[t] = size /\ UNCHANGED size
        \/ pc[t] = "swap" /\ pc'[t] = "stt" /\ UNCHANGED saved
        \/ pc[t] = "stt" /\ pc'[t] = "llm" /\ UNCHANGED <<size, saved>>
    BY <1>1, <1>3, <1>8 DEF GetSegment, SaveSize, SwapToTiny, Transcribe, TypeOK
  <2>3. cards \in {Nobody, Calendar}
    BY <2>1 DEF Results, CardsInOrder, BeforeResults
  <2>4. CardsInOrder'
    BY <2>1, <2>2, <2>3 DEF CardsInOrder, BeforeResults, Stopping, Recorded
  <2>5. SizeKept'
    BY <2>1, <2>2 DEF Results, SizeKept
  <2>6. TurnsKept'
    BY <2>1, <2>2 DEF Results, TurnsKept, Stopping, Recorded
  <2>7. RingKept'
    BY <2>1, <2>2 DEF Results, RingKept
  <2>8. QED
    BY <2>4, <2>5, <2>6, <2>7 DEF Results
\* Its open empties ring.tmp, and its rename takes what is there then.
<1>9. CASE OpenRing(t) \/ WriteRing(t) \/ ReplaceRing(t)
  <2>1. /\ UNCHANGED <<cards, snippet, turns, chosen, session, mic, job, size, saved>>
        /\ Alone /\ pc[t] \in Recorded
    BY <1>2, <1>4, <1>3, <1>9 DEF OpenRing, WriteRing, ReplaceRing, OpenTmp, WriteTmp, Joined, Recorded
  <2>2. \/ pc[t] = "write" /\ pc'[t] = "opened" /\ OpenTmp(t)
        \/ pc[t] = "opened" /\ pc'[t] = "written" /\ WriteTmp(t)
        \/ pc[t] = "written" /\ pc'[t] = "save" /\ ReplaceRaw
    BY <1>3, <1>9 DEF OpenRing, WriteRing, ReplaceRing, OpenTmp, WriteTmp
  <2>3. cards \in {Nobody, Calendar}
    BY <2>1 DEF Results, CardsInOrder, BeforeResults
  <2>4. CardsInOrder'
    BY <2>1, <2>2, <2>3 DEF CardsInOrder, BeforeResults, Stopping, Recorded
  <2>5. SizeKept' /\ TurnsKept'
    BY <2>1, <2>2 DEF Results, SizeKept, TurnsKept, Stopping, Recorded
  <2>6. /\ pc[t] = "write" => file'.tmp = {}
        /\ pc[t] = "opened" => file'.tmp \subseteq file.tmp \cup {t}
        /\ pc[t] = "written" => file'.tmp = {} /\ file'.raw = file.tmp
    BY <2>2, FilesOfOpen, FilesOfWriter, FilesOfReplace
  <2>7. RingKept'
    BY <2>1, <2>2, <2>6 DEF Results, RingKept
  <2>8. QED
    BY <2>4, <2>5, <2>7 DEF Results
\* The cards are this release's, or empty; the turn is of this session.
<1>10. ASSUME NEW ok \in BOOLEAN, Analyzed(t, ok) \/ AnalyzeFails(t) PROVE Results'
  <2>1. /\ Alone /\ pc[t] = "llm" /\ pc'[t] = "restore"
        /\ UNCHANGED <<snippet, size, chosen, session, mic, saved, file, job>>
    BY <1>1, <1>2, <1>3, <1>4, <1>10 DEF Analyzed, AnalyzeFails, Joined
  <2>2. cards \in {Nobody, Calendar}
    BY <2>1 DEF Results, CardsInOrder, BeforeResults, Recorded
  <2>3. cards' \in {Nobody, Calendar} \/ (cards' = t /\ status'[t] = "ok")
    <3>1. CASE AnalyzeFails(t)
      <4>1. cards' \in {cards, Nobody}
        BY <3>1 DEF AnalyzeFails
      <4>2. QED
        BY <2>2, <4>1
    <3>2. CASE Analyzed(t, ok) /\ ok
      <4>1. cards' = t
        BY <3>2 DEF Analyzed
      <4>2. status'[t] = "ok"
        BY <1>1, <3>2 DEF Analyzed, TypeOK
      <4>3. QED
        BY <4>1, <4>2
    <3>3. CASE Analyzed(t, ok) /\ ~ok
      <4>1. cards' = Nobody
        BY <3>3 DEF Analyzed
      <4>2. QED
        BY <4>1
    <3>4. QED
      BY <1>10, <3>1, <3>2, <3>3
  <2>4. CardsInOrder'
    BY <2>1, <2>3 DEF CardsInOrder, BeforeResults, Stopping, Recorded
  <2>5. job[t].capture = session /\ mic \in {"on", "lost"} /\ \A i \in 1..Len(turns) : turns[i] = session
    BY <2>1 DEF Results, TurnsKept, Recorded
  <2>6. turns' = turns \/ turns' = Remember(t)
    BY <1>10 DEF Analyzed, AnalyzeFails
  <2>7. \A i \in 1..Len(turns') : turns'[i] = session
    BY <1>1, <2>5, <2>6, RememberKept
  <2>8. TurnsKept'
    BY <2>1, <2>5, <2>7 DEF TurnsKept, Stopping, Recorded
  <2>9. SizeKept' /\ RingKept'
    BY <2>1 DEF Results, SizeKept, RingKept
  <2>10. QED
    BY <2>4, <2>8, <2>9 DEF Results
<1>11. CASE RestoreSize(t)
  <2>1. /\ Alone /\ pc[t] = "restore" /\ pc'[t] = "publish" /\ size' = saved[t]
        /\ UNCHANGED <<cards, snippet, turns, chosen, session, mic, status, file, job>>
    BY <1>2, <1>3, <1>4, <1>11 DEF RestoreSize, Joined
  <2>2. SizeKept'
    BY <2>1 DEF Results, SizeKept
  <2>3. CardsInOrder' /\ TurnsKept' /\ RingKept'
    BY <2>1 DEF Results, CardsInOrder, TurnsKept, RingKept, BeforeResults, Stopping, Recorded
  <2>4. QED
    BY <2>2, <2>3 DEF Results
\* The transcript is that of the cards, if there are any.
<1>12. CASE Publish(t)
  <2>1. /\ Alone /\ pc[t] = "publish" /\ pc'[t] = "announce"
        /\ status[t] = "ok" => snippet' = t
        /\ UNCHANGED <<cards, turns, size, chosen, session, mic, saved, status, file, job>>
    BY <1>2, <1>3, <1>4, <1>12 DEF Publish, Joined
  <2>2. CardsInOrder'
    BY <2>1 DEF Results, CardsInOrder, BeforeResults, Stopping, Recorded
  <2>3. SizeKept' /\ TurnsKept' /\ RingKept'
    BY <2>1 DEF Results, SizeKept, TurnsKept, RingKept, Stopping, Recorded
  <2>4. QED
    BY <2>2, <2>3 DEF Results
<1>13. CASE Announce(t)
  <2>1. /\ Alone /\ pc[t] = "announce" /\ pc'[t] = "dead"
        /\ UNCHANGED <<cards, snippet, turns, size, chosen, session, mic, saved, file, job>>
    BY <1>2, <1>3, <1>4, <1>13 DEF Announce, Joined
  <2>2. QED
    BY <2>1 DEF Results, CardsInOrder, SizeKept, TurnsKept, RingKept, BeforeResults, Stopping, Recorded
<1>14. QED
  BY <1>5, <1>6, <1>7, <1>8, <1>9, <1>10, <1>11, <1>12, <1>13 DEF ReleaseSteps

LEMMA NextResults ==
  ASSUME Patient, TypeOK, Counted, Order, Results, [Next]_vars
  PROVE  Results'
<1>1. CASE UNCHANGED vars
  BY <1>1, ResultsFrame DEF vars, user, listening, marker, locals, model, disk, results
<1>2. ASSUME NEW t \in Threads \ {Loop}, ReleaseSteps(t) PROVE Results'
  BY <1>2, Apart, WatcherResults, MeetingResults, ReleaseResults DEF Actors
<1>3. QED
  BY <1>1, <1>2, UserResults, MainThreadResults, WatcherResults DEF Next

-----------------------------------------------------------------------------
(* What a patient user is promised. *)

PatientInv == Patient /\ TypeOK /\ Counted /\ Order /\ Results

\* Whatever fails and whenever the thread of a release or a watcher runs, the steps of one capture keep
\* their order and its results theirs (daemon.py, capture_start, _do_capture_release_sync).
THEOREM PatientOrder == Patient /\ FairSpec => []PatientInv
<1>1. Patient /\ Init => PatientInv
  BY InitTyped, InitOrder, InitResults DEF PatientInv
<1>2. PatientInv /\ [Next]_vars => PatientInv'
  BY NextTyped, NextOrder, NextResults DEF PatientInv
<1>3. QED
  BY <1>1, <1>2, PTL DEF Spec, FairSpec

\* While a capture is recorded its watcher runs, is known to the release that will stop it, and has not
\* been told to stop: the 30 s limit is guarded (daemon.py, capture_start, _copilot_watcher_loop).
THEOREM RecordingWatched == Patient /\ FairSpec => []RecordingIsWatched
<1>1. PatientInv => RecordingIsWatched
  BY DEF PatientInv, Order, MarkerWatched, RecordingIsWatched, Recording, Running
<1>2. QED
  BY <1>1, PatientOrder, PTL

\* No card of an earlier capture, or of an analysis the user called for, is shown while the next one is
\* recorded, whenever the calendar thread analyses, whose cards it may be (daemon.py, capture_start).
THEOREM CardsFresh == Patient /\ FairSpec => []FreshCards
<1>1. PatientInv => FreshCards
  BY DEF PatientInv, Results, CardsInOrder, FreshCards, Recording, get_copilot_capture_status
<1>2. QED
  BY <1>1, PatientOrder, PTL

\* Cards and transcript shown between captures are of the same capture, whatever analyses failed and
\* whatever meetings were analysed in between (daemon.py, analyze, _do_capture_release_sync).
THEOREM CardsOfSnippet == Patient /\ FairSpec => []CardsMatchSnippet
<1>1. PatientInv => CardsMatchSnippet
  <2> SUFFICES ASSUME PatientInv, Answered PROVE cards \in {Nobody, Meeting, Calendar, snippet}
    BY DEF CardsMatchSnippet, get_copilot_capture_status
  <2>1. \A t \in Releases : pc[t] \in {"unborn", "dead"}
    BY DEF Answered, Running
  <2>2. QED
    BY <2>1 DEF PatientInv, Results, CardsInOrder
<1>2. QED
  BY <1>1, PatientOrder, PTL

\* The model chosen in the configuration or by SwapModel comes back after every release, failed ones
\* included (daemon.py, _do_capture_release_sync; model_manager.py, swap_model).
THEOREM SizeComesBack == Patient /\ FairSpec => []SizeRestored
<1>1. PatientInv => SizeRestored
  BY DEF PatientInv, Results, SizeKept, SizeRestored, Answered, Running
<1>2. QED
  BY <1>1, PatientOrder, PTL

\* The conversation handed to the LLM never reaches over a listen_stop (daemon.py, analyze, listen_stop).
THEOREM TurnsStayInSession == Patient /\ FairSpec => []TurnsOfThisSession
<1>1. PatientInv => TurnsOfThisSession
  BY DEF PatientInv, Results, TurnsKept, TurnsOfThisSession
<1>2. QED
  BY <1>1, PatientOrder, PTL

\* Wherever saves of the listen loop open, write and rename ring.tmp between the steps of a release, and
\* whichever of them fails: what is transcribed for it holds no audio cut for another release (daemon.py,
\* _do_capture_release_sync, _listen_loop).
THEOREM HearsItsOwn == Patient /\ FairSpec => []HearsNoOtherCapture
<1>1. PatientInv => HearsNoOtherCapture
  BY DEF PatientInv, Results, RingKept, HearsNoOtherCapture
<1>2. QED
  BY <1>1, PatientOrder, PTL
=============================================================================
