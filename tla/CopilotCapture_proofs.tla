----------------------- MODULE CopilotCapture_proofs -----------------------
(***************************************************************************)
(* Proofs about CopilotCapture, for any number of captures and turns, any  *)
(* model sizes, and any user: patient or not.                              *)
(***************************************************************************)
EXTENDS CopilotCapture, TLAPS

\* A session is opened by a capture, and a held key is a capture without its release: so no more
\* sessions and releases begin than captures, and each of them has its place in the model.
Counted ==
  /\ session <= captures /\ releases <= captures
  /\ key = "down" => releases < captures

\* The marker is the newest capture, or None.  While it is set no thread has taken it, and what a
\* thread took it took from some earlier or the same capture; between the key press and the new
\* marker every marker in the system is older.
MarkerIsNewest ==
  /\ start <= captures
  /\ \A t \in Threads : job[t].start <= captures
  /\ main = "mark" => start < captures /\ \A t \in Threads : job[t].start < captures
  /\ start # None => \A t \in Threads : job[t].start # start

IInv == TypeOK /\ Counted /\ MarkerIsNewest /\ MarkerTakenOnce

-----------------------------------------------------------------------------
(* The helpers. *)

LEMMA Names ==
  /\ \A k \in Captures : Watcher(k) \in Threads /\ Release(k) \in Threads /\ Release(k) \in Releases
  /\ Meeting \in Threads /\ Loop \in Threads
  BY DEF Threads, Watchers, Releases

LEMMA NoneTyped == None \in 0..MaxCaptures
  BY BoundsAssumption DEF None

LEMMA GotoTyped ==
  ASSUME TypeOK, NEW t, NEW l \in Locations, Goto(t, l)
  PROVE  pc' \in [Threads -> Locations]
  BY DEF TypeOK, Goto

LEMMA FailTyped ==
  ASSUME TypeOK, NEW t, Fail(t)
  PROVE  /\ pc' \in [Threads -> Locations]
         /\ status' \in [Threads -> {"none", "ok", "error", "announced", "lost"}]
  BY DEF TypeOK, Fail, Goto, Locations

\* The remembered turns stay within MaxTurns, whoever's turn is added.
LEMMA RememberTyped ==
  ASSUME TypeOK, NEW t \in Threads
  PROVE  Remember(t) \in Seq(0..MaxCaptures) /\ Len(Remember(t)) <= MaxTurns
<1> DEFINE all == Append(turns, job[t].capture)
<1>1. job[t].capture \in 0..MaxCaptures /\ turns \in Seq(0..MaxCaptures) /\ Len(turns) <= MaxTurns
  BY DEF TypeOK
<1>2. all \in Seq(0..MaxCaptures) /\ Len(all) = Len(turns) + 1 /\ Len(turns) \in Nat
  BY <1>1
<1>3. Tail(all) \in Seq(0..MaxCaptures) /\ Len(Tail(all)) = Len(turns)
  <2> HIDE DEF all
  <2>1. all # <<>>
    BY <1>2
  <2>2. QED
    BY <1>2, <2>1
<1>4. Remember(t) = IF Len(all) > MaxTurns THEN Tail(all) ELSE all
  BY DEF Remember
<1>5. QED
  <2> HIDE DEF all
  <2>1. CASE Len(all) > MaxTurns
    BY <2>1, <1>1, <1>3, <1>4
  <2>2. CASE ~(Len(all) > MaxTurns)
    BY <2>2, <1>2, <1>4, BoundsAssumption
  <2>3. QED
    BY <2>1, <2>2

\* The steps on the two files.
DiskTyped ==
  /\ file \in [tmp : SUBSET Threads, raw : SUBSET Threads] /\ tmp_there \in BOOLEAN
  /\ fd \in [Threads -> {"closed", "tmp", "raw", "gone"}]

LEMMA OpenTyped ==
  ASSUME DiskTyped, TypeOK, NEW t \in Threads, OpenTmp(t)
  PROVE  DiskTyped' /\ pc' \in [Threads -> Locations]
<1>1. pc' \in [Threads -> Locations]
  BY GotoTyped DEF OpenTmp, Locations
<1>2. QED
  BY <1>1 DEF OpenTmp, DiskTyped

LEMMA WriteTyped ==
  ASSUME DiskTyped, TypeOK, NEW t \in Threads, WriteTmp(t)
  PROVE  DiskTyped' /\ pc' \in [Threads -> Locations]
<1>1. pc' \in [Threads -> Locations]
  BY GotoTyped DEF WriteTmp, Locations
<1>2. fd' \in [Threads -> {"closed", "tmp", "raw", "gone"}] /\ tmp_there' \in BOOLEAN
  BY DEF WriteTmp, DiskTyped
<1>3. file' \in [tmp : SUBSET Threads, raw : SUBSET Threads]
  <2>1. CASE file' = file
    BY <2>1 DEF DiskTyped
  <2>2. ASSUME file' # file
        PROVE  \E name \in {"tmp", "raw"}, all \in SUBSET Threads : file' = [file EXCEPT ![name] = all]
    <3>1. file' \in {[file EXCEPT ![fd[t]] = all] : all \in {{t}, file[fd[t]] \cup {t}}}
      BY <2>2 DEF WriteTmp
    <3>2. CASE fd[t] \in {"tmp", "raw"}
      BY <3>1, <3>2 DEF DiskTyped
    <3>3. CASE fd[t] = "closed"
      BY <2>2, <3>1, <3>3 DEF DiskTyped
    <3>4. CASE fd[t] = "gone"
      BY <2>2, <3>1, <3>4 DEF DiskTyped
    <3>5. QED
      BY <3>2, <3>3, <3>4 DEF DiskTyped
  <2>3. QED
    BY <2>1, <2>2 DEF DiskTyped
<1>4. QED
  BY <1>1, <1>2, <1>3 DEF DiskTyped

LEMMA ReplaceTyped ==
  ASSUME DiskTyped, ReplaceRaw
  PROVE  DiskTyped'
  BY DEF ReplaceRaw, DiskTyped

LEMMA CloseTyped ==
  ASSUME DiskTyped, NEW t, fd' = [fd EXCEPT ![t] = "closed"]
  PROVE  fd' \in [Threads -> {"closed", "tmp", "raw", "gone"}]
  BY DEF DiskTyped

LEMMA ExtraTyped ==
  ASSUME TypeOK, Extra
  PROVE  extras' \in 0..MaxExtras
  BY BoundsAssumption DEF TypeOK, Extra

-----------------------------------------------------------------------------
(* Typing. *)

LEMMA InitTyped == Init => TypeOK /\ Counted
<1> SUFFICES ASSUME Init PROVE TypeOK /\ Counted
  OBVIOUS
<1>1. turns \in Seq(0..MaxCaptures) /\ Len(turns) <= MaxTurns
  BY BoundsAssumption DEF Init
<1>2. job \in [Threads -> [seen : 0..MaxCaptures, start : 0..MaxCaptures, capture : 0..MaxCaptures]]
  BY BoundsAssumption DEF Init, None
<1>3. {size, chosen} \subseteq Sizes /\ saved \in [Threads -> Sizes]
  BY SizesAssumption DEF Init
<1>4. /\ age \in [Captures -> 0..2] /\ pc \in [Threads -> Locations]
      /\ joining \in [Threads -> 0..MaxCaptures]
      /\ status \in [Threads -> {"none", "ok", "error", "announced", "lost"}]
  BY BoundsAssumption DEF Init, None, Locations
<1>5. {captures, releases, session, start, wref} \subseteq 0..MaxCaptures /\ extras \in 0..MaxExtras
  BY BoundsAssumption DEF Init, None
<1>6. /\ main \in {"idle", "mark", "arm", "watch", "stopping"} /\ key \in {"up", "down"}
      /\ mic \in {"off", "opening", "on", "lost"} /\ warned \in BOOLEAN /\ wstop \in BOOLEAN
      /\ DiskTyped /\ {cards, snippet} \subseteq Threads \cup {Calendar, Nobody}
      /\ overlay \in {"armed", "recording", "recording_warning", "analyzing"}
  BY DEF Init, DiskTyped
<1>7. Counted
  BY DEF Init, Counted
<1>8. QED
  BY <1>1, <1>2, <1>3, <1>4, <1>5, <1>6, <1>7 DEF TypeOK, DiskTyped

LEMMA MainThreadTyped == TypeOK /\ Counted /\ MainThread => TypeOK' /\ Counted'
<1> SUFFICES ASSUME TypeOK, Counted, MainThread PROVE TypeOK' /\ Counted'
  OBVIOUS
<1> USE BoundsAssumption DEF TypeOK, Counted, user, listening, marker, watch, locals, model, disk, results
<1>1. CASE MarkStart
  BY <1>1 DEF MarkStart
<1>2. CASE ArmWatcher
  BY <1>2 DEF ArmWatcher
<1>3. CASE StartWatcher
  BY <1>3 DEF StartWatcher, Goto, Locations
<1>4. CASE ListenStopped
  <2>1. turns' \in Seq(0..MaxCaptures) /\ Len(turns') <= MaxTurns
    BY <1>4 DEF ListenStopped
  <2>2. QED
    BY <1>4, <2>1 DEF ListenStopped
<1>5. QED
  BY <1>1, <1>2, <1>3, <1>4 DEF MainThread

LEMMA ListenThreadTyped == TypeOK /\ Counted /\ (ListenThread \/ CalendarAnalyzes) => TypeOK' /\ Counted'
<1> SUFFICES ASSUME TypeOK, Counted, ListenThread \/ CalendarAnalyzes PROVE TypeOK' /\ Counted'
  OBVIOUS
<1>1. DiskTyped
  BY DEF TypeOK, DiskTyped
<1>2. CASE PersistRing
  <2>1. UNCHANGED <<main, key, captures, releases, listening, marker, watch, locals, model, results, overlay>>
    BY <1>2 DEF PersistRing
  <2>2. extras' \in 0..MaxExtras
    BY <1>2, ExtraTyped DEF PersistRing, TypeOK
  <2>3. CASE OpenTmp(Loop)
    <3>1. DiskTyped' /\ pc' \in [Threads -> Locations]
      BY <1>1, <2>3, OpenTyped, Names
    <3>2. QED
      BY <2>1, <2>2, <3>1
      DEF TypeOK, Counted, DiskTyped, listening, marker, watch, locals, model, results
  <2>4. CASE WriteTmp(Loop)
    <3>1. DiskTyped' /\ pc' \in [Threads -> Locations]
      BY <1>1, <2>4, WriteTyped, Names
    <3>2. QED
      BY <2>1, <2>2, <3>1
      DEF TypeOK, Counted, DiskTyped, listening, marker, watch, locals, model, results
  <2>5. CASE ReplaceRaw /\ Goto(Loop, "wait")
    <3>1. DiskTyped'
      BY <1>1, <2>5, ReplaceTyped
    <3>2. pc' \in [Threads -> Locations]
      BY <2>5, GotoTyped DEF Locations
    <3>3. QED
      BY <2>1, <2>2, <3>1, <3>2
      DEF TypeOK, Counted, DiskTyped, listening, marker, watch, locals, model, results
  <2>6. QED
    BY <1>2, <2>3, <2>4, <2>5 DEF PersistRing
<1>3. CASE LoopDies
  <2>1. pc' \in [Threads -> Locations] /\ fd' \in [Threads -> {"closed", "tmp", "raw", "gone"}]
    BY <1>1, <1>3, GotoTyped, CloseTyped DEF LoopDies, Locations
  <2>2. /\ mic' = "lost"
        /\ UNCHANGED <<user, session, marker, watch, locals, model, file, tmp_there, results, overlay>>
    BY <1>3 DEF LoopDies
  <2>3. QED
    BY <2>1, <2>2 DEF TypeOK, Counted, user, marker, watch, locals, model, results
<1>4. CASE CalendarAnalyzes
  <2>1. extras' \in 0..MaxExtras
    BY <1>4, ExtraTyped DEF CalendarAnalyzes
  <2>2. UNCHANGED <<main, key, captures, releases, listening, marker, watch, pc, locals, model, disk,
                    snippet, turns, overlay>>
    BY <1>4 DEF CalendarAnalyzes
  <2>3. cards' \in Threads \cup {Calendar, Nobody}
    BY <1>4 DEF CalendarAnalyzes
  <2>4. Counted'
    BY <2>2 DEF Counted, listening
  <2>5. TypeOK'
    BY <2>1, <2>2, <2>3 DEF TypeOK, listening, marker, watch, locals, model, disk
  <2>6. QED
    BY <2>4, <2>5
<1>5. CASE OpenCapture \/ CloseCapture
  BY <1>5 DEF OpenCapture, CloseCapture, TypeOK, Counted, user, marker, watch, locals, model, disk, results
<1>6. QED
  BY <1>2, <1>3, <1>4, <1>5 DEF ListenThread

\* The key that is down has a capture that no release has answered yet.
LEMMA NextRelease ==
  ASSUME TypeOK, Counted, key = "down"
  PROVE  releases + 1 \in Captures /\ releases + 1 \in 0..MaxCaptures /\ releases + 1 <= captures
<1>1. releases \in 0..MaxCaptures /\ captures \in 0..MaxCaptures
  BY DEF TypeOK
<1>2. releases < captures
  BY DEF Counted
<1>3. QED
  BY <1>1, <1>2, BoundsAssumption DEF Captures

LEMMA ReleaseCounts ==
  ASSUME TypeOK, Counted, CaptureRelease
  PROVE  releases' \in 0..MaxCaptures /\ releases' <= captures /\ key' = "up"
<1>1. key = "down" /\ key' = "up" /\ releases' = releases + 1
  BY DEF CaptureRelease
<1>2. QED
  BY <1>1, NextRelease

LEMMA UserTyped == TypeOK /\ Counted /\ User => TypeOK' /\ Counted'
<1> SUFFICES ASSUME TypeOK, Counted, User PROVE TypeOK' /\ Counted'
  OBVIOUS
<1> USE BoundsAssumption DEF TypeOK, Counted, user, listening, marker, watch, locals, model, disk, results
<1>1. CASE CaptureStart
  <2>1. /\ releases' = releases /\ key' = "down" /\ main' = "mark"
        /\ UNCHANGED <<extras, marker, wstop, wref, pc, locals, model, disk, results, overlay>>
    BY <1>1 DEF CaptureStart
  <2>2. captures \in Nat /\ session \in Nat /\ releases \in Nat /\ captures < MaxCaptures
    BY <1>1 DEF CaptureStart
  <2>3. captures' = captures + 1 /\ session' \in {session, session + 1} /\ mic' \in {mic, "opening"}
    BY <1>1 DEF CaptureStart
  <2>4. session <= captures /\ releases <= captures
    OBVIOUS
  <2>5. Counted'
    BY <2>1, <2>2, <2>3, <2>4
  <2>6. {captures', releases', session'} \subseteq 0..MaxCaptures /\ mic' \in {"off", "opening", "on", "lost"}
    BY <2>1, <2>2, <2>3, <2>4
  <2>7. age' \in [Captures -> 0..2]
    BY <1>1 DEF CaptureStart
  <2>8. TypeOK'
    BY <2>1, <2>6, <2>7
  <2>9. QED
    BY <2>5, <2>8
<1>2. CASE CaptureRelease
  <2>1. pc' \in [Threads -> Locations]
    BY <1>2, GotoTyped DEF CaptureRelease, Locations
  <2>2. releases' \in 0..MaxCaptures /\ releases' <= captures /\ key' = "up"
    BY <1>2, ReleaseCounts
  <2>3. QED
    BY <1>2, <2>1, <2>2 DEF CaptureRelease
<1>3. CASE CallAnalyze
  <2>1. extras' \in 0..MaxExtras /\ pc' \in [Threads -> Locations]
    BY <1>3, ExtraTyped, GotoTyped DEF CallAnalyze, Locations
  <2>2. QED
    BY <1>3, <2>1 DEF CallAnalyze
<1>4. CASE CallListenStop
  <2>1. extras' \in 0..MaxExtras
    BY <1>4, ExtraTyped DEF CallListenStop
  <2>2. QED
    BY <1>4, <2>1 DEF CallListenStop
<1>5. ASSUME NEW s \in Sizes, SwapModel(s) PROVE TypeOK' /\ Counted'
  <2>1. extras' \in 0..MaxExtras
    BY <1>5, ExtraTyped DEF SwapModel
  <2>2. QED
    BY <1>5, <2>1 DEF SwapModel
<1>6. QED
  BY <1>1, <1>2, <1>3, <1>4, <1>5 DEF User

LEMMA WatcherTyped ==
  ASSUME TypeOK, Counted, NEW k \in Captures, WatcherLoop(k) \/ Age(k)
  PROVE  TypeOK' /\ Counted'
<1> USE BoundsAssumption DEF TypeOK, Counted, user, listening, marker, watch, locals, model, disk, results
<1>1. CASE WatcherTick(k)
  <2>1. pc' \in [Threads -> Locations]
    BY <1>1, GotoTyped DEF WatcherTick, Locations
  <2>2. job' \in [Threads -> [seen : 0..MaxCaptures, start : 0..MaxCaptures, capture : 0..MaxCaptures]]
    BY <1>1 DEF WatcherTick
  <2>3. QED
    BY <1>1, <2>1, <2>2 DEF WatcherTick
<1>2. CASE WatcherStops(k)
  <2>1. pc' \in [Threads -> Locations]
    BY <1>2, GotoTyped DEF WatcherStops, Locations
  <2>2. job' \in [Threads -> [seen : 0..MaxCaptures, start : 0..MaxCaptures, capture : 0..MaxCaptures]]
    BY <1>2, NoneTyped DEF WatcherStops
  <2>3. QED
    BY <1>2, <2>1, <2>2 DEF WatcherStops
<1>3. CASE WatcherJudges(k)
  <2>1. pc' \in [Threads -> Locations]
    BY <1>3 DEF WatcherJudges, Goto, Locations
  <2>2. /\ warned' \in BOOLEAN
        /\ overlay' \in {"armed", "recording", "recording_warning", "analyzing"}
    BY <1>3 DEF WatcherJudges
  <2>3. QED
    BY <1>3, <2>1, <2>2 DEF WatcherJudges
<1>4. CASE WatcherWarns(k)
  BY <1>4 DEF WatcherWarns, Goto, Locations
<1>5. CASE Age(k)
  <2>1. age[k] \in 0..1
    BY <1>5 DEF Age
  <2>2. age' \in [Captures -> 0..2]
    BY <1>5, <2>1 DEF Age
  <2>3. QED
    BY <1>5, <2>2 DEF Age
<1>6. QED
  BY <1>1, <1>2, <1>3, <1>4, <1>5 DEF WatcherLoop

\* What an analysis stores, and what taking the marker changes.
LEMMA StoreTyped ==
  ASSUME TypeOK, Counted, pc' \in [Threads -> Locations],
         cards' \in Threads \cup {Calendar, Nobody},
         turns' \in Seq(0..MaxCaptures), Len(turns') <= MaxTurns,
         status' \in [Threads -> {"none", "ok", "error", "announced", "lost"}],
         UNCHANGED <<user, listening, marker, watch, job, joining, saved, model, disk, snippet, overlay>>
  PROVE  TypeOK' /\ Counted'
  BY DEF TypeOK, Counted, user, listening, marker, watch, model, disk

LEMMA TakeTyped ==
  ASSUME TypeOK, Counted, pc' \in [Threads -> Locations],
         job' \in [Threads -> [seen : 0..MaxCaptures, start : 0..MaxCaptures, capture : 0..MaxCaptures]],
         start' \in 0..MaxCaptures, warned' \in BOOLEAN,
         UNCHANGED <<user, listening, watch, joining, saved, status, model, disk, results, overlay>>
  PROVE  TypeOK' /\ Counted'
  BY DEF TypeOK, Counted, user, listening, watch, model, disk, results

\* What the other steps of a release change.
StepFields ==
  /\ wstop \in BOOLEAN /\ wref \in 0..MaxCaptures /\ joining \in [Threads -> 0..MaxCaptures]
  /\ saved \in [Threads -> Sizes] /\ size \in Sizes
  /\ snippet \in Threads \cup {Calendar, Nobody}
  /\ status \in [Threads -> {"none", "ok", "error", "announced", "lost"}]

LEMMA StepTyped ==
  ASSUME TypeOK, Counted, pc' \in [Threads -> Locations], StepFields',
         UNCHANGED <<user, listening, marker, age, job, chosen, disk, cards, turns, overlay>>
  PROVE  TypeOK' /\ Counted'
  BY DEF TypeOK, Counted, StepFields, user, listening, marker, disk

LEMMA ReleaseTyped ==
  ASSUME TypeOK, Counted, NEW t \in Threads, ReleaseSteps(t)
  PROVE  TypeOK' /\ Counted'
<1> USE BoundsAssumption, SizesAssumption
    DEF TypeOK, Counted, user, listening, marker, watch, locals, model, disk, results
<1>1. CASE TakeMarker(t)
  <2>1. pc' \in [Threads -> Locations]
    BY <1>1, GotoTyped DEF TakeMarker, Locations
  <2>2. listen_capture \in 0..MaxCaptures
    BY DEF listen_capture, None
  <2>3. job' \in [Threads -> [seen : 0..MaxCaptures, start : 0..MaxCaptures, capture : 0..MaxCaptures]]
    BY <1>1, <2>2 DEF TakeMarker
  <2>4. start' \in 0..MaxCaptures /\ warned' \in BOOLEAN
    BY <1>1, NoneTyped DEF TakeMarker
  <2>5. UNCHANGED <<user, listening, watch, joining, saved, status, model, disk, results, overlay>>
    BY <1>1 DEF TakeMarker
  <2> HIDE DEF TypeOK, Counted, user, listening, marker, watch, locals, model, disk, results
  <2>6. QED
    BY <2>1, <2>3, <2>4, <2>5, TakeTyped
<1>2. CASE StopWatcher(t)
  <2>1. pc' \in [Threads -> Locations]
    BY <1>2, GotoTyped DEF StopWatcher, Locations
  <2>2. StepFields
    BY DEF StepFields
  <2> HIDE DEF TypeOK, Counted
  <2>3. StepFields'
    BY <1>2, <2>2 DEF StopWatcher, StepFields, None
  <2>4. UNCHANGED <<user, listening, marker, age, job, chosen, disk, cards, turns, overlay>>
    BY <1>2 DEF StopWatcher
  <2> HIDE DEF user, listening, marker, watch, locals, model, disk, results
  <2>5. QED
    BY <2>1, <2>3, <2>4, StepTyped
<1>3. CASE DerefWatcher(t)
  <2>1. pc' \in [Threads -> Locations]
    BY <1>3, GotoTyped DEF DerefWatcher, Locations
  <2>2. StepFields
    BY DEF StepFields
  <2> HIDE DEF TypeOK, Counted
  <2>3. StepFields'
    BY <1>3, <2>2 DEF DerefWatcher, StepFields, None
  <2>4. UNCHANGED <<user, listening, marker, age, job, chosen, disk, cards, turns, overlay>>
    BY <1>3 DEF DerefWatcher
  <2> HIDE DEF user, listening, marker, watch, locals, model, disk, results
  <2>5. QED
    BY <2>1, <2>3, <2>4, StepTyped
<1>4. CASE JoinWatcher(t)
  <2>1. pc' \in [Threads -> Locations]
    BY <1>4, GotoTyped DEF JoinWatcher, Locations
  <2>2. StepFields
    BY DEF StepFields
  <2> HIDE DEF TypeOK, Counted
  <2>3. StepFields'
    BY <1>4, <2>2 DEF JoinWatcher, StepFields, None
  <2>4. UNCHANGED <<user, listening, marker, age, job, chosen, disk, cards, turns, overlay>>
    BY <1>4 DEF JoinWatcher
  <2> HIDE DEF user, listening, marker, watch, locals, model, disk, results
  <2>5. QED
    BY <2>1, <2>3, <2>4, StepTyped
<1>5. CASE NoSegment(t)
  <2>1. pc' \in [Threads -> Locations]
    BY <1>5, FailTyped DEF NoSegment
  <2>2. StepFields
    BY DEF StepFields
  <2> HIDE DEF TypeOK, Counted
  <2>3. StepFields'
    BY <1>5, <2>2 DEF NoSegment, Fail, StepFields
  <2>4. UNCHANGED <<user, listening, marker, age, job, chosen, disk, cards, turns, overlay>>
    BY <1>5 DEF NoSegment
  <2> HIDE DEF user, listening, marker, watch, locals, model, disk, results
  <2>5. QED
    BY <2>1, <2>3, <2>4, StepTyped
<1>6. CASE GetSegment(t)
  <2>1. pc' \in [Threads -> Locations]
    BY <1>6, GotoTyped DEF GetSegment, Locations
  <2>2. StepFields
    BY DEF StepFields
  <2> HIDE DEF TypeOK, Counted
  <2>3. StepFields'
    BY <1>6, <2>2 DEF GetSegment, StepFields
  <2>4. UNCHANGED <<user, listening, marker, age, job, chosen, disk, cards, turns, overlay>>
    BY <1>6 DEF GetSegment
  <2> HIDE DEF user, listening, marker, watch, locals, model, disk, results
  <2>5. QED
    BY <2>1, <2>3, <2>4, StepTyped
<1>7. CASE OpenRing(t) \/ WriteRing(t) \/ ReplaceRing(t)
  <2>1. DiskTyped
    BY DEF DiskTyped
  <2>2. DiskTyped' /\ pc' \in [Threads -> Locations]
    <3>1. CASE OpenRing(t)
      BY <2>1, <3>1, OpenTyped DEF OpenRing
    <3>2. CASE WriteRing(t)
      BY <2>1, <3>2, WriteTyped DEF WriteRing
    <3>3. CASE ReplaceRing(t)
      BY <2>1, <3>3, ReplaceTyped, GotoTyped DEF ReplaceRing, Locations
    <3>4. QED
      BY <1>7, <3>1, <3>2, <3>3
  <2>3. UNCHANGED <<user, listening, marker, watch, locals, model, results, overlay>>
    BY <1>7 DEF OpenRing, WriteRing, ReplaceRing
  <2>4. QED
    BY <2>2, <2>3 DEF DiskTyped
<1>8. CASE WriteRingFails(t) \/ MakeDirFails(t)
  <2>1. /\ pc' \in [Threads -> Locations]
        /\ status' \in [Threads -> {"none", "ok", "error", "announced", "lost"}]
    BY <1>8, FailTyped, GotoTyped DEF WriteRingFails, MakeDirFails, Locations
  <2>2. fd' \in [Threads -> {"closed", "tmp", "raw", "gone"}]
    BY <1>8 DEF WriteRingFails, MakeDirFails
  <2>3. UNCHANGED <<user, listening, marker, watch, job, joining, saved, model, file, tmp_there, results, overlay>>
    BY <1>8 DEF WriteRingFails, MakeDirFails
  <2>4. QED
    BY <2>1, <2>2, <2>3
<1>9. CASE SaveSize(t)
  <2>1. pc' \in [Threads -> Locations]
    BY <1>9, GotoTyped DEF SaveSize, Locations
  <2>2. StepFields
    BY DEF StepFields
  <2> HIDE DEF TypeOK, Counted
  <2>3. StepFields'
    BY <1>9, <2>2 DEF SaveSize, StepFields, None
  <2>4. UNCHANGED <<user, listening, marker, age, job, chosen, disk, cards, turns, overlay>>
    BY <1>9 DEF SaveSize
  <2> HIDE DEF user, listening, marker, watch, locals, model, disk, results
  <2>5. QED
    BY <2>1, <2>3, <2>4, StepTyped
<1>10. CASE SwapToTiny(t)
  <2>1. pc' \in [Threads -> Locations]
    BY <1>10, GotoTyped DEF SwapToTiny, Locations
  <2>2. StepFields
    BY DEF StepFields
  <2> HIDE DEF TypeOK, Counted
  <2>3. StepFields'
    BY <1>10, <2>2, SizesAssumption DEF SwapToTiny, StepFields
  <2>4. UNCHANGED <<user, listening, marker, age, job, chosen, disk, cards, turns, overlay>>
    BY <1>10 DEF SwapToTiny
  <2> HIDE DEF user, listening, marker, watch, locals, model, disk, results
  <2>5. QED
    BY <2>1, <2>3, <2>4, StepTyped
<1>11. CASE Transcribe(t)
  <2>1. pc' \in [Threads -> Locations]
    BY <1>11, GotoTyped DEF Transcribe, Locations
  <2>2. StepFields
    BY DEF StepFields
  <2> HIDE DEF TypeOK, Counted
  <2>3. StepFields'
    BY <1>11, <2>2 DEF Transcribe, StepFields
  <2>4. UNCHANGED <<user, listening, marker, age, job, chosen, disk, cards, turns, overlay>>
    BY <1>11 DEF Transcribe
  <2> HIDE DEF user, listening, marker, watch, locals, model, disk, results
  <2>5. QED
    BY <2>1, <2>3, <2>4, StepTyped
<1>12. ASSUME NEW ok \in BOOLEAN, Analyzed(t, ok) PROVE TypeOK' /\ Counted'
  <2>1. pc' \in [Threads -> Locations]
    BY <1>12, GotoTyped DEF Analyzed, Locations
  <2>2. turns' \in Seq(0..MaxCaptures) /\ Len(turns') <= MaxTurns
    BY <1>12, RememberTyped DEF Analyzed
  <2>3. cards' \in Threads \cup {Calendar, Nobody}
    BY <1>12 DEF Analyzed
  <2>4. status' \in [Threads -> {"none", "ok", "error", "announced", "lost"}]
    BY <1>12 DEF Analyzed
  <2>5. UNCHANGED <<user, listening, marker, watch, job, joining, saved, model, disk, snippet, overlay>>
    BY <1>12 DEF Analyzed
  <2> HIDE DEF TypeOK, Counted, user, listening, marker, watch, locals, model, disk, results
  <2>6. QED
    BY <2>1, <2>2, <2>3, <2>4, <2>5, StoreTyped
<1>13. CASE AnalyzeFails(t)
  <2>1. pc' \in [Threads -> Locations]
    BY <1>13, GotoTyped DEF AnalyzeFails, Locations
  <2>2. cards' \in Threads \cup {Calendar, Nobody}
    BY <1>13 DEF AnalyzeFails
  <2>3. status' \in [Threads -> {"none", "ok", "error", "announced", "lost"}]
    BY <1>13 DEF AnalyzeFails
  <2>4. UNCHANGED <<user, listening, marker, watch, job, joining, saved, model, disk, snippet, turns, overlay>>
    BY <1>13 DEF AnalyzeFails
  <2>5. turns' \in Seq(0..MaxCaptures) /\ Len(turns') <= MaxTurns
    BY <2>4
  <2> HIDE DEF TypeOK, Counted, user, listening, marker, watch, locals, model, disk, results
  <2>6. QED
    BY <2>1, <2>2, <2>3, <2>4, <2>5, StoreTyped
<1>14. CASE RestoreSize(t)
  <2>1. pc' \in [Threads -> Locations]
    BY <1>14, GotoTyped DEF RestoreSize, Locations
  <2>2. StepFields
    BY DEF StepFields
  <2> HIDE DEF TypeOK, Counted
  <2>3. StepFields'
    BY <1>14, <2>2 DEF RestoreSize, StepFields, None
  <2>4. UNCHANGED <<user, listening, marker, age, job, chosen, disk, cards, turns, overlay>>
    BY <1>14 DEF RestoreSize
  <2> HIDE DEF user, listening, marker, watch, locals, model, disk, results
  <2>5. QED
    BY <2>1, <2>3, <2>4, StepTyped
<1>15. CASE Publish(t)
  <2>1. pc' \in [Threads -> Locations]
    BY <1>15, GotoTyped DEF Publish, Locations
  <2>2. StepFields
    BY DEF StepFields
  <2> HIDE DEF TypeOK, Counted
  <2>3. StepFields'
    BY <1>15, <2>2 DEF Publish, StepFields, None
  <2>4. UNCHANGED <<user, listening, marker, age, job, chosen, disk, cards, turns, overlay>>
    BY <1>15 DEF Publish
  <2> HIDE DEF user, listening, marker, watch, locals, model, disk, results
  <2>5. QED
    BY <2>1, <2>3, <2>4, StepTyped
<1>16. CASE Announce(t)
  <2>1. pc' \in [Threads -> Locations]
    BY <1>16, GotoTyped DEF Announce, Locations
  <2>2. StepFields
    BY DEF StepFields
  <2> HIDE DEF TypeOK, Counted
  <2>3. StepFields'
    BY <1>16, <2>2 DEF Announce, StepFields, None
  <2>4. UNCHANGED <<user, listening, marker, age, job, chosen, disk, cards, turns, overlay>>
    BY <1>16 DEF Announce
  <2> HIDE DEF user, listening, marker, watch, locals, model, disk, results
  <2>5. QED
    BY <2>1, <2>3, <2>4, StepTyped
<1>17. QED
  BY <1>1, <1>2, <1>3, <1>4, <1>5, <1>6, <1>7, <1>8, <1>9, <1>10, <1>11, <1>12, <1>13, <1>14,
     <1>15, <1>16
  DEF ReleaseSteps

LEMMA NextTyped == TypeOK /\ Counted /\ [Next]_vars => TypeOK' /\ Counted'
<1> SUFFICES ASSUME TypeOK, Counted, [Next]_vars PROVE TypeOK' /\ Counted'
  OBVIOUS
<1>1. CASE UNCHANGED vars
  BY <1>1 DEF TypeOK, Counted, vars, user, listening, marker, watch, locals, model, disk, results
<1>2. CASE Next
  BY <1>2, UserTyped, MainThreadTyped, ListenThreadTyped, WatcherTyped, ReleaseTyped DEF Next
<1>3. QED
  BY <1>1, <1>2

\* For every number of captures and turns, and every user: all state stays in its types.  The bounds of
\* session and releases are the ones that need Counted (daemon.py, capture_start).
THEOREM TypeCorrect == FairSpec => []TypeOK
<1>1. Spec => [](TypeOK /\ Counted)
  BY InitTyped, NextTyped, PTL DEF Spec
<1>2. QED
  BY <1>1, PTL DEF FairSpec

-----------------------------------------------------------------------------
(* Nobody takes a marker twice. *)

LEMMA InitMarker == Init => MarkerIsNewest /\ MarkerTakenOnce
  BY BoundsAssumption DEF Init, MarkerIsNewest, MarkerTakenOnce, None

\* Most steps touch neither the marker nor what the threads took.
LEMMA MarkerFrame ==
  ASSUME TypeOK, MarkerIsNewest, MarkerTakenOnce,
         UNCHANGED <<captures, start>>,
         main' = main \/ main' # "mark",
         \A t \in Threads : job'[t].start = job[t].start
  PROVE  MarkerIsNewest' /\ MarkerTakenOnce'
  BY DEF MarkerIsNewest, MarkerTakenOnce

LEMMA NextMarker ==
  TypeOK /\ MarkerIsNewest /\ MarkerTakenOnce /\ [Next]_vars => MarkerIsNewest' /\ MarkerTakenOnce'
<1> SUFFICES ASSUME TypeOK, MarkerIsNewest, MarkerTakenOnce, [Next]_vars
             PROVE  MarkerIsNewest' /\ MarkerTakenOnce'
  OBVIOUS
<1> USE BoundsAssumption
<1>1. /\ captures \in Nat /\ start \in Nat
      /\ \A t \in Threads : job[t] \in [seen : 0..MaxCaptures, start : 0..MaxCaptures, capture : 0..MaxCaptures]
      /\ \A t \in Threads : job[t].start \in Nat
  BY DEF TypeOK
<1> DEFINE Frame == /\ UNCHANGED <<captures, start>>
                    /\ main' = main \/ main' # "mark"
                    /\ \A t \in Threads : job'[t].start = job[t].start
<1>2. Frame => MarkerIsNewest' /\ MarkerTakenOnce'
  BY MarkerFrame
\* The key press makes every marker older than the capture it counts.
<1>3. CASE CaptureStart
  <2>1. captures' = captures + 1 /\ main' = "mark" /\ UNCHANGED <<start, job>>
    BY <1>3 DEF CaptureStart, marker, locals
  <2>2. QED
    BY <2>1, <1>1 DEF MarkerIsNewest, MarkerTakenOnce
\* The new marker is the newest capture, which nobody has taken.
<1>4. CASE MarkStart
  <2>1. main = "mark" /\ main' = "arm" /\ start' = captures /\ UNCHANGED <<captures, job>>
    BY <1>4 DEF MarkStart, locals
  <2>2. QED
    BY <2>1, <1>1 DEF MarkerIsNewest, MarkerTakenOnce
\* Whoever takes the marker is the only one that has it, and leaves None.
<1>5. ASSUME NEW t \in Threads, TakeMarker(t) PROVE MarkerIsNewest' /\ MarkerTakenOnce'
  <2>1. UNCHANGED <<captures, main>> /\ start' = None
    BY <1>5 DEF TakeMarker, user
  <2>2. job'[t].start = start /\ \A u \in Threads \ {t} : job'[u].start = job[u].start
    BY <1>5, <1>1 DEF TakeMarker, TypeOK
  <2>3. MarkerIsNewest'
    BY <2>1, <2>2, <1>1 DEF MarkerIsNewest, None
  <2>4. MarkerTakenOnce'
    BY <2>2 DEF MarkerIsNewest, MarkerTakenOnce
  <2>5. QED
    BY <2>3, <2>4
<1>6. CASE MainThread /\ ~MarkStart
  <2>1. Frame
    BY <1>6 DEF MainThread, ArmWatcher, StartWatcher, ListenStopped, marker, locals
  <2>2. QED
    BY <2>1, <1>2
<1>7. CASE ListenThread \/ CalendarAnalyzes
  <2>1. Frame
    BY <1>7 DEF ListenThread, PersistRing, OpenCapture, CloseCapture, LoopDies, CalendarAnalyzes, user, marker, locals
  <2>2. QED
    BY <2>1, <1>2
<1>8. CASE User /\ ~CaptureStart
  <2>1. Frame
    BY <1>8 DEF User, CaptureRelease, CallAnalyze, SwapModel, CallListenStop, user, marker, locals
  <2>2. QED
    BY <2>1, <1>2
<1>9. ASSUME NEW k \in Captures, WatcherLoop(k) \/ Age(k) PROVE MarkerIsNewest' /\ MarkerTakenOnce'
  <2>1. CASE WatcherTick(k) \/ WatcherStops(k)
    <3>1. PICK m : job' = [job EXCEPT ![Watcher(k)].seen = m]
      BY <2>1 DEF WatcherTick, WatcherStops
    <3>2. \A t \in Threads : job'[t].start = job[t].start
      BY <3>1, <1>1 DEF TypeOK
    <3>3. UNCHANGED <<captures, start, main>>
      BY <2>1 DEF WatcherTick, WatcherStops, user, marker
    <3>4. QED
      BY <3>2, <3>3, <1>2
  <2>2. CASE WatcherJudges(k) \/ WatcherWarns(k) \/ Age(k)
    <3>1. UNCHANGED <<captures, start, main, job>>
      BY <2>2 DEF WatcherJudges, WatcherWarns, Age, user, marker, locals
    <3>2. QED
      BY <3>1, <1>2
  <2>3. QED
    BY <1>9, <2>1, <2>2 DEF WatcherLoop
<1>10. ASSUME NEW t \in Threads, ReleaseSteps(t), ~TakeMarker(t)
       PROVE  MarkerIsNewest' /\ MarkerTakenOnce'
  <2>1. UNCHANGED <<user, start, job>>
    BY <1>10 DEF ReleaseSteps, StopWatcher, DerefWatcher, JoinWatcher, NoSegment, GetSegment,
                 MakeDirFails, OpenRing, WriteRing, ReplaceRing, WriteRingFails, SaveSize, SwapToTiny, Transcribe, Analyzed,
                 AnalyzeFails, RestoreSize, Publish, Announce, marker, locals
  <2>2. QED
    BY <2>1, <1>2 DEF user
<1>11. CASE UNCHANGED vars
  BY <1>11, <1>2 DEF vars, user, marker, locals
<1>12. QED
  BY <1>3, <1>4, <1>5, <1>6, <1>7, <1>8, <1>9, <1>10, <1>11 DEF Next

\* However many releases, watchers and key presses race, and whether or not the user waits for the
\* answers: no capture's marker is ever handed to two threads (daemon.py, _do_capture_release_sync).
THEOREM NoCaptureTwice == FairSpec => []MarkerTakenOnce
<1>1. Init => IInv
  BY InitTyped, InitMarker DEF IInv
<1>2. IInv /\ [Next]_vars => IInv'
  BY NextTyped, NextMarker DEF IInv
<1>3. IInv => MarkerTakenOnce
  BY DEF IInv
<1>4. QED
  BY <1>1, <1>2, <1>3, PTL DEF Spec, FairSpec
=============================================================================
