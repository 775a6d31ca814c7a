------------------------- MODULE SessionStore_proofs -------------------------
(***************************************************************************)
(* Proofs about SessionStore, for any number of clients, sessions, days    *)
(* and crashes, and any retention.                                         *)
(***************************************************************************)
EXTENDS SessionStore, TLAPS

\* Where a client holds the lock.
Transaction ==
  {"insert_segments", "insert_analysis", "insert_items", "delete_segments", "delete_analyses",
   "delete_sessions", "commit"}

\* Where it has not got past the migrations.
Before == {"idle", "open", "ddl", "bump"}

LockOK == \A c \in Clients : lock = c <=> pc[c] \in Transaction

\* The schema has every migration up to its version.  A client knows a version that the database has
\* reached, has run the script whose version it is about to write, and works on the latest.
SchemaOK ==
  /\ \A n \in 1..version : n \in applied
  /\ \A c \in Clients :
       /\ at[c] <= version
       /\ pc[c] \in {"ddl", "bump"} => at[c] < Target
       /\ pc[c] = "bump" => at[c] + 1 \in applied
       /\ pc[c] \notin Before => version = Target

\* Where a client has logged a session not yet committed, where it works on one it has found in the
\* log, and where it deletes.
LoggingNow == {"insert_segments", "insert_analysis", "insert_items"}
ReadingNow == {"read_segments", "read_analysis", "load", "truncate", "write", "update"}
PurgingNow == {"delete_segments", "delete_analyses", "delete_sessions"}

\* A session being logged has the next id, one being read or updated an id given before.
SubjectOf(c) ==
  /\ pc[c] \in LoggingNow => mine[c] = db.seq + 1 /\ mine[c] \in Ids
  /\ pc[c] \in ReadingNow \/ op[c] = "save_status" => mine[c] \in 1..db.seq
  /\ op[c] = "save_status" => pc[c] \in {"open", "ddl", "bump", "update", "commit"}
  /\ pc[c] = "update" => op[c] = "save_status"

\* What an open transaction makes of the sessions: log_session adds the next one, purge_before takes
\* some of its victims away in its last statement, an update leaves them alone.
Adds == work.seq = db.seq + 1 /\ work.sessions = db.sessions \cup {db.seq + 1}
Removes(c) ==
  work.seq = db.seq /\ work.sessions \subseteq db.sessions /\ db.sessions \ work.sessions \subseteq victims[c]

WorkOf(c) ==
  /\ pc[c] \in LoggingNow => Adds
  /\ pc[c] \in PurgingNow => work.seq = db.seq /\ work.sessions = db.sessions
  /\ pc[c] = "commit" => Adds \/ Removes(c)

\* How far an open transaction has come with the session it adds or with its victims; every other
\* session is whole.
StageOf(c) ==
  /\ pc[c] \in LoggingNow =>
       /\ \A s \in Ids \ {mine[c]} : WholeAt(work, s)
       /\ work.status[mine[c]] = "none"
       /\ mine[c] \in work.segments <=> pc[c] # "insert_segments"
       /\ work.analyses[mine[c]] # "none" <=> pc[c] = "insert_items"
  /\ pc[c] \in PurgingNow =>
       /\ \A s \in Ids \ victims[c] : WholeAt(work, s)
       /\ \A s \in victims[c] :
            /\ work.status[s] = "none"
            /\ pc[c] # "delete_segments" => s \notin work.segments
            /\ pc[c] = "delete_sessions" => work.analyses[s] = "none"
  /\ pc[c] = "commit" => \A s \in Ids : WholeAt(work, s)

\* What a client did not find is gone for good: ids are not given twice.
ReadOf(c) ==
  /\ pc[c] = "read_analysis" /\ ~detail[c].segments => mine[c] \notin db.sessions
  /\ pc[c] = "load" /\ (~detail[c].segments \/ detail[c].analysis = "none") => mine[c] \notin db.sessions

\* Statuses are kept only of sessions logged before.
LoadedOf(c) ==
  /\ pc[c] \in {"truncate", "write"} \/ op[c] = "save_status" => loaded[c][mine[c]] = "done"
  /\ \A s \in Ids : s > db.seq => loaded[c][s] = "none"
FileOK == \A s \in Ids : s > db.seq => file[s] = "none"

\* The victims of a purge were old when it chose them, and have not become younger.
VictimsOf(c) ==
  /\ now[c] <= clock
  /\ \A s \in victims[c] : s \in 1..db.seq /\ OldEnough(clock - began[s])

ClientOK(c) ==
  SubjectOf(c) /\ WorkOf(c) /\ StageOf(c) /\ ReadOf(c) /\ LoadedOf(c) /\ VictimsOf(c)

\* Ids are given in order, and an inherited session has one.
IdsOK == db.sessions \subseteq 1..db.seq /\ legacy \subseteq 1..db.seq

RowsOK == IdsOK /\ FileOK /\ WholeSessions /\ \A c \in Clients : ClientOK(c)

-----------------------------------------------------------------------------
(* Typing. *)

LEMMA InitTyped == Init => TypeOK /\ LockOK /\ SchemaOK
<1> SUFFICES ASSUME Init PROVE TypeOK /\ LockOK /\ SchemaOK
  OBVIOUS
<1> USE BoundsAssumption, ClientsAssumption DEF Ids, Statuses
<1>1. Nothing \in Rows /\ Inherited \in Rows
  <2>1. [s \in Ids |-> "none"] \in [Ids -> {"none", "plain", "items"}]
    OBVIOUS
  <2>2. [s \in Ids |-> "none"] \in [Ids -> Statuses]
    OBVIOUS
  <2>3. [s \in Ids |-> IF s = 1 THEN "items" ELSE "none"] \in [Ids -> {"none", "plain", "items"}]
    OBVIOUS
  <2>4. Nothing \in Rows
    BY <2>1, <2>2 DEF Nothing, Rows
  <2>5. 1 \in Ids /\ 1 \in 0..MaxSessions
    OBVIOUS
  <2>6. Inherited \in Rows
    BY <2>2, <2>3, <2>5 DEF Inherited, Rows
  <2>7. QED
    BY <2>4, <2>6
<1>2. version \in 0..Target /\ applied \subseteq Migrations /\ legacy \subseteq Ids
  BY DEF Init, Target, Migrations
<1>3. NoStatus \in [Ids -> Statuses] /\ Unread \in [segments : BOOLEAN, analysis : {"none", "plain", "items"}]
  BY DEF NoStatus, Unread
<1>4. /\ pc \in [Clients -> Locations] /\ op \in [Clients -> Operations]
      /\ at \in [Clients -> 0..Target] /\ now \in [Clients -> 0..MaxClock]
      /\ mine \in [Clients -> 0..MaxSessions] /\ victims \in [Clients -> SUBSET Ids]
  BY DEF Init, Locations, Operations, Target
<1>5. TypeOK
  <2>1. db \in Rows /\ work \in Rows
    BY <1>1 DEF Init
  <2>2. began \in [Ids -> 0..MaxClock] /\ clock \in 0..MaxClock /\ crashes \in 0..MaxCrashes
    BY DEF Init
  <2>3. detail \in [Clients -> [segments : BOOLEAN, analysis : {"none", "plain", "items"}]]
    BY <1>3 DEF Init
  <2>4. /\ loaded \in [Clients -> [Ids -> Statuses]] /\ file \in [Ids -> Statuses]
        /\ lock \in Clients \cup {Free} /\ torn \in BOOLEAN
    BY <1>3 DEF Init
  <2>5. QED
    BY <1>2, <1>4, <2>1, <2>2, <2>3, <2>4 DEF TypeOK
<1>6. LockOK
  BY DEF Init, LockOK, Transaction
<1>7. SchemaOK
  BY DEF Init, SchemaOK, Before, Target
<1>8. QED
  BY <1>5, <1>6, <1>7

LEMMA ForgetTyped ==
  ASSUME TypeOK, NEW c \in Clients, Forget(c)
  PROVE  /\ pc' \in [Clients -> Locations] /\ op' \in [Clients -> Operations]
         /\ at' \in [Clients -> 0..Target] /\ now' \in [Clients -> 0..MaxClock]
         /\ mine' \in [Clients -> 0..MaxSessions] /\ victims' \in [Clients -> SUBSET Ids]
         /\ detail' \in [Clients -> [segments : BOOLEAN, analysis : {"none", "plain", "items"}]]
         /\ loaded' \in [Clients -> [Ids -> Statuses]]
<1> USE BoundsAssumption DEF TypeOK, Forget, Goto
<1>1. pc' \in [Clients -> Locations] /\ op' \in [Clients -> Operations]
  BY DEF Locations, Operations
<1>2. at' \in [Clients -> 0..Target] /\ now' \in [Clients -> 0..MaxClock] /\ mine' \in [Clients -> 0..MaxSessions]
  BY DEF Target
<1>3. victims' \in [Clients -> SUBSET Ids]
  OBVIOUS
<1>4. detail' \in [Clients -> [segments : BOOLEAN, analysis : {"none", "plain", "items"}]]
  BY DEF Unread
<1>5. loaded' \in [Clients -> [Ids -> Statuses]]
  BY DEF NoStatus, Statuses
<1>6. QED
  BY <1>1, <1>2, <1>3, <1>4, <1>5

LEMMA FirstStepTyped == \A o : FirstStep(o) \in Locations \ (Transaction \cup Before)
  BY DEF FirstStep, Locations, Transaction, Before

LEMMA DetailTyped ==
  ASSUME NEW d \in [segments : BOOLEAN, analysis : {"none", "plain", "items"}], NEW b \in BOOLEAN
  PROVE  [d EXCEPT !.segments = b] \in [segments : BOOLEAN, analysis : {"none", "plain", "items"}]
  OBVIOUS

LEMMA StepTyped == TypeOK /\ SchemaOK /\ RowsOK /\ [Next]_vars => TypeOK'
<1> SUFFICES ASSUME TypeOK, SchemaOK, RowsOK, [Next]_vars PROVE TypeOK'
  OBVIOUS
<1> USE BoundsAssumption DEF TypeOK, store, schema, statusfile, locals, Goto
<1>1. ASSUME NEW c \in Clients, Open(c) \/ MigrateTables(c) \/ BumpVersion(c) PROVE TypeOK'
  <2>1. CASE Open(c)
    BY <2>1, FirstStepTyped DEF Open, Locations
  <2>2. CASE MigrateTables(c)
    <3>1. at[c] + 1 \in Migrations
      <4>1. at[c] \in 0..Target /\ at[c] < Target
        BY <2>2 DEF MigrateTables, SchemaOK
      <4>2. QED
        BY <4>1 DEF Target, Migrations
    <3>2. applied' \subseteq Migrations /\ UNCHANGED version
      BY <2>2, <3>1 DEF MigrateTables
    <3>3. QED
      BY <2>2, <3>2 DEF MigrateTables, Locations
  <2>3. CASE BumpVersion(c)
    <3>1. at[c] + 1 \in 0..Target
      <4>1. at[c] \in 0..Target /\ at[c] < Target
        BY <2>3 DEF BumpVersion, SchemaOK
      <4>2. QED
        BY <4>1 DEF Target
    <3>2. version' \in 0..Target /\ at' \in [Clients -> 0..Target]
      BY <2>3, <3>1 DEF BumpVersion
    <3>3. QED
      BY <2>3, <3>2, FirstStepTyped DEF BumpVersion, Locations
  <2>4. QED
    BY <1>1, <2>1, <2>2, <2>3
<1>2. ASSUME NEW c \in Clients, MigrationFails(c) \/ NothingExpired(c) \/ NoSession(c)
                                \/ NothingToUpdate(c) \/ BusyFails(c)
      PROVE  TypeOK'
  BY <1>2, ForgetTyped DEF MigrationFails, NothingExpired, NoSession, NothingToUpdate, BusyFails
<1>3. ASSUME NEW c \in Clients, Logging(c) PROVE TypeOK'
  <2>1. CASE InsertSession(c)
    <3>1. NextId(db) \in Ids /\ NextId(db) \in 0..MaxSessions
      BY <2>1 DEF InsertSession, NextId, Rows, Ids
    <3>2. [db EXCEPT !.seq = @ + 1, !.sessions = @ \cup {NextId(db)}] \in Rows
      BY <3>1, <2>1 DEF InsertSession, NextId, Rows
    <3>3. QED
      BY <2>1, <3>1, <3>2 DEF InsertSession, Begins, Locations
  <2>2. CASE InsertSegments(c)
    <3>1. mine[c] \in Ids
      BY <2>2 DEF InsertSegments, RowsOK, ClientOK, SubjectOf, LoggingNow
    <3>2. [work EXCEPT !.segments = @ \cup {mine[c]}] \in Rows
      BY <3>1 DEF Rows
    <3>3. QED
      BY <2>2, <3>2 DEF InsertSegments, Writes, Locations
  <2>3. CASE InsertAnalysis(c)
    <3>1. PICK found \in {"plain", "items"} : Writes(c, [work EXCEPT !.analyses[mine[c]] = found])
      BY <2>3 DEF InsertAnalysis
    <3>2. [work EXCEPT !.analyses[mine[c]] = found] \in Rows
      BY DEF Rows
    <3>3. QED
      BY <2>3, <3>1, <3>2 DEF InsertAnalysis, Writes, Locations
  <2>4. CASE InsertItems(c)
    BY <2>4 DEF InsertItems, Writes, Locations, Rows, Statuses
  <2>5. CASE Commit(c)
    <3>1. Nothing \in Rows
      BY DEF Nothing, Rows, Statuses
    <3>2. QED
      BY <2>5, <3>1, ForgetTyped DEF Commit
  <2>6. QED
    BY <1>3, <2>1, <2>2, <2>3, <2>4, <2>5 DEF Logging
<1>4. ASSUME NEW c \in Clients, Purging(c) PROVE TypeOK'
  <2>1. CASE SelectExpired(c)
    <3>1. Expired(c) \subseteq Ids
      BY DEF Expired, Rows
    <3>2. QED
      BY <2>1, <3>1 DEF SelectExpired, Locations
  <2>2. CASE DeleteItems(c)
    <3>1. [db EXCEPT !.status = [s \in Ids |-> IF s \in victims[c] THEN "none" ELSE @[s]]] \in Rows
      BY DEF Rows, Statuses
    <3>2. QED
      BY <2>2, <3>1 DEF DeleteItems, Begins, Locations
  <2>3. CASE DeleteSegments(c)
    BY <2>3 DEF DeleteSegments, Writes, Locations, Rows
  <2>4. CASE DeleteAnalyses(c)
    <3>1. [work EXCEPT !.analyses = [s \in Ids |-> IF s \in victims[c] THEN "none" ELSE @[s]]] \in Rows
      BY DEF Rows
    <3>2. QED
      BY <2>4, <3>1 DEF DeleteAnalyses, Writes, Locations
  <2>5. CASE DeleteSessions(c)
    BY <2>5 DEF DeleteSessions, Writes, Locations, Rows
  <2>6. QED
    BY <1>2, <1>4, <2>1, <2>2, <2>3, <2>4, <2>5 DEF Purging
<1>5. ASSUME NEW c \in Clients, Updating(c) PROVE TypeOK'
  <2>1. CASE FindSession(c)
    <3>1. PICK s \in db.sessions : mine' = [mine EXCEPT ![c] = s]
      BY <2>1 DEF FindSession
    <3>2. s \in 0..MaxSessions
      BY DEF Rows, Ids
    <3>3. QED
      BY <2>1, <3>1, <3>2 DEF FindSession, Locations
  <2>2. CASE ReadSegments(c)
    <3>1. detail' \in [Clients -> [segments : BOOLEAN, analysis : {"none", "plain", "items"}]]
      <4>1. [detail[c] EXCEPT !.segments = mine[c] \in db.segments]
              \in [segments : BOOLEAN, analysis : {"none", "plain", "items"}]
        <5>1. /\ detail[c] \in [segments : BOOLEAN, analysis : {"none", "plain", "items"}]
              /\ (mine[c] \in db.segments) \in BOOLEAN
          OBVIOUS
        <5>2. QED
          BY <5>1, DetailTyped, Zenon
      <4>2. detail' = [detail EXCEPT ![c] = [detail[c] EXCEPT !.segments = mine[c] \in db.segments]]
        BY <2>2 DEF ReadSegments
      <4>3. QED
        BY <4>1, <4>2
    <3>2. QED
      BY <2>2, <3>1 DEF ReadSegments, Locations
  <2>3. CASE ReadAnalysis(c)
    <3>1. mine[c] \in Ids
      BY <2>3 DEF ReadAnalysis, RowsOK, ClientOK, SubjectOf, ReadingNow, Rows, Ids
    <3>2. db.analyses[mine[c]] \in {"none", "plain", "items"}
      BY <3>1 DEF Rows
    <3>3. detail' \in [Clients -> [segments : BOOLEAN, analysis : {"none", "plain", "items"}]]
      BY <2>3, <3>2 DEF ReadAnalysis
    <3>4. QED
      BY <2>3, <3>3 DEF ReadAnalysis, Locations
  <2>4. CASE LoadStatusFile(c)
    <3>1. NoStatus \in [Ids -> Statuses]
      BY DEF NoStatus, Statuses
    <3>2. [(IF torn THEN NoStatus ELSE file) EXCEPT ![mine[c]] = "done"] \in [Ids -> Statuses]
      BY <3>1 DEF Statuses
    <3>3. Unread \in [segments : BOOLEAN, analysis : {"none", "plain", "items"}]
      BY DEF Unread
    <3>4. QED
      BY <2>4, <3>2, <3>3 DEF LoadStatusFile, Locations
  <2>5. CASE TruncateStatusFile(c)
    BY <2>5 DEF TruncateStatusFile, Locations
  <2>6. CASE WriteStatusFile(c)
    BY <2>6, ForgetTyped DEF WriteStatusFile, Locations, Operations
  <2>7. CASE UpdateStatus(c)
    <3>1. mine[c] \in Ids
      BY <2>7 DEF UpdateStatus, RowsOK, ClientOK, SubjectOf, ReadingNow, Rows, Ids
    <3>2. [db EXCEPT !.status[mine[c]] = loaded[c][mine[c]]] \in Rows
      <4>1. loaded[c][mine[c]] \in Statuses
        BY <3>1
      <4>2. [db.status EXCEPT ![mine[c]] = loaded[c][mine[c]]] \in [Ids -> Statuses]
        BY <4>1 DEF Rows
      <4>3. QED
        BY <4>2 DEF Rows
    <3>3. Updated(c) \in Rows
      BY <3>2 DEF Updated
    <3>4. QED
      BY <2>7, <3>3 DEF UpdateStatus, Begins, Locations
  <2>8. QED
    BY <1>2, <1>5, <2>1, <2>2, <2>3, <2>4, <2>5, <2>6, <2>7 DEF Updating
<1>6. ASSUME NEW c \in Clients, Crash(c) PROVE TypeOK'
  <2>1. Nothing \in Rows
    BY DEF Nothing, Rows, Statuses
  <2>2. QED
    BY <1>6, <2>1, ForgetTyped DEF Crash
<1>7. ASSUME NEW c \in Clients, NEW o \in Operations, Begin(c, o) PROVE TypeOK'
  BY <1>7 DEF Begin, Locations
<1>8. CASE Tick
  BY <1>8 DEF Tick
<1>9. CASE UNCHANGED vars
  BY <1>9 DEF vars
<1>10. QED
  BY <1>1, <1>2, <1>3, <1>4, <1>5, <1>6, <1>7, <1>8, <1>9 DEF Next, Client, Opening, Operations

-----------------------------------------------------------------------------
(* The lock and the schema. *)

LEMMA StepLock == TypeOK /\ LockOK /\ [Next]_vars => LockOK'
<1> SUFFICES ASSUME TypeOK, LockOK, [Next]_vars PROVE LockOK'
  OBVIOUS
<1>0. pc \in [Clients -> Locations] /\ Free \notin Clients
  BY ClientsAssumption DEF TypeOK
<1> USE <1>0 DEF LockOK, Transaction, store, Goto
<1>1. ASSUME NEW c \in Clients, Opening(c) PROVE LockOK'
  <2>1. FirstStep(op[c]) \notin Transaction
    BY FirstStepTyped
  <2>2. QED
    BY <1>1, <2>1 DEF Opening, Open, MigrateTables, MigrationFails, BumpVersion, Forget
<1>2. ASSUME NEW c \in Clients, Logging(c) PROVE LockOK'
  <2>1. CASE InsertSession(c)
    BY <2>1 DEF InsertSession, Begins
  <2>2. CASE InsertSegments(c)
    BY <2>2 DEF InsertSegments, Writes
  <2>3. CASE InsertAnalysis(c)
    BY <2>3 DEF InsertAnalysis, Writes
  <2>4. CASE InsertItems(c)
    BY <2>4 DEF InsertItems, Writes
  <2>5. CASE Commit(c)
    BY <2>5 DEF Commit, Forget
  <2>6. QED
    BY <1>2, <2>1, <2>2, <2>3, <2>4, <2>5 DEF Logging
<1>3. ASSUME NEW c \in Clients, Purging(c) PROVE LockOK'
  <2>1. CASE SelectExpired(c) \/ NothingExpired(c)
    BY <2>1 DEF SelectExpired, NothingExpired, Forget
  <2>2. CASE DeleteItems(c)
    BY <2>2 DEF DeleteItems, Begins
  <2>3. CASE DeleteSegments(c) \/ DeleteAnalyses(c) \/ DeleteSessions(c)
    BY <2>3 DEF DeleteSegments, DeleteAnalyses, DeleteSessions, Writes
  <2>4. QED
    BY <1>3, <2>1, <2>2, <2>3 DEF Purging
<1>4. ASSUME NEW c \in Clients, Updating(c) PROVE LockOK'
  <2>1. CASE UpdateStatus(c)
    BY <2>1 DEF UpdateStatus, Begins
  <2>2. CASE WriteStatusFile(c)
    BY <2>2 DEF WriteStatusFile, Forget
  <2>3. CASE FindSession(c) \/ NoSession(c) \/ ReadSegments(c) \/ ReadAnalysis(c)
             \/ NothingToUpdate(c) \/ LoadStatusFile(c) \/ TruncateStatusFile(c)
    BY <2>3 DEF FindSession, NoSession, ReadSegments, ReadAnalysis, NothingToUpdate,
                LoadStatusFile, TruncateStatusFile, Forget
  <2>4. QED
    BY <1>4, <2>1, <2>2, <2>3 DEF Updating
<1>5. ASSUME NEW c \in Clients, BusyFails(c) \/ Crash(c) PROVE LockOK'
  BY <1>5 DEF BusyFails, Crash, Forget
<1>6. ASSUME NEW c \in Clients, NEW o, Begin(c, o) PROVE LockOK'
  BY <1>6 DEF Begin
<1>7. CASE Tick \/ UNCHANGED vars
  BY <1>7 DEF Tick, vars
<1>8. QED
  BY <1>1, <1>2, <1>3, <1>4, <1>5, <1>6, <1>7 DEF Next, Client

\* Only Opening changes the schema; what else moves a client moves it within the operations.
LEMMA StepSchema == TypeOK /\ SchemaOK /\ [Next]_vars => SchemaOK' /\ version' >= version
<1> SUFFICES ASSUME TypeOK, SchemaOK, [Next]_vars PROVE SchemaOK' /\ version' >= version
  OBVIOUS
<1>0. /\ pc \in [Clients -> Locations] /\ at \in [Clients -> 0..Target] /\ version \in 0..Target
      /\ Target \in Nat
  BY DEF TypeOK, Target
<1> USE <1>0 DEF SchemaOK, Before, schema, locals, Goto
<1>1. ASSUME NEW c \in Clients, Opening(c) PROVE SchemaOK' /\ version' >= version
  <2>1. FirstStep(op[c]) \notin Before
    BY FirstStepTyped
  <2>2. CASE Open(c)
    BY <2>1, <2>2 DEF Open
  <2>3. CASE MigrateTables(c)
    BY <2>3 DEF MigrateTables
  <2>4. CASE MigrationFails(c)
    BY <2>4 DEF MigrationFails, Forget
  <2>5. CASE BumpVersion(c)
    <3>1. at[c] < Target /\ at[c] <= version /\ at[c] + 1 \in applied
      BY <2>5 DEF BumpVersion
    <3>2. version' >= version /\ version' >= at[c] + 1 /\ version' \in 0..Target
      BY <2>5, <3>1 DEF BumpVersion
    <3>3. \A n \in 1..version' : n \in applied'
      BY <2>5, <3>1 DEF BumpVersion
    <3>4. ASSUME NEW d \in Clients
          PROVE  /\ at'[d] <= version'
                 /\ pc'[d] \in {"ddl", "bump"} => at'[d] < Target
                 /\ pc'[d] = "bump" => at'[d] + 1 \in applied'
                 /\ pc'[d] \notin Before => version' = Target
      <4>1. CASE d = c
        BY <4>1, <2>1, <2>5, <3>1, <3>2 DEF BumpVersion
      <4>2. CASE d # c
        BY <4>2, <2>5, <3>2 DEF BumpVersion
      <4>3. QED
        BY <4>1, <4>2
    <3>5. QED
      BY <3>2, <3>3, <3>4
  <2>6. QED
    BY <1>1, <2>2, <2>3, <2>4, <2>5 DEF Opening
<1>2. ASSUME NEW c \in Clients, Logging(c) PROVE SchemaOK' /\ version' >= version
  BY <1>2 DEF Logging, InsertSession, InsertSegments, InsertAnalysis, InsertItems, Commit, Forget
<1>3. ASSUME NEW c \in Clients, Purging(c) PROVE SchemaOK' /\ version' >= version
  BY <1>3 DEF Purging, SelectExpired, NothingExpired, DeleteItems, DeleteSegments, DeleteAnalyses,
              DeleteSessions, Forget
<1>4. ASSUME NEW c \in Clients, Updating(c) PROVE SchemaOK' /\ version' >= version
  BY <1>4 DEF Updating, FindSession, NoSession, ReadSegments, ReadAnalysis, NothingToUpdate,
              LoadStatusFile, TruncateStatusFile, WriteStatusFile, UpdateStatus, Forget
<1>5. ASSUME NEW c \in Clients, BusyFails(c) \/ Crash(c) PROVE SchemaOK' /\ version' >= version
  BY <1>5 DEF BusyFails, Crash, Forget
<1>6. ASSUME NEW c \in Clients, NEW o, Begin(c, o) PROVE SchemaOK' /\ version' >= version
  BY <1>6 DEF Begin
<1>7. CASE Tick \/ UNCHANGED vars
  BY <1>7 DEF Tick, vars
<1>8. QED
  BY <1>1, <1>2, <1>3, <1>4, <1>5, <1>6, <1>7 DEF Next, Client

-----------------------------------------------------------------------------
(* The rows. *)

\* What has expired by the calendar is old enough by the clock.
LEMMA DatesOfTimes ==
  ASSUME NEW t \in Int, NEW n \in Int, UtcDate(t) < LocalDate(n) - Keep
  PROVE  OldEnough(n - t)
<1> DEFINE L == DayLength  p == t \div L  q == (n + Offset) \div L
<1>1. L \in Nat \ {0} /\ Keep \in Nat /\ Offset \in Int
  BY BoundsAssumption
<1>2. p \in Int /\ q \in Int /\ p + 1 + Keep <= q
  BY <1>1 DEF UtcDate, LocalDate
<1>3. t < (p + 1) * L /\ q * L <= n + Offset
  BY <1>1
<1>4. (p + 1 + Keep) * L <= q * L
  <2> HIDE DEF L, p, q
  <2>1. QED
    BY <1>1, <1>2
<1>5. (p + 1 + Keep) * L = (p + 1) * L + Keep * L
  <2> HIDE DEF L, p, q
  <2>1. QED
    BY <1>1, <1>2
<1>6. (p + 1) * L \in Int /\ q * L \in Int /\ Keep * L \in Int
  <2> HIDE DEF L, p, q
  <2>1. QED
    BY <1>1, <1>2
<1>7. n - t > Keep * L - Offset
  <2> DEFINE a == (p + 1) * L  b == q * L  k == Keep * L
  <2>1. a \in Int /\ b \in Int /\ k \in Int /\ t < a /\ b <= n + Offset /\ a + k <= b
    BY <1>3, <1>4, <1>5, <1>6
  <2> HIDE DEF L, p, q, a, b, k
  <2>2. n - t > k - Offset
    BY <1>1, <2>1
  <2>3. QED
    BY <2>2 DEF k
<1>8. QED
  BY <1>7 DEF OldEnough

\* What is old enough stays so.
LEMMA StaysOld ==
  ASSUME NEW a \in Int, NEW b \in Int, a <= b, OldEnough(a)
  PROVE  OldEnough(b)
<1> DEFINE bound == Keep * DayLength - Offset
<1>1. bound \in Int
  BY BoundsAssumption
<1>2. a > bound
  BY DEF OldEnough
<1> HIDE DEF bound
<1>3. b > bound
  BY <1>1, <1>2
<1>4. QED
  BY <1>3 DEF bound, OldEnough

LEMMA InitRows == Init => RowsOK
<1> SUFFICES ASSUME Init PROVE RowsOK
  OBVIOUS
<1>1. IdsOK /\ FileOK
  BY DEF Init, IdsOK, FileOK, Nothing, Inherited, NoStatus
<1>2. ASSUME NEW s \in Ids PROVE WholeAt(db, s)
  <2>1. CASE db = Nothing /\ legacy = {}
    BY <2>1 DEF WholeAt, Nothing
  <2>2. CASE db = Inherited /\ legacy = {1}
    BY <2>2 DEF WholeAt, Inherited
  <2>3. QED
    BY <2>1, <2>2 DEF Init
<1>3. ASSUME NEW c \in Clients PROVE ClientOK(c)
  <2>1. SubjectOf(c) /\ WorkOf(c) /\ StageOf(c) /\ ReadOf(c) /\ LoadedOf(c)
    BY DEF Init, SubjectOf, WorkOf, StageOf, ReadOf, LoadedOf, LoggingNow, ReadingNow, PurgingNow, NoStatus
  <2>2. VictimsOf(c)
    BY BoundsAssumption DEF Init, VictimsOf
  <2>3. QED
    BY <2>1, <2>2 DEF ClientOK
<1>4. QED
  BY <1>1, <1>2, <1>3 DEF RowsOK, WholeSessions

\* A client d that c does not touch stays as it is, whatever c does to the open transaction.
Untouched(d) ==
  UNCHANGED <<pc[d], op[d], mine[d], victims[d], detail[d], loaded[d], now[d]>>

LEMMA OthersOK ==
  ASSUME TypeOK, LockOK, NEW c \in Clients, NEW d \in Clients, d # c, ClientOK(d), Untouched(d),
         UNCHANGED <<db, legacy>>, work' = work \/ lock \in {c, Free},
         clock' \in Nat, clock' >= clock, \A s \in 1..db.seq : began'[s] = began[s]
  PROVE  ClientOK(d)'
<1>1. SubjectOf(d)' /\ ReadOf(d)' /\ LoadedOf(d)'
  BY DEF ClientOK, SubjectOf, ReadOf, LoadedOf, Untouched
<1>2. WorkOf(d)' /\ StageOf(d)'
  <2>1. CASE work' = work
    BY <2>1 DEF ClientOK, WorkOf, StageOf, Adds, Removes, WholeAt, Untouched
  <2>2. CASE lock \in {c, Free}
    <3>1. pc'[d] \notin Transaction
      BY <2>2, ClientsAssumption DEF LockOK, Untouched
    <3>2. QED
      BY <3>1 DEF WorkOf, StageOf, Transaction, LoggingNow, PurgingNow
  <2>3. QED
    BY <2>1, <2>2
<1>3. VictimsOf(d)'
  <2>1. now[d] \in Nat /\ clock \in Nat /\ now[d] <= clock /\ Keep \in Nat
    BY BoundsAssumption DEF TypeOK, ClientOK, VictimsOf
  <2>2. now'[d] = now[d] /\ victims'[d] = victims[d] /\ db' = db
    BY DEF Untouched
  <2>3. ASSUME NEW s \in victims[d] PROVE s \in 1..db.seq /\ OldEnough(clock' - began'[s])
    <3>1. s \in 1..db.seq /\ OldEnough(clock - began[s])
      BY <2>3 DEF ClientOK, VictimsOf
    <3>2. began[s] \in Nat
      BY <3>1, <2>3 DEF TypeOK
    <3>3. /\ clock - began[s] \in Int /\ clock' - began'[s] \in Int
          /\ clock - began[s] <= clock' - began'[s]
      BY <2>1, <3>1, <3>2
    <3>4. QED
      BY <3>1, <3>3, StaysOld
  <2>4. QED
    BY <2>1, <2>2, <2>3 DEF VictimsOf
<1>4. QED
  BY <1>1, <1>2, <1>3 DEF ClientOK

\* So a step of c that commits nothing need only be seen to leave c itself in order.
LEMMA OwnStep ==
  ASSUME TypeOK, LockOK, RowsOK, NEW c \in Clients, \A d \in Clients \ {c} : Untouched(d),
         UNCHANGED <<db, legacy, clock>>, work' = work \/ lock \in {c, Free},
         \A s \in 1..db.seq : began'[s] = began[s], FileOK', ClientOK(c)'
  PROVE  RowsOK'
<1>1. IdsOK'
  BY DEF RowsOK, IdsOK
<1>2. WholeSessions'
  BY DEF RowsOK, WholeSessions, WholeAt
<1>3. ASSUME NEW d \in Clients PROVE ClientOK(d)'
  <2>1. CASE d = c
    BY <2>1
  <2>2. CASE d # c
    <3>1. clock' \in Nat /\ clock' >= clock
      BY BoundsAssumption DEF TypeOK
    <3>2. QED
      BY <2>2, <3>1, OthersOK DEF RowsOK
  <2>3. QED
    BY <2>1, <2>2
<1>4. QED
  BY <1>1, <1>2, <1>3 DEF RowsOK

\* An operation that ends, however it ends, leaves nothing behind.
LEMMA ForgetOK ==
  ASSUME TypeOK, NEW c \in Clients, Forget(c), UNCHANGED clock
  PROVE  /\ ClientOK(c)'
         /\ \A d \in Clients \ {c} : Untouched(d)
<1>1. /\ pc'[c] = "idle" /\ op'[c] = "log" /\ victims'[c] = {} /\ now'[c] = 0 /\ clock \in Nat
      /\ loaded'[c] = NoStatus
  BY BoundsAssumption DEF TypeOK, Forget, Goto
<1>2. ClientOK(c)'
  BY <1>1 DEF ClientOK, SubjectOf, WorkOf, StageOf, ReadOf, LoadedOf, VictimsOf, LoggingNow,
              ReadingNow, PurgingNow, NoStatus
<1>3. \A d \in Clients \ {c} : Untouched(d)
  BY DEF Untouched, TypeOK, Forget, Goto
<1>4. QED
  BY <1>2, <1>3

LEMMA EndsOK ==
  ASSUME TypeOK, LockOK, RowsOK, NEW c \in Clients,
         MigrationFails(c) \/ NothingExpired(c) \/ NoSession(c) \/ NothingToUpdate(c)
           \/ BusyFails(c) \/ Crash(c)
  PROVE  RowsOK'
<1> USE DEF MigrationFails, NothingExpired, NoSession, NothingToUpdate, BusyFails, Crash
<1>1. Forget(c) /\ UNCHANGED <<clock, db, legacy, began, file>>
  BY DEF store, statusfile
<1>2. work' = work \/ lock \in {c, Free}
  BY DEF store
<1>3. FileOK'
  BY <1>1 DEF RowsOK, FileOK
<1>4. QED
  BY <1>1, <1>2, <1>3, ForgetOK, OwnStep

\* Opening and the beginning of an operation.
LEMMA OpeningOK ==
  ASSUME TypeOK, LockOK, RowsOK, NEW c \in Clients,
         Open(c) \/ MigrateTables(c) \/ BumpVersion(c) \/ (\E o \in Operations \ {"save_status"} : Begin(c, o))
  PROVE  RowsOK'
<1> USE DEF Open, MigrateTables, BumpVersion, Begin, Goto, TypeOK, store, statusfile, locals
<1>1. UNCHANGED <<clock, db, work, legacy, began, file>>
  OBVIOUS
<1>2. FileOK'
  BY <1>1 DEF RowsOK, FileOK
<1>3. \A d \in Clients \ {c} : Untouched(d)
  BY DEF Untouched
<1>4. ClientOK(c)'
  <2>0. ClientOK(c)
    BY DEF RowsOK
  <2>1. \A o : /\ FirstStep(o) = "update" <=> o = "save_status"
               /\ FirstStep(o) \in {"insert_session", "select", "update", "exists"}
    BY DEF FirstStep
  <2>2. /\ pc[c] \in {"idle", "open", "ddl", "bump"}
        /\ pc'[c] \in {"open", "ddl", "bump", "insert_session", "select", "update", "exists"}
        /\ pc'[c] = "update" => op[c] = "save_status"
        /\ op[c] = "save_status" => pc'[c] \in {"open", "ddl", "bump", "update"}
        /\ UNCHANGED <<mine[c], victims[c], detail[c], loaded[c]>>
        /\ op'[c] = "save_status" <=> op[c] = "save_status"
    BY <2>0, <2>1 DEF ClientOK, SubjectOf
  <2>3. SubjectOf(c)' /\ WorkOf(c)' /\ StageOf(c)' /\ ReadOf(c)' /\ LoadedOf(c)'
    BY <1>1, <2>0, <2>2 DEF ClientOK, SubjectOf, WorkOf, StageOf, ReadOf, LoadedOf, LoggingNow,
                            ReadingNow, PurgingNow
  <2>4. VictimsOf(c)'
    <3>1. now'[c] \in {now[c], clock, 0} /\ clock \in Nat
      BY BoundsAssumption
    <3>2. QED
      BY <1>1, <2>0, <2>2, <3>1 DEF ClientOK, VictimsOf
  <2>5. QED
    BY <2>3, <2>4 DEF ClientOK
<1>5. QED
  BY <1>1, <1>2, <1>3, <1>4, OwnStep DEF RowsOK

\* log_session: the next id belongs to no session, so its rows are still to come.
LEMMA NextIsNew ==
  ASSUME TypeOK, RowsOK, db.seq + 1 \in Ids
  PROVE  /\ db.seq + 1 \notin db.sessions /\ db.seq + 1 \notin legacy
         /\ db.seq + 1 \notin db.segments /\ db.analyses[db.seq + 1] = "none"
         /\ db.status[db.seq + 1] = "none"
<1>1. db.seq \in Nat
  BY BoundsAssumption DEF TypeOK, Rows
<1>2. db.seq + 1 \notin db.sessions /\ db.seq + 1 \notin legacy
  BY <1>1 DEF RowsOK, IdsOK
<1>3. WholeAt(db, db.seq + 1)
  BY DEF RowsOK, WholeSessions
<1>4. QED
  BY <1>2, <1>3 DEF WholeAt

LEMMA LoggingOK ==
  ASSUME TypeOK, LockOK, RowsOK, NEW c \in Clients,
         InsertSession(c) \/ InsertSegments(c) \/ InsertAnalysis(c) \/ InsertItems(c)
  PROVE  RowsOK'
<1> USE DEF Goto, store, statusfile, locals
<1>0. ClientOK(c) /\ db \in Rows /\ work \in Rows /\ db.seq \in Nat
  BY BoundsAssumption DEF RowsOK, TypeOK, Rows
<1>1. CASE InsertSession(c)
  <2> DEFINE id == db.seq + 1
  <2>1. id \in Ids
    BY <1>0, <1>1, BoundsAssumption DEF InsertSession, Ids
  <2>2. /\ work'.seq = id /\ work'.sessions = db.sessions \cup {id} /\ work'.segments = db.segments
        /\ work'.analyses = db.analyses /\ work'.status = db.status
    BY <1>0, <1>1 DEF InsertSession, Begins, NextId, Rows
  <2>3. /\ pc'[c] = "insert_segments" /\ mine'[c] = id /\ now'[c] = 0
        /\ UNCHANGED <<db, legacy, clock, file, op, victims, detail, loaded>>
    BY <1>1 DEF InsertSession, Begins, NextId, TypeOK
  <2>4. \A s \in 1..db.seq : began'[s] = began[s]
    BY <1>0, <1>1 DEF InsertSession, NextId, TypeOK
  <2>5. StageOf(c)'
    <3>1. ASSUME NEW s \in Ids \ {id} PROVE WholeAt(work, s)'
      <4>1. WholeAt(db, s)
        BY DEF RowsOK, WholeSessions
      <4>2. QED
        BY <2>2, <2>3, <4>1 DEF WholeAt
    <3>2. QED
      BY <2>1, <2>2, <2>3, <3>1, NextIsNew DEF StageOf, PurgingNow
  <2>6. SubjectOf(c)' /\ WorkOf(c)' /\ ReadOf(c)'
    BY <1>0, <1>1, <2>1, <2>2, <2>3 DEF ClientOK, SubjectOf, WorkOf, Adds, ReadOf, InsertSession, LoggingNow,
                                  ReadingNow, PurgingNow
  <2>7. LoadedOf(c)'
    BY <1>0, <1>1, <2>3 DEF ClientOK, SubjectOf, LoadedOf, InsertSession
  <2>8. VictimsOf(c)'
    <3>1. 0 <= clock
      BY BoundsAssumption DEF TypeOK
    <3>2. QED
      BY <1>0, <2>3, <2>4, <3>1 DEF ClientOK, VictimsOf
  <2>9. lock \in {c, Free} /\ FileOK' /\ \A d \in Clients \ {c} : Untouched(d)
    BY <1>1, <2>3 DEF InsertSession, Begins, FileOK, RowsOK, Untouched, TypeOK
  <2>10. QED
    BY <2>3, <2>4, <2>5, <2>6, <2>7, <2>8, <2>9, OwnStep DEF ClientOK
<1>2. CASE InsertSegments(c) \/ InsertAnalysis(c) \/ InsertItems(c)
  <2>1. /\ UNCHANGED <<db, legacy, clock, file, began, op, mine, victims, detail, loaded, now>>
        /\ lock = c /\ \A d \in Clients \ {c} : pc'[d] = pc[d]
        /\ pc[c] \in LoggingNow
    BY <1>2 DEF InsertSegments, InsertAnalysis, InsertItems, Writes, TypeOK, LoggingNow
  <2>2. FileOK' /\ \A d \in Clients \ {c} : Untouched(d)
    BY <2>1 DEF FileOK, RowsOK, Untouched
  <2>3. VictimsOf(c)'
    BY <1>0, <2>1 DEF ClientOK, VictimsOf
  <2>4. Adds /\ mine[c] = db.seq + 1 /\ mine[c] \in Ids /\ op[c] # "save_status" /\ mine[c] \notin legacy
    BY <1>0, <2>1, NextIsNew DEF ClientOK, WorkOf, SubjectOf, LoggingNow
  <2>5. CASE InsertSegments(c)
    <3>1. /\ work' = [work EXCEPT !.segments = @ \cup {mine[c]}]
          /\ pc[c] = "insert_segments" /\ pc'[c] = "insert_analysis"
      BY <2>5 DEF InsertSegments, Writes, TypeOK
    <3>2. /\ work'.seq = work.seq /\ work'.sessions = work.sessions
          /\ work'.segments = work.segments \cup {mine[c]}
          /\ work'.analyses = work.analyses /\ work'.status = work.status
      BY <1>0, <3>1 DEF Rows
    <3>3. StageOf(c)'
      BY <1>0, <2>1, <3>1, <3>2 DEF ClientOK, StageOf, WholeAt, LoggingNow, PurgingNow
    <3>4. SubjectOf(c)' /\ WorkOf(c)' /\ ReadOf(c)' /\ LoadedOf(c)'
      BY <1>0, <2>1, <2>4, <3>1, <3>2 DEF ClientOK, SubjectOf, WorkOf, Adds, ReadOf, LoadedOf,
                                          LoggingNow, ReadingNow, PurgingNow
    <3>5. QED
      BY <2>1, <2>2, <2>3, <3>3, <3>4, OwnStep DEF ClientOK
  <2>6. CASE InsertAnalysis(c)
    <3>1. PICK found \in {"plain", "items"} : work' = [work EXCEPT !.analyses[mine[c]] = found]
      BY <2>6 DEF InsertAnalysis, Writes
    <3>2. pc[c] = "insert_analysis" /\ pc'[c] = "insert_items"
      BY <2>6 DEF InsertAnalysis, TypeOK
    <3>3. /\ work'.seq = work.seq /\ work'.sessions = work.sessions /\ work'.segments = work.segments
          /\ work'.analyses = [work.analyses EXCEPT ![mine[c]] = found] /\ work'.status = work.status
      BY <1>0, <3>1 DEF Rows
    <3>4. /\ work'.analyses[mine[c]] = found
          /\ \A s \in Ids \ {mine[c]} : work'.analyses[s] = work.analyses[s]
      BY <1>0, <2>4, <3>3 DEF Rows
    <3>5. StageOf(c)'
      BY <1>0, <2>1, <3>2, <3>3, <3>4 DEF ClientOK, StageOf, WholeAt, LoggingNow, PurgingNow
    <3>6. SubjectOf(c)' /\ WorkOf(c)' /\ ReadOf(c)' /\ LoadedOf(c)'
      BY <1>0, <2>1, <2>4, <3>2, <3>3 DEF ClientOK, SubjectOf, WorkOf, Adds, ReadOf, LoadedOf,
                                          LoggingNow, ReadingNow, PurgingNow
    <3>7. QED
      BY <2>1, <2>2, <2>3, <3>5, <3>6, OwnStep DEF ClientOK
  <2>7. CASE InsertItems(c)
    <3>1. /\ work' = IF work.analyses[mine[c]] = "items" THEN [work EXCEPT !.status[mine[c]] = "open"] ELSE work
          /\ pc[c] = "insert_items" /\ pc'[c] = "commit"
      BY <2>7 DEF InsertItems, Writes, TypeOK
    <3>2. /\ work'.seq = work.seq /\ work'.sessions = work.sessions /\ work'.segments = work.segments
          /\ work'.analyses = work.analyses
          /\ \A s \in Ids \ {mine[c]} : work'.status[s] = work.status[s]
          /\ work.analyses[mine[c]] = "items" => work'.status[mine[c]] = "open"
          /\ work.analyses[mine[c]] # "items" => work'.status[mine[c]] = work.status[mine[c]]
      BY <1>0, <2>4, <3>1 DEF Rows
    <3>3. /\ \A s \in Ids \ {mine[c]} : WholeAt(work, s)
          /\ mine[c] \in work.segments /\ work.analyses[mine[c]] # "none" /\ work.status[mine[c]] = "none"
          /\ mine[c] \in work.sessions
      BY <1>0, <2>4, <3>1 DEF ClientOK, StageOf, Adds, LoggingNow
    <3>4. ASSUME NEW s \in Ids PROVE WholeAt(work, s)'
      <4>1. CASE s = mine[c]
        BY <2>1, <2>4, <3>2, <3>3, <4>1 DEF WholeAt
      <4>2. CASE s # mine[c]
        BY <2>1, <3>2, <3>3, <4>2 DEF WholeAt
      <4>3. QED
        BY <4>1, <4>2
    <3>5. StageOf(c)'
      BY <3>1, <3>4 DEF StageOf, LoggingNow, PurgingNow
    <3>6. SubjectOf(c)' /\ WorkOf(c)' /\ ReadOf(c)' /\ LoadedOf(c)'
      BY <1>0, <2>1, <2>4, <3>1, <3>2 DEF ClientOK, SubjectOf, WorkOf, Adds, ReadOf, LoadedOf,
                                          LoggingNow, ReadingNow, PurgingNow
    <3>7. QED
      BY <2>1, <2>2, <2>3, <3>5, <3>6, OwnStep DEF ClientOK
  <2>8. QED
    BY <1>2, <2>5, <2>6, <2>7
<1>3. QED
  BY <1>1, <1>2

\* purge_before: between the SELECT and the DELETEs the chosen sessions only grow older.
LEMMA VictimsOld ==
  ASSUME TypeOK, RowsOK, NEW c \in Clients, NEW s \in Expired(c)
  PROVE  s \in 1..db.seq /\ OldEnough(clock - began[s])
<1>1. s \in db.sessions /\ s \in 1..db.seq /\ s \in Ids
  BY DEF Expired, RowsOK, IdsOK, TypeOK, Rows
<1>2. began[s] \in Nat /\ clock \in Nat /\ now[c] \in Nat /\ now[c] <= clock
  BY <1>1, BoundsAssumption DEF TypeOK, RowsOK, ClientOK, VictimsOf
<1>3. OldEnough(now[c] - began[s])
  <2>1. UtcDate(began[s]) < LocalDate(now[c]) - Keep
    BY DEF Expired
  <2>2. QED
    BY <1>2, <2>1, DatesOfTimes
<1>4. /\ now[c] - began[s] \in Int /\ clock - began[s] \in Int
      /\ now[c] - began[s] <= clock - began[s]
  BY <1>2
<1>5. QED
  BY <1>1, <1>3, <1>4, StaysOld

LEMMA PurgingOK ==
  ASSUME TypeOK, LockOK, RowsOK, NEW c \in Clients,
         SelectExpired(c) \/ DeleteItems(c) \/ DeleteSegments(c) \/ DeleteAnalyses(c) \/ DeleteSessions(c)
  PROVE  RowsOK'
<1> USE DEF Goto, store, statusfile, locals
<1>0. /\ ClientOK(c) /\ db \in Rows /\ work \in Rows /\ clock \in Nat
      /\ pc \in [Clients -> Locations] /\ victims[c] \subseteq Ids
  BY BoundsAssumption DEF RowsOK, TypeOK
<1>1. CASE SelectExpired(c)
  <2>1. /\ UNCHANGED <<db, work, legacy, clock, file, began, op, mine, detail, loaded>>
        /\ pc[c] = "select" /\ pc'[c] = "delete_items" /\ now'[c] = 0 /\ victims'[c] = Expired(c)
        /\ \A d \in Clients \ {c} : pc'[d] = pc[d] /\ victims'[d] = victims[d] /\ now'[d] = now[d]
    BY <1>1 DEF SelectExpired, TypeOK
  <2>2. VictimsOf(c)'
    BY <1>0, <2>1, VictimsOld DEF VictimsOf
  <2>3. SubjectOf(c)' /\ WorkOf(c)' /\ StageOf(c)' /\ ReadOf(c)' /\ LoadedOf(c)'
    BY <1>0, <2>1 DEF ClientOK, SubjectOf, WorkOf, StageOf, ReadOf, LoadedOf, LoggingNow, ReadingNow,
                      PurgingNow
  <2>4. FileOK' /\ \A d \in Clients \ {c} : Untouched(d)
    BY <2>1 DEF FileOK, RowsOK, Untouched
  <2>5. QED
    BY <2>1, <2>2, <2>3, <2>4, OwnStep DEF ClientOK
<1>2. CASE DeleteItems(c) \/ DeleteSegments(c) \/ DeleteAnalyses(c) \/ DeleteSessions(c)
  <2>1. /\ UNCHANGED <<db, legacy, clock, file, began, op, mine, victims, detail, loaded, now>>
        /\ lock \in {c, Free} /\ \A d \in Clients \ {c} : pc'[d] = pc[d]
        /\ pc[c] \in PurgingNow \cup {"delete_items"} /\ pc'[c] \in PurgingNow \cup {"commit"}
    BY <1>0, <1>2 DEF DeleteItems, DeleteSegments, DeleteAnalyses, DeleteSessions, Begins, Writes, PurgingNow
  <2>2. FileOK' /\ \A d \in Clients \ {c} : Untouched(d)
    BY <2>1 DEF FileOK, RowsOK, Untouched
  <2>3. VictimsOf(c)' /\ ReadOf(c)' /\ LoadedOf(c)' /\ SubjectOf(c)'
    BY <1>0, <2>1 DEF ClientOK, VictimsOf, ReadOf, LoadedOf, SubjectOf, LoggingNow, ReadingNow, PurgingNow
  <2>4. CASE DeleteItems(c)
    <3>1. /\ pc'[c] = "delete_segments"
          /\ work' = [db EXCEPT !.status = [s \in Ids |-> IF s \in victims[c] THEN "none" ELSE @[s]]]
      BY <1>0, <2>4 DEF DeleteItems, Begins
    <3>2. /\ work'.seq = db.seq /\ work'.sessions = db.sessions /\ work'.segments = db.segments
          /\ work'.analyses = db.analyses
          /\ \A s \in Ids : work'.status[s] = IF s \in victims[c] THEN "none" ELSE db.status[s]
      BY <1>0, <3>1 DEF Rows
    <3>3. ASSUME NEW s \in Ids \ victims[c] PROVE WholeAt(work, s)'
      <4>1. WholeAt(db, s)
        BY DEF RowsOK, WholeSessions
      <4>2. QED
        BY <2>1, <3>2, <4>1 DEF WholeAt
    <3>4. WorkOf(c)' /\ StageOf(c)'
      BY <1>0, <2>1, <3>1, <3>2, <3>3 DEF WorkOf, StageOf, LoggingNow, PurgingNow
    <3>5. QED
      BY <2>1, <2>2, <2>3, <3>4, OwnStep DEF ClientOK
  <2>5. CASE DeleteSegments(c)
    <3>1. /\ pc[c] = "delete_segments" /\ pc'[c] = "delete_analyses"
          /\ work' = [work EXCEPT !.segments = @ \ victims[c]]
      BY <1>0, <2>5 DEF DeleteSegments, Writes
    <3>2. /\ work'.seq = work.seq /\ work'.sessions = work.sessions
          /\ work'.segments = work.segments \ victims[c]
          /\ work'.analyses = work.analyses /\ work'.status = work.status
      BY <1>0, <3>1 DEF Rows
    <3>3. WorkOf(c)' /\ StageOf(c)'
      BY <1>0, <2>1, <3>1, <3>2 DEF ClientOK, WorkOf, StageOf, WholeAt, LoggingNow, PurgingNow
    <3>4. QED
      BY <2>1, <2>2, <2>3, <3>3, OwnStep DEF ClientOK
  <2>6. CASE DeleteAnalyses(c)
    <3>1. /\ pc[c] = "delete_analyses" /\ pc'[c] = "delete_sessions"
          /\ work' = [work EXCEPT !.analyses = [s \in Ids |-> IF s \in victims[c] THEN "none" ELSE @[s]]]
      BY <1>0, <2>6 DEF DeleteAnalyses, Writes
    <3>2. /\ work'.seq = work.seq /\ work'.sessions = work.sessions /\ work'.segments = work.segments
          /\ work'.status = work.status
          /\ \A s \in Ids : work'.analyses[s] = IF s \in victims[c] THEN "none" ELSE work.analyses[s]
      BY <1>0, <3>1 DEF Rows
    <3>3. WorkOf(c)' /\ StageOf(c)'
      BY <1>0, <2>1, <3>1, <3>2 DEF ClientOK, WorkOf, StageOf, WholeAt, LoggingNow, PurgingNow
    <3>4. QED
      BY <2>1, <2>2, <2>3, <3>3, OwnStep DEF ClientOK
  <2>7. CASE DeleteSessions(c)
    <3>1. /\ pc[c] = "delete_sessions" /\ pc'[c] = "commit"
          /\ work' = [work EXCEPT !.sessions = @ \ victims[c]]
      BY <1>0, <2>7 DEF DeleteSessions, Writes
    <3>2. /\ work'.seq = work.seq /\ work'.sessions = work.sessions \ victims[c]
          /\ work'.segments = work.segments
          /\ work'.analyses = work.analyses /\ work'.status = work.status
      BY <1>0, <3>1 DEF Rows
    <3>3. ASSUME NEW s \in Ids PROVE WholeAt(work, s)'
      BY <1>0, <2>1, <3>1, <3>2 DEF ClientOK, StageOf, WholeAt, PurgingNow
    <3>4. WorkOf(c)' /\ StageOf(c)'
      BY <1>0, <2>1, <3>1, <3>2, <3>3 DEF ClientOK, WorkOf, StageOf, Removes, LoggingNow, PurgingNow
    <3>5. QED
      BY <2>1, <2>2, <2>3, <3>4, OwnStep DEF ClientOK
  <2>8. QED
    BY <1>2, <2>4, <2>5, <2>6, <2>7
<1>3. QED
  BY <1>1, <1>2

\* get_session_detail and the action item updates.
LEMMA ReadingOK ==
  ASSUME TypeOK, LockOK, RowsOK, NEW c \in Clients, FindSession(c) \/ ReadSegments(c) \/ ReadAnalysis(c)
  PROVE  RowsOK'
<1> USE DEF FindSession, ReadSegments, ReadAnalysis, Goto, store, statusfile
<1>0. /\ ClientOK(c) /\ db \in Rows /\ pc \in [Clients -> Locations]
      /\ detail[c] \in [segments : BOOLEAN, analysis : {"none", "plain", "items"}]
      /\ db.sessions \subseteq 1..db.seq /\ db.seq \in 0..MaxSessions
  BY DEF RowsOK, IdsOK, TypeOK, Rows
<1>1. /\ UNCHANGED <<db, work, legacy, clock, file, began, op, now, victims, loaded>>
      /\ pc'[c] \in {"read_segments", "read_analysis", "load"} /\ op[c] # "save_status"
      /\ \A d \in Clients \ {c} : UNCHANGED <<pc[d], mine[d], detail[d]>>
  BY <1>0 DEF TypeOK, ClientOK, SubjectOf
<1>2. FileOK' /\ \A d \in Clients \ {c} : Untouched(d)
  BY <1>1 DEF FileOK, RowsOK, Untouched
<1>3. WorkOf(c)' /\ StageOf(c)' /\ LoadedOf(c)' /\ VictimsOf(c)'
  BY <1>0, <1>1 DEF ClientOK, WorkOf, StageOf, LoadedOf, VictimsOf, LoggingNow, PurgingNow
<1>4. mine'[c] \in 1..db.seq
  BY <1>0 DEF ClientOK, SubjectOf, ReadingNow, TypeOK
<1>5. SubjectOf(c)'
  BY <1>1, <1>4 DEF SubjectOf, LoggingNow
<1>6. ReadOf(c)'
  <2>1. CASE FindSession(c)
    BY <1>0, <2>1 DEF ReadOf
  <2>2. CASE ReadSegments(c)
    <3>1. detail'[c].segments <=> mine[c] \in db.segments
      BY <1>0, <2>2 DEF TypeOK
    <3>2. mine[c] \in Ids
      BY <1>0, <2>2, BoundsAssumption DEF ClientOK, SubjectOf, ReadingNow, Ids
    <3>3. mine[c] \in db.sessions <=> mine[c] \in db.segments
      BY <3>2 DEF RowsOK, WholeSessions, WholeAt
    <3>4. QED
      BY <1>0, <2>2, <3>1, <3>3 DEF ReadOf
  <2>3. CASE ReadAnalysis(c)
    <3>1. detail'[c].segments = detail[c].segments /\ detail'[c].analysis = db.analyses[mine[c]]
      BY <1>0, <2>3 DEF TypeOK
    <3>2. mine[c] \in Ids
      BY <1>0, <2>3, BoundsAssumption DEF ClientOK, SubjectOf, ReadingNow, Ids
    <3>3. mine[c] \in db.sessions <=> db.analyses[mine[c]] # "none"
      BY <3>2 DEF RowsOK, WholeSessions, WholeAt
    <3>4. QED
      BY <1>0, <2>3, <3>1, <3>3 DEF ReadOf, ClientOK
  <2>4. QED
    BY <2>1, <2>2, <2>3
<1>7. QED
  BY <1>1, <1>2, <1>3, <1>5, <1>6, OwnStep DEF ClientOK

LEMMA FileStepOK ==
  ASSUME TypeOK, LockOK, RowsOK, NEW c \in Clients,
         LoadStatusFile(c) \/ TruncateStatusFile(c) \/ WriteStatusFile(c)
  PROVE  RowsOK'
<1> USE DEF Goto, store, statusfile, locals
<1>0. ClientOK(c) /\ pc \in [Clients -> Locations] /\ db.seq \in 0..MaxSessions
  BY DEF RowsOK, TypeOK, Rows
<1>1. CASE LoadStatusFile(c)
  <2>1. /\ UNCHANGED <<db, work, legacy, clock, file, began, op, now, victims, mine>>
        /\ pc[c] = "load" /\ pc'[c] = "truncate" /\ op[c] # "save_status" /\ mine[c] \in 1..db.seq
        /\ \A d \in Clients \ {c} : UNCHANGED <<pc[d], detail[d], loaded[d]>>
    BY <1>0, <1>1 DEF LoadStatusFile, TypeOK, ClientOK, SubjectOf, ReadingNow
  <2>2. mine[c] \in Ids
    BY <1>0, <2>1, BoundsAssumption DEF Ids
  <2>3. /\ loaded'[c][mine[c]] = "done"
        /\ \A s \in Ids : s # mine[c] => loaded'[c][s] \in {"none", file[s]}
    BY <1>1, <2>2 DEF LoadStatusFile, TypeOK, NoStatus
  <2>4. LoadedOf(c)'
    BY <1>0, <2>1, <2>3 DEF LoadedOf, RowsOK, FileOK
  <2>5. SubjectOf(c)' /\ WorkOf(c)' /\ StageOf(c)' /\ ReadOf(c)' /\ VictimsOf(c)'
    BY <1>0, <2>1 DEF ClientOK, SubjectOf, WorkOf, StageOf, ReadOf, VictimsOf, LoggingNow, ReadingNow,
                      PurgingNow
  <2>6. FileOK' /\ \A d \in Clients \ {c} : Untouched(d)
    BY <2>1 DEF FileOK, RowsOK, Untouched
  <2>7. QED
    BY <2>1, <2>4, <2>5, <2>6, OwnStep DEF ClientOK
<1>2. CASE TruncateStatusFile(c)
  <2>1. /\ UNCHANGED <<db, work, legacy, clock, file, began, op, now, victims, mine, loaded, detail>>
        /\ pc[c] = "truncate" /\ pc'[c] = "write"
        /\ \A d \in Clients \ {c} : UNCHANGED pc[d]
    BY <1>0, <1>2 DEF TruncateStatusFile
  <2>2. ClientOK(c)'
    BY <1>0, <2>1 DEF ClientOK, SubjectOf, WorkOf, StageOf, ReadOf, LoadedOf, VictimsOf, LoggingNow,
                      ReadingNow, PurgingNow
  <2>3. FileOK' /\ \A d \in Clients \ {c} : Untouched(d)
    BY <2>1 DEF FileOK, RowsOK, Untouched
  <2>4. QED
    BY <2>1, <2>2, <2>3, OwnStep
<1>3. CASE WriteStatusFile(c)
  <2>1. FileOK' /\ UNCHANGED <<db, work, legacy, clock, began>>
    BY <1>0, <1>3 DEF WriteStatusFile, FileOK, ClientOK, LoadedOf
  <2>2. CASE Forget(c)
    BY <2>1, <2>2, ForgetOK, OwnStep
  <2>3. CASE ~Forget(c)
    <3>1. /\ UNCHANGED <<now, victims, mine, loaded, detail>>
          /\ pc[c] = "write" /\ pc'[c] = "open" /\ op'[c] = "save_status"
          /\ \A d \in Clients \ {c} : UNCHANGED <<pc[d], op[d]>>
      BY <1>0, <1>3, <2>3 DEF WriteStatusFile, TypeOK
    <3>2. ClientOK(c)'
      BY <1>0, <2>1, <3>1 DEF ClientOK, SubjectOf, WorkOf, StageOf, ReadOf, LoadedOf, VictimsOf,
                              LoggingNow, ReadingNow, PurgingNow
    <3>3. \A d \in Clients \ {c} : Untouched(d)
      BY <3>1 DEF Untouched
    <3>4. QED
      BY <2>1, <3>2, <3>3, OwnStep
  <2>4. QED
    BY <2>2, <2>3
<1>4. QED
  BY <1>1, <1>2, <1>3

LEMMA UpdatingOK ==
  ASSUME TypeOK, LockOK, RowsOK, NEW c \in Clients, UpdateStatus(c)
  PROVE  RowsOK'
<1> USE DEF Goto, store, statusfile, locals
<1>0. ClientOK(c) /\ db \in Rows /\ pc \in [Clients -> Locations]
  BY DEF RowsOK, TypeOK
<1>1. /\ UNCHANGED <<db, legacy, clock, file, began, op, now, victims, mine, loaded, detail>>
      /\ work' = Updated(c) /\ lock = Free /\ pc[c] = "update" /\ pc'[c] = "commit"
      /\ \A d \in Clients \ {c} : UNCHANGED pc[d]
  BY <1>0 DEF UpdateStatus, Begins
<1>2. op[c] = "save_status" /\ loaded[c][mine[c]] = "done" /\ mine[c] \in Ids
  <2>1. op[c] = "save_status"
    BY <1>0, <1>1 DEF ClientOK, SubjectOf
  <2>2. mine[c] \in 1..db.seq /\ loaded[c][mine[c]] = "done"
    BY <1>0, <2>1 DEF ClientOK, SubjectOf, LoadedOf
  <2>3. db.seq \in 0..MaxSessions
    BY <1>0 DEF Rows
  <2>4. QED
    BY <2>1, <2>2, <2>3, BoundsAssumption DEF Ids
<1>3. /\ work'.seq = db.seq /\ work'.sessions = db.sessions /\ work'.segments = db.segments
      /\ work'.analyses = db.analyses
      /\ \A s \in Ids : work'.status[s] = "none" <=> db.status[s] = "none"
  <2>1. CASE db.status[mine[c]] = "none"
    BY <1>0, <1>1, <1>2, <2>1 DEF Updated, Rows
  <2>2. CASE db.status[mine[c]] # "none"
    <3>1. work' = [db EXCEPT !.status[mine[c]] = "done"]
      BY <1>1, <1>2, <2>2 DEF Updated
    <3>2. work'.status = [db.status EXCEPT ![mine[c]] = "done"]
      BY <1>0, <3>1 DEF Rows
    <3>3. QED
      BY <1>0, <1>2, <2>2, <3>1, <3>2 DEF Rows
  <2>3. QED
    BY <2>1, <2>2
<1>4. ASSUME NEW s \in Ids PROVE WholeAt(work, s)'
  <2>1. WholeAt(db, s)
    BY DEF RowsOK, WholeSessions
  <2>2. QED
    BY <1>1, <1>3, <2>1 DEF WholeAt
<1>5. ClientOK(c)'
  <2>1. WorkOf(c)' /\ StageOf(c)'
    BY <1>1, <1>3, <1>4 DEF WorkOf, StageOf, Removes, LoggingNow, PurgingNow
  <2>2. SubjectOf(c)' /\ ReadOf(c)' /\ LoadedOf(c)' /\ VictimsOf(c)'
    BY <1>0, <1>1, <1>2 DEF ClientOK, SubjectOf, ReadOf, LoadedOf, VictimsOf, LoggingNow, ReadingNow
  <2>3. QED
    BY <2>1, <2>2 DEF ClientOK
<1>6. FileOK' /\ \A d \in Clients \ {c} : Untouched(d)
  BY <1>1 DEF FileOK, RowsOK, Untouched
<1>7. QED
  BY <1>1, <1>5, <1>6, OwnStep

\* A commit changes what the other clients read, but none of them is in a transaction.
LEMMA CommitOK ==
  ASSUME TypeOK, LockOK, RowsOK, NEW c \in Clients, Commit(c)
  PROVE  RowsOK'
<1> USE DEF statusfile
<1>0. /\ ClientOK(c) /\ pc[c] = "commit" /\ db' = work /\ lock = c
      /\ UNCHANGED <<legacy, file, clock, began>> /\ Forget(c) /\ db.seq \in Nat /\ work.seq \in Nat
  BY BoundsAssumption DEF RowsOK, Commit, TypeOK, Rows
<1>1. Adds \/ Removes(c)
  BY <1>0 DEF ClientOK, WorkOf
<1>2. db'.seq >= db.seq /\ \A s \in 1..db.seq : s \in db'.sessions => s \in db.sessions
  BY <1>0, <1>1 DEF Adds, Removes
<1>3. IdsOK'
  BY <1>0, <1>1 DEF IdsOK, RowsOK, Adds, Removes
<1>4. FileOK'
  BY <1>0, <1>2 DEF FileOK, RowsOK, Ids
<1>5. WholeSessions'
  BY <1>0 DEF ClientOK, StageOf, WholeSessions, WholeAt
<1>6. ASSUME NEW d \in Clients PROVE ClientOK(d)'
  <2>1. CASE d = c
    BY <1>0, <2>1, ForgetOK
  <2>2. CASE d # c
    <3>1. /\ ClientOK(d) /\ pc[d] \notin Transaction
          /\ UNCHANGED <<pc[d], op[d], mine[d], victims[d], detail[d], loaded[d], now[d]>>
      BY <1>0, <2>2, ForgetOK DEF RowsOK, LockOK, Untouched
    <3>2. SubjectOf(d)' /\ WorkOf(d)' /\ StageOf(d)'
      BY <1>0, <1>2, <3>1 DEF ClientOK, SubjectOf, WorkOf, StageOf, Transaction, LoggingNow, ReadingNow,
                              PurgingNow
    <3>3. ReadOf(d)'
      BY <1>2, <3>1 DEF ClientOK, SubjectOf, ReadOf, ReadingNow
    <3>4. LoadedOf(d)' /\ VictimsOf(d)'
      BY <1>0, <1>2, <3>1 DEF ClientOK, LoadedOf, VictimsOf, Ids
    <3>5. QED
      BY <3>2, <3>3, <3>4 DEF ClientOK
  <2>3. QED
    BY <2>1, <2>2
<1>7. QED
  BY <1>3, <1>4, <1>5, <1>6 DEF RowsOK

LEMMA TickOK ==
  ASSUME TypeOK, LockOK, RowsOK, Tick
  PROVE  RowsOK'
<1> USE DEF Tick, store, statusfile, locals
<1>1. /\ UNCHANGED <<db, work, legacy, file, began, pc, op, mine, victims, detail, loaded, now>>
      /\ clock' = clock + 1 /\ clock \in Nat
  BY BoundsAssumption DEF TypeOK
<1>2. IdsOK' /\ FileOK' /\ WholeSessions'
  BY <1>1 DEF RowsOK, IdsOK, FileOK, WholeSessions, WholeAt
<1>3. ASSUME NEW c \in Clients PROVE ClientOK(c)'
  <2>1. ClientOK(c)
    BY DEF RowsOK
  <2>2. SubjectOf(c)' /\ WorkOf(c)' /\ StageOf(c)' /\ ReadOf(c)' /\ LoadedOf(c)'
    BY <1>1, <2>1 DEF ClientOK, SubjectOf, WorkOf, StageOf, Adds, Removes, WholeAt, ReadOf, LoadedOf
  <2>3. VictimsOf(c)'
    <3>1. now[c] \in Nat /\ VictimsOf(c)
      BY <2>1, BoundsAssumption DEF TypeOK, ClientOK
    <3>2. ASSUME NEW s \in victims[c] PROVE s \in 1..db.seq /\ OldEnough((clock - began[s])')
      <4>1. began[s] \in Nat /\ s \in 1..db.seq /\ OldEnough(clock - began[s])
        BY <3>1, <3>2 DEF TypeOK, VictimsOf
      <4>2. /\ clock - began[s] \in Int /\ (clock - began[s])' \in Int
            /\ clock - began[s] <= (clock - began[s])'
        BY <1>1, <4>1
      <4>3. QED
        BY <4>1, <4>2, StaysOld
    <3>3. now'[c] <= clock' /\ victims'[c] = victims[c] /\ db' = db
      BY <1>1, <3>1 DEF VictimsOf
    <3>4. QED
      BY <3>2, <3>3 DEF VictimsOf
  <2>4. QED
    BY <2>2, <2>3 DEF ClientOK
<1>4. QED
  BY <1>2, <1>3 DEF RowsOK

LEMMA StepRows == TypeOK /\ LockOK /\ RowsOK /\ [Next]_vars => RowsOK'
<1> SUFFICES ASSUME TypeOK, LockOK, RowsOK, [Next]_vars PROVE RowsOK'
  OBVIOUS
<1>1. ASSUME NEW c \in Clients, Client(c) \/ \E o \in Operations \ {"save_status"} : Begin(c, o)
      PROVE  RowsOK'
  BY <1>1, EndsOK, OpeningOK, LoggingOK, CommitOK, PurgingOK, ReadingOK, FileStepOK, UpdatingOK
     DEF Client, Opening, Logging, Purging, Updating
<1>2. CASE UNCHANGED vars
  BY <1>2 DEF vars, store, statusfile, locals, RowsOK, IdsOK, FileOK, WholeSessions, WholeAt, ClientOK,
              SubjectOf, WorkOf, StageOf, Adds, Removes, ReadOf, LoadedOf, VictimsOf
<1>3. QED
  BY <1>1, <1>2, TickOK DEF Next

-----------------------------------------------------------------------------
(* The theorems. *)

IInv == TypeOK /\ LockOK /\ SchemaOK /\ RowsOK

LEMMA Inductive == Spec => []IInv
<1>1. Init => IInv
  BY InitTyped, InitRows DEF IInv
<1>2. IInv /\ [Next]_vars => IInv'
  BY StepTyped, StepLock, StepSchema, StepRows DEF IInv
<1>3. QED
  BY <1>1, <1>2, PTL DEF Spec

\* Everything the store keeps stays well-typed, for any number of clients and sessions.
THEOREM TypeCorrect == Spec => []TypeOK
<1>1. IInv => TypeOK
  BY DEF IInv
<1>2. QED
  BY <1>1, Inductive, PTL

\* log_session and purge_before are all or nothing.
THEOREM AllOrNothing == Spec => []WholeSessions
<1>1. IInv => WholeSessions
  BY DEF IInv, RowsOK
<1>2. QED
  BY <1>1, Inductive, PTL

\* Whoever works on the database finds all its tables.
THEOREM SchemaComplete == Spec => []TablesPresent
<1>1. IInv => TablesPresent
  BY DEF IInv, TypeOK, SchemaOK, TablesPresent, Before, Migrations
<1>2. QED
  BY <1>1, Inductive, PTL

\* Concurrent migrations never take the schema back.
THEOREM NoDowngrade == Spec => VersionGrows
<1>1. IInv /\ [Next]_vars => [version' >= version]_vars
  BY StepSchema DEF IInv
<1>2. QED
  BY <1>1, Inductive, PTL DEF Spec, VersionGrows

\* get_session_detail returns a whole session or one that is purged.
THEOREM ReadsWhole == Spec => []NoTornRead
<1>1. IInv => NoTornRead
  BY DEF IInv, RowsOK, ClientOK, ReadOf, NoTornRead
<1>2. QED
  BY <1>1, Inductive, PTL

\* Only a commit changes what is in the log: it adds the next session, or takes victims away.
LEMMA CommittedChange ==
  ASSUME IInv, [Next]_vars
  PROVE  \/ UNCHANGED db
         \/ /\ db'.seq = db.seq + 1 /\ db'.sessions = db.sessions \cup {db.seq + 1}
            /\ db.seq + 1 \in Ids /\ UNCHANGED file
         \/ /\ db'.seq = db.seq /\ db'.sessions \subseteq db.sessions
            /\ \A s \in db.sessions \ db'.sessions : OldEnough(clock - began[s])
<1> USE DEF store, statusfile
<1>1. ASSUME NEW c \in Clients, Commit(c)
      PROVE  \/ /\ db'.seq = db.seq + 1 /\ db'.sessions = db.sessions \cup {db.seq + 1}
                /\ db.seq + 1 \in Ids /\ UNCHANGED file
             \/ /\ db'.seq = db.seq /\ db'.sessions \subseteq db.sessions
                /\ \A s \in db.sessions \ db'.sessions : OldEnough(clock - began[s])
  <2>1. ClientOK(c) /\ pc[c] = "commit" /\ db' = work /\ UNCHANGED file /\ work.seq \in 0..MaxSessions
        /\ db.seq \in Nat
    BY <1>1, BoundsAssumption DEF IInv, RowsOK, Commit, TypeOK, Rows
  <2>2. CASE Adds
    <3>1. db.seq + 1 \in Ids
      BY <2>1, <2>2, BoundsAssumption DEF Adds, Ids
    <3>2. QED
      BY <2>1, <2>2, <3>1 DEF Adds
  <2>3. CASE Removes(c)
    BY <2>1, <2>3 DEF Removes, ClientOK, VictimsOf
  <2>4. QED
    BY <2>1, <2>2, <2>3 DEF ClientOK, WorkOf
<1>2. ASSUME NEW c \in Clients, Client(c), ~Commit(c) PROVE UNCHANGED db
  <2>1. CASE Opening(c) \/ BusyFails(c) \/ Crash(c)
    BY <2>1 DEF Opening, Open, MigrateTables, MigrationFails, BumpVersion, BusyFails, Crash
  <2>2. CASE Logging(c)
    BY <1>2, <2>2 DEF Logging, InsertSession, InsertSegments, InsertAnalysis, InsertItems, Begins, Writes
  <2>3. CASE Purging(c)
    BY <2>3 DEF Purging, SelectExpired, NothingExpired, DeleteItems, DeleteSegments, DeleteAnalyses,
                DeleteSessions, Begins, Writes
  <2>4. CASE Updating(c)
    BY <2>4 DEF Updating, FindSession, NoSession, ReadSegments, ReadAnalysis, NothingToUpdate,
                LoadStatusFile, TruncateStatusFile, WriteStatusFile, UpdateStatus, Begins
  <2>5. QED
    BY <1>2, <2>1, <2>2, <2>3, <2>4 DEF Client
<1>3. ASSUME NEW c \in Clients, NEW o, Begin(c, o) PROVE UNCHANGED db
  BY <1>3 DEF Begin
<1>4. CASE Tick \/ UNCHANGED vars
  BY <1>4 DEF Tick, vars
<1>5. QED
  BY <1>1, <1>2, <1>3, <1>4 DEF Next

\* However slow a purge is and whatever the time zone, what it takes is older than retention_days less
\* what the zone is ahead of UTC.
THEOREM OnlyOldPurged == Spec => RecentKept
<1>1. IInv /\ [Next]_vars => [\A s \in db.sessions \ db'.sessions : OldEnough(clock - began[s])]_vars
  BY CommittedChange
<1>2. QED
  BY <1>1, Inductive, PTL DEF Spec, RecentKept

\* A new session finds no status in the file.
THEOREM NoInheritedStatus == Spec => FreshItemsAreOpen
<1>1. ASSUME IInv, [Next]_vars PROVE \A s \in db'.sessions \ db.sessions : file[s] = "none"
  <2>1. db \in Rows /\ FileOK
    BY <1>1 DEF IInv, TypeOK, RowsOK
  <2>2. db.seq \in Nat
    BY <2>1, BoundsAssumption DEF Rows
  <2>3. QED
    BY <1>1, <2>1, <2>2, CommittedChange DEF FileOK
<1>2. IInv /\ [Next]_vars => [\A s \in db'.sessions \ db.sessions : file[s] = "none"]_vars
  BY <1>1
<1>3. QED
  BY <1>2, Inductive, PTL DEF Spec, FreshItemsAreOpen

\* The transcript log implements the archive: sessions appear one at a time, whole, under new ids, and
\* go at once and for good.
THEOREM Refines == Spec => ArchiveSpec
<1> DEFINE archive == {s \in db.sessions : WholeAt(db, s)}
           gone == (1..db.seq) \ db.sessions
<1>1. IInv => archive = db.sessions
  BY DEF IInv, TypeOK, Rows, RowsOK, WholeSessions
<1>2. Init => Archive!Init
  <2> SUFFICES ASSUME Init PROVE Archive!Init
    OBVIOUS
  <2>1. IInv
    BY InitTyped, InitRows DEF IInv
  <2>2. archive \subseteq Ids
    BY <2>1 DEF IInv, TypeOK, Rows
  <2>3. gone = {}
    BY DEF Init, Nothing, Inherited
  <2>4. QED
    BY <2>2, <2>3 DEF Archive!Init
<1>3. IInv /\ IInv' /\ [Next]_vars => [Archive!Next]_<<archive, gone>>
  <2> SUFFICES ASSUME IInv, IInv', [Next]_vars PROVE [Archive!Next]_<<archive, gone>>
    OBVIOUS
  <2>1. IdsOK /\ db.seq \in Nat
    BY BoundsAssumption DEF IInv, RowsOK, TypeOK, Rows
  <2>2. archive = db.sessions /\ archive' = db'.sessions
    <3>1. archive' = db'.sessions
      BY DEF IInv, TypeOK, Rows, RowsOK, WholeSessions
    <3>2. QED
      BY <1>1, <3>1
  <2>3. gone = (1..db.seq) \ db.sessions /\ gone' = (1..db'.seq) \ db'.sessions
    OBVIOUS
  <2> HIDE DEF archive, gone
  <2>4. CASE UNCHANGED db
    BY <2>2, <2>3, <2>4
  <2>5. CASE /\ db'.seq = db.seq + 1 /\ db'.sessions = db.sessions \cup {db.seq + 1}
             /\ db.seq + 1 \in Ids
    <3>1. db.seq + 1 \notin archive \cup gone
      BY <2>1, <2>2, <2>3 DEF IdsOK
    <3>2. gone' = gone
      BY <2>1, <2>3, <2>5 DEF IdsOK
    <3>3. Archive!Log(db.seq + 1)
      BY <2>2, <2>5, <3>1, <3>2 DEF Archive!Log, archive, gone
    <3>4. QED
      BY <2>5, <3>3 DEF Archive!Next, archive, gone
  <2>6. CASE db'.seq = db.seq /\ db'.sessions \subseteq db.sessions
    <3> DEFINE S == db.sessions \ db'.sessions
    <3>1. archive' = archive \ S /\ gone' = gone \cup S /\ S \in SUBSET archive
      BY <2>1, <2>2, <2>3, <2>6 DEF IdsOK
    <3>2. Archive!Purge(S)
      BY <3>1 DEF Archive!Purge, archive, gone
    <3>3. QED
      BY <3>1, <3>2 DEF Archive!Next, archive, gone
  <2>7. QED
    BY <2>4, <2>5, <2>6, CommittedChange
<1>4. QED
  BY <1>2, <1>3, Inductive, PTL DEF Spec, ArchiveSpec, Archive!Spec

-----------------------------------------------------------------------------
(* Unusable databases. *)

\* While migration 4 is applied and its version is not written, the one that applied it is about to,
\* unless a process was killed.
InGoodHands ==
  4 \in applied /\ version < 4 => crashes > 0 \/ \E c \in Clients : pc[c] = "bump" /\ at[c] = 3

LEMMA StepHands == IInv /\ InGoodHands /\ [Next]_vars => InGoodHands'
<1> SUFFICES ASSUME IInv, InGoodHands, [Next]_vars, 4 \in applied', version' < 4, ~(crashes' > 0)
             PROVE  \E c \in Clients : pc'[c] = "bump" /\ at'[c] = 3
  BY DEF InGoodHands
<1>0. /\ pc \in [Clients -> Locations] /\ at \in [Clients -> 0..Target] /\ version \in 0..Target
      /\ crashes \in Nat /\ Target = 5
  BY BoundsAssumption DEF IInv, TypeOK, Target
<1> USE <1>0 DEF Goto, schema, locals
<1>1. ASSUME NEW d \in Clients, pc[d] = "bump", at[d] = 3, UNCHANGED <<pc[d], at[d]>>
      PROVE  \E c \in Clients : pc'[c] = "bump" /\ at'[c] = 3
  BY <1>1
<1>2. CASE \E c \in Clients : Crash(c)
  BY <1>2 DEF Crash
<1>3. ASSUME NEW c \in Clients, BusyFails(c) PROVE FALSE
  <2>1. lock \in Clients /\ pc[lock] \in Transaction
    BY <1>3 DEF BusyFails, IInv, TypeOK, LockOK
  <2>2. version = Target
    BY <2>1 DEF IInv, SchemaOK, Transaction, Before
  <2>3. QED
    BY <1>3, <2>2 DEF BusyFails
<1>4. ASSUME NEW c \in Clients, MigrateTables(c) PROVE \E d \in Clients : pc'[d] = "bump" /\ at'[d] = 3
  <2>1. CASE at[c] = 3
    BY <1>4, <2>1 DEF MigrateTables
  <2>2. CASE at[c] # 3
    <3>1. 4 \in applied /\ version < 4 /\ ~(crashes > 0)
      BY <1>4, <2>2 DEF MigrateTables
    <3>2. PICK d \in Clients : pc[d] = "bump" /\ at[d] = 3
      BY <3>1 DEF InGoodHands
    <3>3. QED
      BY <1>1, <1>4, <3>2 DEF MigrateTables
  <2>3. QED
    BY <2>1, <2>2
<1>5. ASSUME NEW c \in Clients, BumpVersion(c) PROVE \E d \in Clients : pc'[d] = "bump" /\ at'[d] = 3
  <2>1. 4 \in applied /\ version < 4 /\ ~(crashes > 0)
    BY <1>5 DEF BumpVersion
  <2>2. PICK d \in Clients : pc[d] = "bump" /\ at[d] = 3
    BY <2>1 DEF InGoodHands
  <2>3. d # c
    BY <1>5, <2>2 DEF BumpVersion
  <2>4. QED
    BY <1>1, <1>5, <2>2, <2>3 DEF BumpVersion
<1>6. ASSUME NEW c \in Clients, pc[c] # "bump", UNCHANGED <<schema, crashes>>,
             \A d \in Clients \ {c} : UNCHANGED <<pc[d], at[d]>>
      PROVE  \E d \in Clients : pc'[d] = "bump" /\ at'[d] = 3
  BY <1>1, <1>6 DEF InGoodHands
<1>7. ASSUME NEW c \in Clients, Open(c) \/ MigrationFails(c) \/ Logging(c) \/ Purging(c) \/ Updating(c)
      PROVE  /\ pc[c] # "bump" /\ UNCHANGED <<schema, crashes>>
             /\ \A d \in Clients \ {c} : UNCHANGED <<pc[d], at[d]>>
  <2>1. CASE Open(c) \/ MigrationFails(c)
    BY <2>1 DEF Open, MigrationFails, Forget
  <2>2. CASE Logging(c)
    BY <2>2 DEF Logging, InsertSession, InsertSegments, InsertAnalysis, InsertItems, Commit, Forget
  <2>3. CASE Purging(c)
    BY <2>3 DEF Purging, SelectExpired, NothingExpired, DeleteItems, DeleteSegments, DeleteAnalyses,
                DeleteSessions, Forget
  <2>4. CASE Updating(c)
    BY <2>4 DEF Updating, FindSession, NoSession, ReadSegments, ReadAnalysis, NothingToUpdate,
                LoadStatusFile, TruncateStatusFile, WriteStatusFile, UpdateStatus, Forget
  <2>5. QED
    BY <1>7, <2>1, <2>2, <2>3, <2>4
<1>8. ASSUME NEW c \in Clients, NEW o, Begin(c, o)
      PROVE  /\ pc[c] # "bump" /\ UNCHANGED <<schema, crashes>>
             /\ \A d \in Clients \ {c} : UNCHANGED <<pc[d], at[d]>>
  BY <1>8 DEF Begin
<1>9. CASE Tick \/ UNCHANGED vars
  BY <1>1, <1>9 DEF Tick, vars, InGoodHands
<1>10. QED
  BY <1>2, <1>3, <1>4, <1>5, <1>6, <1>7, <1>8, <1>9 DEF Next, Client, Opening

\* Concurrent first starts and upgrades, however interleaved, do not spoil the database: only a
\* process killed inside migration 4 does.
THEOREM OnlyCrashesSpoil == Spec => []UnusableOnlyByCrash
<1>1. Init => InGoodHands
  BY DEF Init, InGoodHands
<1>2. IInv /\ InGoodHands => UnusableOnlyByCrash
  BY DEF InGoodHands, UnusableOnlyByCrash, Unusable
<1>3. QED
  BY <1>1, <1>2, StepHands, Inductive, PTL DEF Spec

=============================================================================
