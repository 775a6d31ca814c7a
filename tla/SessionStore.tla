---------------------------- MODULE SessionStore ----------------------------
(***************************************************************************)
(* transcripts.db and action_item_status.json (core/transcript_log.py and  *)
(* its callers in core/daemon.py, main.py and web/).                       *)
(*                                                                         *)
(* Clients are threads of the daemon, CLI commands and web requests.  Each *)
(* operation opens the database with a TranscriptLog of its own, which     *)
(* creates and migrates it, and closes it again.  SQLite has one writer:   *)
(* Python begins a transaction at the first INSERT, UPDATE or DELETE and   *)
(* ends it at commit(); db is what is committed, and all that readers see, *)
(* and work what the holder of the lock has made of it.  A SELECT outside  *)
(* a transaction sees what is committed at that moment.  executescript     *)
(* commits every statement of a migration on its own.                      *)
(*                                                                         *)
(* A session has a time, its segments, one analysis and, if the analysis   *)
(* found any, action items: their list in the analysis and a row each in   *)
(* the table of migration 005.  One item stands for all of a session's.    *)
(***************************************************************************)
EXTENDS Integers, FiniteSets

CONSTANTS
  Clients,
  MaxSessions,  \* bound: sessions ever logged
  FirstTick,    \* bound: the tick at which a run begins; what it inherits is of tick 0
  MaxClock,     \* bound: the last tick
  DayLength,    \* ticks of a day
  Offset,       \* what the local time zone is ahead of UTC, in ticks (behind it: negative)
  Keep,         \* retention_days, if not 0 (no purge)
  MaxCrashes    \* bound: processes that are killed

ASSUME BoundsAssumption ==
  /\ {MaxClock, MaxCrashes} \subseteq Nat /\ FirstTick \in 0..MaxClock
  /\ {MaxSessions, Keep, DayLength} \subseteq Nat \ {0}
  /\ Offset \in -DayLength..DayLength

Target == 5              \* SCHEMA_VERSION_TARGET
Migrations == 1..Target
Ids == 1..MaxSessions
Free == "free"
Operations == {"log", "purge", "update", "web_update", "save_status"}
Statuses == {"none", "open", "done"}     \* "cancelled" is handled like "done"

ASSUME ClientsAssumption == Free \notin Clients

VARIABLES
  version,   \* schema_version
  applied,   \* migrations whose tables and columns exist
  db, work,  \* the committed rows, and those of the open transaction
  lock,      \* SQLite's write lock
  began,     \* session -> sessions.started_at, in ticks of UTC
  clock,     \* ticks of UTC
  legacy,    \* sessions logged by a release without action_items
  file,      \* action_item_status.json: session -> status of its item
  torn,      \* is the file truncated?
  pc, op,
  at,        \* client -> "version" of _run_migrations
  now,       \* client -> the time at which it began
  mine,      \* client -> the session it writes or reads
  victims,   \* client -> session_ids of purge_before
  detail,    \* client -> what get_session_detail has read of mine
  loaded,    \* client -> status_data
  crashes

store == <<db, work, lock, began>>
schema == <<version, applied>>
statusfile == <<file, torn>>
locals == <<op, at, now, mine, victims, detail, loaded>>
vars == <<schema, store, clock, legacy, statusfile, pc, locals, crashes>>

Rows == [seq : 0..MaxSessions, sessions : SUBSET Ids, segments : SUBSET Ids,
         analyses : [Ids -> {"none", "plain", "items"}], status : [Ids -> Statuses]]

Locations ==
  {"idle", "open", "ddl", "bump", "insert_session", "insert_segments", "insert_analysis",
   "insert_items", "select", "delete_items", "delete_segments", "delete_analyses",
   "delete_sessions", "exists", "read_segments", "read_analysis", "load", "truncate", "write",
   "update", "commit"}

TypeOK ==
  /\ version \in 0..Target /\ applied \subseteq Migrations
  /\ db \in Rows /\ work \in Rows /\ lock \in Clients \cup {Free}
  /\ began \in [Ids -> 0..MaxClock] /\ clock \in 0..MaxClock /\ legacy \subseteq Ids
  /\ file \in [Ids -> Statuses] /\ torn \in BOOLEAN
  /\ pc \in [Clients -> Locations] /\ op \in [Clients -> Operations]
  /\ at \in [Clients -> 0..Target] /\ now \in [Clients -> 0..MaxClock]
  /\ mine \in [Clients -> 0..MaxSessions] /\ victims \in [Clients -> SUBSET Ids]
  /\ detail \in [Clients -> [segments : BOOLEAN, analysis : {"none", "plain", "items"}]]
  /\ loaded \in [Clients -> [Ids -> Statuses]]
  /\ crashes \in 0..MaxCrashes

Nothing == [seq |-> 0, sessions |-> {}, segments |-> {},
            analyses |-> [s \in Ids |-> "none"], status |-> [s \in Ids |-> "none"]]

\* A session of an older release: its action items are in the analysis only.
Inherited ==
  [seq |-> 1, sessions |-> {1}, segments |-> {1},
   analyses |-> [s \in Ids |-> IF s = 1 THEN "items" ELSE "none"], status |-> [s \in Ids |-> "none"]]

NoStatus == [s \in Ids |-> "none"]
Unread == [segments |-> FALSE, analysis |-> "none"]

\* No database yet, or one of an older release.
Init ==
  /\ \/ version = 0 /\ db = Nothing /\ legacy = {}
     \/ version = 3 /\ db = Inherited /\ legacy = {1}
  /\ applied = 1..version
  /\ work = Nothing /\ lock = Free
  /\ began = [s \in Ids |-> 0] /\ clock = FirstTick
  /\ file = NoStatus /\ torn = FALSE
  /\ pc = [c \in Clients |-> "idle"] /\ op = [c \in Clients |-> "log"]
  /\ at = [c \in Clients |-> 0] /\ now = [c \in Clients |-> 0]
  /\ mine = [c \in Clients |-> 0] /\ victims = [c \in Clients |-> {}]
  /\ detail = [c \in Clients |-> Unread] /\ loaded = [c \in Clients |-> NoStatus]
  /\ crashes = 0

-----------------------------------------------------------------------------
(* Helpers.                                                                *)

Goto(c, location) == pc' = [pc EXCEPT ![c] = location]

\* What a client keeps in its local variables is gone when its operation ends.
Forget(c) ==
  /\ Goto(c, "idle")
  /\ at' = [at EXCEPT ![c] = 0] /\ now' = [now EXCEPT ![c] = 0]
  /\ mine' = [mine EXCEPT ![c] = 0] /\ victims' = [victims EXCEPT ![c] = {}]
  /\ detail' = [detail EXCEPT ![c] = Unread] /\ loaded' = [loaded EXCEPT ![c] = NoStatus]
  /\ op' = [op EXCEPT ![c] = "log"]

\* The first statement of a transaction takes the lock, on the rows committed by then.
Begins(c, rows) ==
  /\ lock = Free
  /\ lock' = c
  /\ work' = rows
  /\ UNCHANGED db

Writes(c, rows) ==
  /\ lock = c
  /\ work' = rows
  /\ UNCHANGED <<db, lock>>

-----------------------------------------------------------------------------
(* TranscriptLog._get_conn: _init_db and _run_migrations                   *)

Begin(c, o) ==
  /\ pc[c] = "idle"
  /\ Goto(c, "open")
  /\ op' = [op EXCEPT ![c] = o]
  /\ now' = [now EXCEPT ![c] = IF o \in {"log", "purge"} THEN clock ELSE 0]
  /\ UNCHANGED <<schema, store, clock, legacy, statusfile, at, mine, victims, detail, loaded, crashes>>

FirstStep(o) ==
  CASE o = "log" -> "insert_session" [] o = "purge" -> "select" [] o = "save_status" -> "update"
    [] OTHER -> "exists"

\* Faulty variant: the last migration is not waited for.
Open_one_too_few(c) ==
  /\ pc[c] = "open"
  /\ lock = Free
  /\ at' = [at EXCEPT ![c] = version]
  /\ Goto(c, IF version >= Target - 1 THEN FirstStep(op[c]) ELSE "ddl")
  /\ UNCHANGED <<schema, store, clock, legacy, statusfile, op, now, mine, victims, detail, loaded, crashes>>

\* _init_db writes, so it waits for the lock; then the version is read.
Open(c) ==
  /\ pc[c] = "open"
  /\ lock = Free
  /\ at' = [at EXCEPT ![c] = version]
  /\ Goto(c, IF version = Target THEN FirstStep(op[c]) ELSE "ddl")
  /\ UNCHANGED <<schema, store, clock, legacy, statusfile, op, now, mine, victims, detail, loaded, crashes>>

\* Every statement of a migration is CREATE ... IF NOT EXISTS, except migration 4's ALTER TABLE.
Repeatable(n) == n # 4

MigrateTables(c) ==
  /\ pc[c] = "ddl"
  /\ lock = Free
  /\ Repeatable(at[c] + 1) \/ at[c] + 1 \notin applied
  /\ applied' = applied \cup {at[c] + 1}
  /\ Goto(c, "bump")
  /\ UNCHANGED <<version, store, clock, legacy, statusfile, locals, crashes>>

\* "duplicate column name": the exception leaves the operation.
MigrationFails(c) ==
  /\ pc[c] = "ddl"
  /\ ~Repeatable(at[c] + 1) /\ at[c] + 1 \in applied
  /\ Forget(c)
  /\ UNCHANGED <<schema, store, clock, legacy, statusfile, crashes>>

\* Faulty variant: without "WHERE version < n".
BumpVersion_unguarded(c) ==
  /\ pc[c] = "bump"
  /\ lock = Free
  /\ version' = at[c] + 1
  /\ at' = [at EXCEPT ![c] = @ + 1]
  /\ Goto(c, IF at[c] + 1 = Target THEN FirstStep(op[c]) ELSE "ddl")
  /\ UNCHANGED <<applied, store, clock, legacy, statusfile, op, now, mine, victims, detail, loaded,
                 crashes>>

\* Faulty variant: migration 4 with the last line of migration 3.
BumpVersion_copied(c) ==
  /\ pc[c] = "bump"
  /\ lock = Free
  /\ version' = IF version < at[c] + 1 /\ at[c] + 1 # 4 THEN at[c] + 1 ELSE version
  /\ at' = [at EXCEPT ![c] = @ + 1]
  /\ Goto(c, IF at[c] + 1 = Target THEN FirstStep(op[c]) ELSE "ddl")
  /\ UNCHANGED <<applied, store, clock, legacy, statusfile, op, now, mine, victims, detail, loaded,
                 crashes>>

\* Faulty variant: the loop does not stop at SCHEMA_VERSION_TARGET.
BumpVersion_endless(c) ==
  /\ pc[c] = "bump"
  /\ lock = Free
  /\ version' = IF version < at[c] + 1 THEN at[c] + 1 ELSE version
  /\ at' = [at EXCEPT ![c] = @ + 1]
  /\ Goto(c, "ddl")
  /\ UNCHANGED <<applied, store, clock, legacy, statusfile, op, now, mine, victims, detail, loaded,
                 crashes>>

\* "UPDATE schema_version SET version = n WHERE version < n", the script's last statement.
BumpVersion(c) ==
  /\ pc[c] = "bump"
  /\ lock = Free
  /\ version' = IF version < at[c] + 1 THEN at[c] + 1 ELSE version
  /\ at' = [at EXCEPT ![c] = @ + 1]
  /\ Goto(c, IF at[c] + 1 = Target THEN FirstStep(op[c]) ELSE "ddl")
  /\ UNCHANGED <<applied, store, clock, legacy, statusfile, op, now, mine, victims, detail, loaded,
                 crashes>>

-----------------------------------------------------------------------------
(* log_session                                                             *)

\* Faulty variant: an INTEGER PRIMARY KEY without AUTOINCREMENT.
NextId_reused(rows) ==
  CHOOSE n \in 1..(MaxSessions + 1) : n - 1 \in rows.sessions \cup {0} /\ \A s \in rows.sessions : s < n

NextId(rows) == rows.seq + 1

InsertSession(c) ==
  /\ pc[c] = "insert_session"
  /\ db.seq < MaxSessions
  /\ Begins(c, [db EXCEPT !.seq = @ + 1, !.sessions = @ \cup {NextId(db)}])
  /\ mine' = [mine EXCEPT ![c] = NextId(db)]
  /\ began' = [began EXCEPT ![NextId(db)] = now[c]]
  /\ now' = [now EXCEPT ![c] = 0]
  /\ Goto(c, "insert_segments")
  /\ UNCHANGED <<schema, clock, legacy, statusfile, op, at, victims, detail, loaded, crashes>>

InsertSegments(c) ==
  /\ pc[c] = "insert_segments"
  /\ Writes(c, [work EXCEPT !.segments = @ \cup {mine[c]}])
  /\ Goto(c, "insert_analysis")
  /\ UNCHANGED <<schema, began, clock, legacy, statusfile, locals, crashes>>

InsertAnalysis(c) ==
  /\ pc[c] = "insert_analysis"
  /\ \E found \in {"plain", "items"} : Writes(c, [work EXCEPT !.analyses[mine[c]] = found])
  /\ Goto(c, "insert_items")
  /\ UNCHANGED <<schema, began, clock, legacy, statusfile, locals, crashes>>

InsertItems(c) ==
  /\ pc[c] = "insert_items"
  /\ Writes(c, IF work.analyses[mine[c]] = "items" THEN [work EXCEPT !.status[mine[c]] = "open"]
                                                    ELSE work)
  /\ Goto(c, "commit")
  /\ UNCHANGED <<schema, began, clock, legacy, statusfile, locals, crashes>>

Commit(c) ==
  /\ pc[c] = "commit"
  /\ lock = c
  /\ db' = work /\ work' = Nothing /\ lock' = Free
  /\ Forget(c)
  /\ UNCHANGED <<schema, began, clock, legacy, statusfile, crashes>>

-----------------------------------------------------------------------------
(* purge_before, with the cutoff date.today() - retention_days             *)

\* started_at is written in UTC, date.today() is the local date.
UtcDate(t) == t \div DayLength
LocalDate(t) == (t + Offset) \div DayLength

\* Faulty variant: one day too many.
Expired_inclusive(c) == {s \in db.sessions : UtcDate(began[s]) <= LocalDate(now[c]) - Keep}

Expired(c) == {s \in db.sessions : UtcDate(began[s]) < LocalDate(now[c]) - Keep}

SelectExpired(c) ==
  /\ pc[c] = "select"
  /\ Expired(c) # {}
  /\ victims' = [victims EXCEPT ![c] = Expired(c)]
  /\ now' = [now EXCEPT ![c] = 0]
  /\ Goto(c, "delete_items")
  /\ UNCHANGED <<schema, store, clock, legacy, statusfile, op, at, mine, detail, loaded, crashes>>

NothingExpired(c) ==
  /\ pc[c] = "select"
  /\ Expired(c) = {}
  /\ Forget(c)
  /\ UNCHANGED <<schema, store, clock, legacy, statusfile, crashes>>

DeleteItems(c) ==
  /\ pc[c] = "delete_items"
  /\ Begins(c, [db EXCEPT !.status = [s \in Ids |-> IF s \in victims[c] THEN "none" ELSE @[s]]])
  /\ Goto(c, "delete_segments")
  /\ UNCHANGED <<schema, began, clock, legacy, statusfile, locals, crashes>>

\* Faulty variant: a commit between the tables.
DeleteSegments_commits(c) ==
  /\ pc[c] = "delete_segments"
  /\ lock = c
  /\ work' = [work EXCEPT !.segments = @ \ victims[c]]
  /\ db' = work'
  /\ UNCHANGED lock
  /\ Goto(c, "delete_analyses")
  /\ UNCHANGED <<schema, began, clock, legacy, statusfile, locals, crashes>>

DeleteSegments(c) ==
  /\ pc[c] = "delete_segments"
  /\ Writes(c, [work EXCEPT !.segments = @ \ victims[c]])
  /\ Goto(c, "delete_analyses")
  /\ UNCHANGED <<schema, began, clock, legacy, statusfile, locals, crashes>>

DeleteAnalyses(c) ==
  /\ pc[c] = "delete_analyses"
  /\ Writes(c, [work EXCEPT !.analyses = [s \in Ids |-> IF s \in victims[c] THEN "none" ELSE @[s]]])
  /\ Goto(c, "delete_sessions")
  /\ UNCHANGED <<schema, began, clock, legacy, statusfile, locals, crashes>>

DeleteSessions(c) ==
  /\ pc[c] = "delete_sessions"
  /\ Writes(c, [work EXCEPT !.sessions = @ \ victims[c]])
  /\ Goto(c, "commit")
  /\ UNCHANGED <<schema, began, clock, legacy, statusfile, locals, crashes>>

-----------------------------------------------------------------------------
(* get_session_detail, as every view and export reads a session; then      *)
(* action-items update of the CLI or the web server: both save the file,   *)
(* only the CLI updates the table                                          *)

FindSession(c) ==
  /\ pc[c] = "exists"
  /\ \E s \in db.sessions : mine' = [mine EXCEPT ![c] = s]
  /\ Goto(c, "read_segments")
  /\ UNCHANGED <<schema, store, clock, legacy, statusfile, op, at, now, victims, detail, loaded, crashes>>

NoSession(c) ==
  /\ pc[c] = "exists"
  /\ db.sessions # Ids
  /\ Forget(c)
  /\ UNCHANGED <<schema, store, clock, legacy, statusfile, crashes>>

ReadSegments(c) ==
  /\ pc[c] = "read_segments"
  /\ detail' = [detail EXCEPT ![c].segments = mine[c] \in db.segments]
  /\ Goto(c, "read_analysis")
  /\ UNCHANGED <<schema, store, clock, legacy, statusfile, op, at, now, mine, victims, loaded, crashes>>

\* Then the LLM is asked which items are done.
ReadAnalysis(c) ==
  /\ pc[c] = "read_analysis"
  /\ detail' = [detail EXCEPT ![c].analysis = db.analyses[mine[c]]]
  /\ Goto(c, "load")
  /\ UNCHANGED <<schema, store, clock, legacy, statusfile, op, at, now, mine, victims, loaded, crashes>>

\* Only a view, no analysis, no action items, or the LLM failed or found nothing done.
NothingToUpdate(c) ==
  /\ pc[c] = "load"
  /\ Forget(c)
  /\ UNCHANGED <<schema, store, clock, legacy, statusfile, crashes>>

\* _load_action_item_status: a file that does not parse counts as empty.
LoadStatusFile(c) ==
  /\ pc[c] = "load"
  /\ detail[c].analysis = "items"
  /\ loaded' = [loaded EXCEPT ![c] = [(IF torn THEN NoStatus ELSE file) EXCEPT ![mine[c]] = "done"]]
  /\ detail' = [detail EXCEPT ![c] = Unread]
  /\ Goto(c, "truncate")
  /\ UNCHANGED <<schema, store, clock, legacy, statusfile, op, at, now, mine, victims, crashes>>

\* write_text opens the file for writing, which empties it, ...
TruncateStatusFile(c) ==
  /\ pc[c] = "truncate"
  /\ torn' = TRUE
  /\ Goto(c, "write")
  /\ UNCHANGED <<schema, store, clock, legacy, file, locals, crashes>>

\* ... and then writes.  The CLI opens the database once more.
WriteStatusFile(c) ==
  /\ pc[c] = "write"
  /\ file' = loaded[c] /\ torn' = FALSE
  /\ \/ /\ op[c] = "update"
        /\ op' = [op EXCEPT ![c] = "save_status"]
        /\ Goto(c, "open")
        /\ UNCHANGED <<at, now, mine, victims, detail, loaded>>
     \/ op[c] = "web_update" /\ Forget(c)
  /\ UNCHANGED <<schema, store, clock, legacy, crashes>>

\* Faulty variant: a row is inserted where there is none.
Updated_upsert(c) == [db EXCEPT !.status[mine[c]] = loaded[c][mine[c]]]

\* "UPDATE action_items ... WHERE session_id = ? AND idx_in_analysis = ?" changes existing rows.
Updated(c) == IF db.status[mine[c]] = "none" THEN db
              ELSE [db EXCEPT !.status[mine[c]] = loaded[c][mine[c]]]

UpdateStatus(c) ==
  /\ pc[c] = "update"
  /\ Begins(c, Updated(c))
  /\ Goto(c, "commit")
  /\ UNCHANGED <<schema, began, clock, legacy, statusfile, locals, crashes>>

-----------------------------------------------------------------------------
(* Failures and time                                                       *)

\* "database is locked", after five seconds.
BusyFails(c) ==
  /\ lock \notin {Free, c}
  /\ pc[c] \in {"open", "ddl", "bump", "insert_session", "delete_items", "update"}
  /\ Forget(c)
  /\ UNCHANGED <<schema, store, clock, legacy, statusfile, crashes>>

\* The process is killed: its transaction is rolled back.
Crash(c) ==
  /\ pc[c] # "idle"
  /\ crashes < MaxCrashes
  /\ crashes' = crashes + 1
  /\ IF lock = c THEN lock' = Free /\ work' = Nothing ELSE UNCHANGED <<lock, work>>
  /\ Forget(c)
  /\ UNCHANGED <<schema, db, began, clock, legacy, statusfile>>

Tick ==
  /\ clock < MaxClock
  /\ clock' = clock + 1
  /\ UNCHANGED <<schema, store, legacy, statusfile, pc, locals, crashes>>

-----------------------------------------------------------------------------

Opening(c) == Open(c) \/ MigrateTables(c) \/ MigrationFails(c) \/ BumpVersion(c)

Logging(c) == InsertSession(c) \/ InsertSegments(c) \/ InsertAnalysis(c) \/ InsertItems(c) \/ Commit(c)

Purging(c) ==
  \/ SelectExpired(c) \/ NothingExpired(c)
  \/ DeleteItems(c) \/ DeleteSegments(c) \/ DeleteAnalyses(c) \/ DeleteSessions(c)

Updating(c) ==
  \/ FindSession(c) \/ NoSession(c) \/ ReadSegments(c) \/ ReadAnalysis(c) \/ NothingToUpdate(c)
  \/ LoadStatusFile(c) \/ TruncateStatusFile(c) \/ WriteStatusFile(c) \/ UpdateStatus(c)

Client(c) == Opening(c) \/ Logging(c) \/ Purging(c) \/ Updating(c) \/ BusyFails(c) \/ Crash(c)

Next ==
  \/ \E c \in Clients : Client(c) \/ \E o \in Operations \ {"save_status"} : Begin(c, o)
  \/ Tick

Spec == Init /\ [][Next]_vars

-----------------------------------------------------------------------------
(* Properties.                                                             *)

\* log_session and purge_before are all or nothing, whatever crashes or runs beside them: a session
\* in the log has its segments, its analysis and its action items, and no row is left of one that is
\* not ("Order: action_items, segments, analyses, sessions", transcript_log.py:682).
WholeAt(rows, s) ==
  /\ s \in rows.sessions <=> s \in rows.segments
  /\ s \in rows.sessions <=> rows.analyses[s] # "none"
  /\ rows.status[s] # "none" <=> (rows.analyses[s] = "items" /\ s \notin legacy)

WholeSessions == \A s \in Ids : WholeAt(db, s)

\* "sessions with started_at before (today - retention_days) are purged" (config.py:210), where today
\* is a local date and started_at is in UTC: nothing goes that is not older than retention_days less
\* what the zone is ahead of UTC, neither what is logged while the purge runs nor what a slow purge
\* finds at midnight.  No more is true of the code: at UTC+12 with retention_days = 1 what was
\* logged at 18:00 UTC is purged 18 hours later.
OldEnough(age) == age > Keep * DayLength - Offset

RecentKept ==
  [][\A s \in db.sessions \ db'.sessions : OldEnough(clock - began[s])]_vars

\* An operation that got past the migrations finds every table and column it uses.
TablesPresent ==
  /\ \A n \in 1..version : n \in applied
  /\ \A c \in Clients : pc[c] \notin {"idle", "open", "ddl", "bump"} => applied = Migrations

\* The schema version never goes back, however many processes migrate at once.
VersionGrows == [][version' >= version]_vars

\* Two processes that create or upgrade the database at the same time may fail, but leave it usable:
\* only a process killed between the ALTER TABLE of migration 4 and the version behind it leaves a
\* database that no process can ever open.
Unusable ==
  /\ 4 \in applied /\ version < 4
  /\ \A c \in Clients : ~(pc[c] = "bump" /\ at[c] = 3)

UnusableOnlyByCrash == Unusable => crashes > 0

\* get_session_detail does not read in one transaction; still, what it returns of a session is the
\* whole of it, unless the session has been purged meanwhile.
NoTornRead ==
  \A c \in Clients :
    pc[c] = "load" /\ (~detail[c].segments \/ detail[c].analysis = "none") =>
      mine[c] \notin db.sessions

\* action_item_status.json outlives the sessions it speaks of, and is keyed by their ids: a session
\* that is logged never finds a status there that was meant for a purged one.
FreshItemsAreOpen ==
  [][\A s \in db'.sessions \ db.sessions : file[s] = "none"]_vars

\* The log implements the archive: a session is archived when all its rows are committed, and what has
\* been given an id and is not in the log is gone.  A session of which a part is seen would be neither.
Archive == INSTANCE SessionArchive
  WITH archive <- {s \in db.sessions : WholeAt(db, s)}, gone <- (1..db.seq) \ db.sessions

ArchiveSpec == Archive!Spec
=============================================================================
