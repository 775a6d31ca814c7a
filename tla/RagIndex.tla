------------------------------ MODULE RagIndex ------------------------------
(***************************************************************************)
(* The knowledge index: chunks of files in three tables of one SQLite      *)
(* database, brought up to date by voiceforge index, by the one-time index *)
(* of an analysis and by the watcher, while the files change, processes    *)
(* are killed and embedding or parsing fails.                              *)
(*                                                                         *)
(* A chunk has a place: the file and the position in it (page and          *)
(* chunk_index in the code).  Nothing in the tables keeps a place from     *)
(* having several rows, the copies, and it gets them when the rows there   *)
(* are could not be read.  Two texts are duplicates when they are equal    *)
(* (cosine similarity of at least 0.95).  One process indexes at a time; a *)
(* statement of SQLite that fails half-way is left out.                    *)
(***************************************************************************)
EXTENDS Naturals, Sequences, FiniteSets

CONSTANTS
  Files,     \* files of the knowledge base
  Watched,   \* those the watcher looks after: PDFs
  Contents,  \* what a file may say: sequences of texts
  Says,      \* bound: file -> which of them it says
  MaxCopies, \* bound: rows of one place
  MaxUnseen, \* bound: times that the rows are there and cannot be read
  Gone,      \* a file that is not there
  NoText, NoFile

ASSUME WatchedAssumption == Watched \subseteq Files
ASSUME NoFileAssumption == NoFile \notin Files
ASSUME SaysAssumption == Says \in [Files -> SUBSET Contents]
ASSUME BoundsAssumption == MaxCopies \in Nat \ {0} /\ MaxUnseen \in Nat
ASSUME ContentsAssumption ==
  /\ Gone \notin Contents
  /\ \A c \in Contents : Len(c) \in Nat /\ \A n \in 1..Len(c) : c[n] # NoText

VARIABLES
  content,   \* file -> what it says now
  db, work,  \* the committed tables, and those of the open transaction
  by,        \* who indexes
  pc,        \* where: "idle", "file", "apply", "record" or "next"
  at,        \* the file being indexed
  todo,      \* what is left of its plan
  left,      \* directory: files still to look at
  kept,      \* directory: files indexed
  autoDone,  \* the one-time index has left its mark
  watching,  \* is the watcher running?
  worker,    \* is its worker thread alive?
  pending,   \* its files with an event not yet dealt with
  batch,     \* those the worker has taken out of pending
  sha, read, \* what the file being indexed said when it was hashed, and when parsed
  recorded,  \* indexed_files: file -> the hash recorded
  excused,   \* history: file -> may its index be behind?  A change no event told of,
             \* an error, a read that raced a change, rows not seen, another indexer
  unseen     \* times that rows were not seen

indexing == <<by, pc, at, todo, left, kept, sha, read>>
watcher == <<watching, worker, pending, batch, recorded>>
vars == <<content, db, work, indexing, autoDone, watcher, excused, unseen>>

Last == CHOOSE n \in {Len(c) : c \in Contents} : \A c \in Contents : Len(c) <= n
Places == 1..Last
Copies == 1..MaxCopies
Keys == Files \X Places \X Copies
Plan == [kind : {"delete", "update", "add"}, place : Places, copy : Copies]

NoRows == [chunks |-> [k \in Keys |-> NoText], vec |-> [k \in Keys |-> NoText], fts |-> {}]

Init ==
  /\ content \in [Files -> Contents \cup {Gone}] /\ \A f \in Files : content[f] \in Says[f] \cup {Gone}
  /\ db = NoRows /\ work = NoRows
  /\ by = "nobody" /\ pc = "idle" /\ at = NoFile /\ todo = {} /\ left = {} /\ kept = {}
  /\ autoDone \in BOOLEAN
  /\ watching = FALSE /\ worker = FALSE /\ pending = {} /\ batch = {} /\ sha = Gone /\ read = Gone
  /\ recorded = [f \in Watched |-> Gone]
  /\ excused = [f \in Watched |-> FALSE] /\ unseen = 0

Excuse(fs) == excused' = [f \in Watched |-> excused[f] \/ f \in fs]

-----------------------------------------------------------------------------
(* The tables.                                                             *)

Delete(rows, k) ==
  [chunks |-> [rows.chunks EXCEPT ![k] = NoText],
   vec    |-> [rows.vec EXCEPT ![k] = NoText],
   fts    |-> {r \in rows.fts : r[1] # k}]

Insert(rows, k, t) ==
  [chunks |-> [rows.chunks EXCEPT ![k] = t],
   vec    |-> [rows.vec EXCEPT ![k] = t],
   fts    |-> rows.fts \cup {<<k, t>>}]

\* Faulty variant: an update forgets the row of the old text.
Updated_keeps_fts(rows, k, t) == Insert(rows, k, t)

Updated(rows, k, t) == Insert(Delete(rows, k), k, t)

\* The nearest vector of the whole index is as good as equal.
IsDuplicate(rows, t) == \E k \in Keys : rows.vec[k] = t

HasRow(rows, f, n, j) == rows.chunks[<<f, n, j>>] # NoText

\* Has a place of f several rows?
Doubled(rows, f) == \E n \in Places : \E i, j \in Copies : i # j /\ HasRow(rows, f, n, i) /\ HasRow(rows, f, n, j)

\* What get_existing_chunks sees of a file: for each place the one row that plan_diff will know of,
\* whichever of them comes last, or 0.
Views(f) ==
  {view \in [Places -> 0..MaxCopies] :
     \A n \in Places : IF view[n] = 0 THEN \A j \in Copies : ~HasRow(work, f, n, j)
                                     ELSE HasRow(work, f, n, view[n])}

\* An OperationalError, a locked database or the disk say, is taken for a file without chunks.
NoneSeen == [n \in Places |-> 0]

NewCopy(f, n) == CHOOSE j \in Copies : ~HasRow(work, f, n, j)

\* plan_diff, by place; a PDF always has pages, another file may have no section.
PlanDiff(f, c, view) ==
  {p \in Plan :
     LET there == p.place <= Len(c)  seen == view[p.place]
     IN  CASE p.kind = "delete" -> p.copy = seen /\ ~there
           [] p.kind = "update" -> p.copy = seen /\ there /\ c[p.place] # work.chunks[<<f, p.place, p.copy>>]
           [] p.kind = "add"    -> seen = 0 /\ there /\ p.copy = NewCopy(f, p.place)}

NoSections(f, c) == c = <<>> /\ f \notin Watched

\* Deletions, then updates, then additions.
Before(p, q) ==
  LET rank == [delete |-> 1, update |-> 2, add |-> 3]
  IN  rank[p.kind] < rank[q.kind] \/ (p.kind = q.kind /\ p.place <= q.place)

IsNext(p) == p \in todo /\ \A q \in todo : Before(p, q)

-----------------------------------------------------------------------------
(* The files.                                                              *)

\* Written, or just touched, with an event; a rename over a file raises none the
\* watcher handles.
Change(f) ==
  \E c \in Says[f], seen \in {watching, FALSE} :
    /\ content' = [content EXCEPT ![f] = c]
    /\ IF seen /\ f \in Watched THEN pending' = pending \cup {f} /\ UNCHANGED excused
       ELSE c # content[f] /\ Excuse({f}) /\ UNCHANGED pending
    /\ UNCHANGED <<db, work, indexing, autoDone, watching, worker, batch, recorded, unseen>>

Remove(f) ==
  /\ content[f] # Gone /\ content' = [content EXCEPT ![f] = Gone]
  /\ UNCHANGED <<db, work, indexing, autoDone, watcher, excused, unseen>>

-----------------------------------------------------------------------------
(* One file: add_file.                                                     *)

Starts(who, l, f) ==
  /\ by = "nobody" /\ by' = who /\ pc' = l /\ at' = f
  /\ UNCHANGED <<content, db, work, todo, read, autoDone, unseen>>

Ends ==
  /\ by' = "nobody" /\ pc' = "idle" /\ at' = NoFile /\ todo' = {} /\ left' = {} /\ kept' = {}
  /\ sha' = Gone /\ read' = Gone

\* To the next step of whoever indexes: the file has been dealt with.
FileDone ==
  CASE by = "watcher"   -> pc' = "record" /\ UNCHANGED <<by, at, todo, left, kept, sha, read>>
    [] by = "file"      -> Ends
    [] by \in {"directory", "auto"} ->
         /\ pc' = "next" /\ at' = NoFile /\ kept' = kept \cup {at} /\ read' = Gone
         /\ UNCHANGED <<by, todo, left, sha>>

\* The parser reads the file, and the plan compares it with the rows there are, or with none.
Parse ==
  /\ pc = "file" /\ content[at] # Gone
  /\ IF NoSections(at, content[at])
     THEN /\ FileDone /\ Excuse(IF by = "watcher" /\ content[at] # sha THEN {at} ELSE {})
          /\ UNCHANGED unseen
     ELSE \E view \in Views(at) \cup {NoneSeen} :
            /\ IF view \in Views(at) THEN UNCHANGED unseen
               ELSE /\ unseen < MaxUnseen /\ unseen' = unseen + 1
                    /\ \A n \in Places : \E j \in Copies : ~HasRow(work, at, n, j)      \* MaxCopies
            /\ pc' = "apply" /\ todo' = PlanDiff(at, content[at], view)
            /\ read' = content[at] /\ UNCHANGED <<by, at, left, kept, sha>>
            /\ Excuse(IF view \notin Views(at) \/ (by = "watcher" /\ content[at] # sha) THEN {at} ELSE {})
  /\ UNCHANGED <<content, db, work, autoDone, watcher>>

\* One chunk of the plan; a new text that is there already is left out.
Apply ==
  /\ pc = "apply"
  /\ \E p \in todo :
       /\ IsNext(p) /\ todo' = todo \ {p}
       /\ LET k == <<at, p.place, p.copy>>  t == read[p.place]
          IN  work' = CASE p.kind = "delete" -> Delete(work, k)
                        [] p.kind = "update" -> Updated(work, k, t)
                        [] p.kind = "add" /\ IsDuplicate(work, t) -> work
                        [] OTHER -> Insert(work, k, t)
  /\ UNCHANGED <<content, db, by, pc, at, left, kept, sha, read, autoDone, watcher, excused, unseen>>

Commit ==
  /\ pc = "apply" /\ todo = {}
  /\ db' = work /\ FileDone
  /\ UNCHANGED <<content, work, autoDone, watcher, excused, unseen>>

\* Parsing or embedding raises: the watcher and index FILE give up and drop the
\* transaction; a directory goes on with the next file and the same transaction.
FileFails ==
  /\ \/ pc = "file"
     \/ pc = "apply" /\ \E p \in todo : IsNext(p) /\ p.kind # "delete"
  /\ todo' = {}
  /\ IF by \in {"watcher", "file"} THEN Ends /\ work' = db
     ELSE pc' = "next" /\ at' = NoFile /\ read' = Gone /\ UNCHANGED <<by, left, kept, sha, work>>
  /\ Excuse({at})
  /\ UNCHANGED <<content, db, autoDone, watcher, unseen>>

-----------------------------------------------------------------------------
(* voiceforge index, and the one-time index of run_analyze_pipeline.       *)

IndexFile(f) ==
  /\ content[f] # Gone
  /\ Starts("file", "file", f) /\ Excuse({f})
  /\ UNCHANGED <<left, kept, sha, watcher>>

IndexDirectory ==
  /\ Starts("directory", "next", NoFile) /\ left' = Files /\ kept' = {}
  /\ UNCHANGED <<sha, watcher, excused>>

\* Its mark names the directory it has indexed.
AutoIndex ==
  /\ ~autoDone
  /\ Starts("auto", "next", NoFile) /\ left' = Files /\ kept' = {}
  /\ UNCHANGED <<sha, watcher, excused>>

\* What is not a file any more is passed over.
NextFile ==
  /\ pc = "next"
  /\ \E f \in left :
       /\ left' = left \ {f}
       /\ IF content[f] = Gone THEN UNCHANGED <<pc, at, excused>>
          ELSE pc' = "file" /\ at' = f /\ Excuse({f})
  /\ UNCHANGED <<content, db, work, by, todo, kept, sha, read, autoDone, watcher, unseen>>

\* The files that were not indexed, for whatever reason, lose their chunks, and
\* this commits what a failed file has left in the transaction.
Prune ==
  /\ pc = "next" /\ by = "directory" /\ left = {}
  /\ work' = [chunks |-> [k \in Keys |-> IF k[1] \in kept THEN work.chunks[k] ELSE NoText],
              vec    |-> [k \in Keys |-> IF k[1] \in kept THEN work.vec[k] ELSE NoText],
              fts    |-> {r \in work.fts : r[1][1] \in kept}]
  /\ db' = work'
  /\ Ends /\ Excuse(Files \ kept)
  /\ UNCHANGED <<content, autoDone, watcher, unseen>>

\* No pruning; the connection is closed without a commit.
AutoIndexed ==
  /\ pc = "next" /\ by = "auto" /\ left = {}
  /\ work' = db /\ autoDone' = TRUE
  /\ Ends
  /\ UNCHANGED <<content, db, watcher, excused, unseen>>

\* Also what becomes of the subprocess of the daemon's IndexPaths after 300 s.
Kill ==
  /\ by \in {"file", "directory", "auto"}
  /\ work' = db /\ Ends
  /\ UNCHANGED <<content, db, autoDone, watcher, excused, unseen>>

-----------------------------------------------------------------------------
(* The watcher.                                                            *)

Watch ==
  /\ ~watching /\ watching' = TRUE /\ worker' = TRUE
  /\ UNCHANGED <<content, db, work, indexing, autoDone, pending, batch, recorded, excused, unseen>>

\* Stopped or killed: events not dealt with are lost.
WatchEnds ==
  /\ watching /\ watching' = FALSE /\ worker' = FALSE
  /\ pending' = {} /\ batch' = {}
  /\ Excuse(pending \cup batch \cup (IF by = "watcher" THEN {at} ELSE {}))
  /\ IF by = "watcher" THEN Ends /\ work' = db ELSE UNCHANGED <<work, indexing>>
  /\ UNCHANGED <<content, db, autoDone, recorded, unseen>>

\* The files left alone for debounce_sec.
TakeBatch ==
  /\ worker /\ by # "watcher" /\ batch = {}
  /\ \E fs \in SUBSET pending \ {{}} : batch' = fs /\ pending' = pending \ fs
  /\ UNCHANGED <<content, db, work, indexing, autoDone, watching, worker, recorded, excused, unseen>>

\* Not there, or unchanged.
Ignore(f) ==
  /\ by # "watcher" /\ f \in batch /\ batch' = batch \ {f}
  /\ content[f] = Gone \/ recorded[f] = content[f]
  /\ UNCHANGED <<content, db, work, indexing, autoDone, watching, worker, pending, recorded, excused, unseen>>

\* Connecting, or looking for the hash recorded, raises outside every try: the worker ends, and with
\* it what is left of its batch.  Watching goes on, and nobody will take the events out of pending.
WorkerDies ==
  /\ by # "watcher" /\ batch # {}
  /\ worker' = FALSE /\ batch' = {} /\ Excuse(batch)
  /\ UNCHANGED <<content, db, work, indexing, autoDone, watching, pending, recorded, unseen>>

\* What has been amiss is put right, but where a place has several rows.
IndexIfNeeded(f) ==
  /\ Starts("watcher", "file", f)
  /\ f \in batch /\ batch' = batch \ {f}
  /\ content[f] # Gone /\ recorded[f] # content[f] /\ sha' = content[f]
  /\ excused' = [excused EXCEPT ![f] = Doubled(db, f)]
  /\ UNCHANGED <<left, kept, watching, worker, pending, recorded>>

\* Faulty variant: the hash is taken when it is recorded.
Record_hashes_late ==
  /\ pc = "record" /\ content[at] # Gone
  /\ recorded' = [recorded EXCEPT ![at] = content[at]]
  /\ Ends
  /\ UNCHANGED <<content, db, work, autoDone, watching, worker, pending, batch, excused, unseen>>

\* Recorded, or not: the database is locked, say.
Record ==
  /\ pc = "record"
  /\ \/ recorded' = [recorded EXCEPT ![at] = sha] /\ UNCHANGED excused
     \/ UNCHANGED recorded /\ Excuse({at})
  /\ Ends
  /\ UNCHANGED <<content, db, work, autoDone, watching, worker, pending, batch, unseen>>

-----------------------------------------------------------------------------
Next ==
  \/ \E f \in Files : Change(f) \/ Remove(f) \/ IndexFile(f)
  \/ \E f \in Watched : Ignore(f) \/ IndexIfNeeded(f)
  \/ Parse \/ Apply \/ Commit \/ FileFails
  \/ IndexDirectory \/ AutoIndex \/ NextFile \/ Prune \/ AutoIndexed \/ Kill
  \/ Watch \/ TakeBatch \/ WorkerDies \/ WatchEnds \/ Record

Spec == Init /\ [][Next]_vars

-----------------------------------------------------------------------------
(* Properties.                                                             *)

\* "Delete one chunk from chunks, vec_chunks (by rowid), fts_chunks (by
\* chunk_id)" (incremental.py:115): at every commit, also of what a failed file
\* left behind, the three tables hold the same chunks with the same texts, so
\* neither half of a search names a chunk that is gone or says something else.
TablesAgree ==
  /\ db.vec = db.chunks
  /\ db.fts = {<<k, db.chunks[k]>> : k \in {k \in Keys : db.chunks[k] # NoText}}

\* "auto-index PDFs on create/modify. Debounce 3 sec, SHA-256 dedup"
\* (watcher.py:1): a PDF with no event outstanding is not found by text it no
\* longer has, however its changes raced the watcher; unless a change raised no
\* event, an attempt failed or the worker died before it, the file changed between
\* hash and parse, someone else indexed it, or its rows were once not seen: from
\* then on as long as a place of it has two rows, and to the next attempt.
NoStaleText ==
  \A f \in Watched :
    watching /\ f \notin pending \cup batch /\ at # f /\ ~excused[f] /\ content[f] # Gone =>
      \A n \in Places, j \in Copies :
        HasRow(db, f, n, j) => n <= Len(content[f]) /\ db.chunks[<<f, n, j>>] = content[f][n]
=============================================================================
