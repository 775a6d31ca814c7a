-------------------------- MODULE RagIndex_proofs --------------------------
(***************************************************************************)
(* Proofs about RagIndex, for any files and contents, watched or not.      *)
(***************************************************************************)
EXTENDS RagIndex, TLAPS

Texts == UNION {{c[n] : n \in 1..Len(c)} : c \in Contents}
Columns == [Keys -> Texts \cup {NoText}]

Put(f, k, t) == [f EXCEPT ![k] = t]

\* The three tables hold the same.
Agree(rows) ==
  /\ rows.chunks \in Columns /\ rows.vec = rows.chunks
  /\ rows.fts = {<<k, rows.chunks[k]>> : k \in {k \in Keys : rows.chunks[k] # NoText}}

Tables == Agree(db) /\ Agree(work)

\* Who indexes is somewhere, and where a file is indexed there is one.
Placed ==
  /\ content \in [Files -> Contents \cup {Gone}]
  /\ by \in {"nobody", "file", "directory", "auto", "watcher"}
  /\ by = "nobody" <=> pc = "idle"
  /\ pc \in {"file", "apply"} => at \in Files
  /\ pc = "apply" => read \in Contents
  /\ pc # "apply" => todo = {}
  /\ left \subseteq Files

\* What is left of a plan has one entry for a place; what it writes is there to be read,
\* and what it adds has no rows yet.
Planned ==
  /\ todo \subseteq Plan
  /\ \A p, q \in todo : p.place = q.place => p = q
  /\ \A p \in todo : p.kind \in {"update", "add"} => p.place <= Len(read)
  /\ \A p \in todo : p.kind = "add" => work.chunks[<<at, p.place, p.copy>>] = NoText

IInv == Tables /\ Placed /\ Planned

-----------------------------------------------------------------------------
(* The tables. *)

\* Without its row a chunk is in no table, whatever they held of it.
LEMMA DeleteAgrees ==
  ASSUME NEW rows, Agree(rows), NEW k \in Keys
  PROVE  /\ Agree(Delete(rows, k))
         /\ Delete(rows, k).chunks = Put(rows.chunks, k, NoText)
<1> DEFINE r == Delete(rows, k)
<1>1. /\ r.chunks = Put(rows.chunks, k, NoText)
      /\ r.vec = [rows.vec EXCEPT ![k] = NoText]
      /\ r.fts = {x \in rows.fts : x[1] # k}
  BY DEF Delete, Put
<1> HIDE DEF r
<1>2. r.chunks \in Columns /\ r.vec = r.chunks
  BY <1>1 DEF Agree, Columns, Put
<1>3. r.fts = {<<j, r.chunks[j]>> : j \in {j \in Keys : r.chunks[j] # NoText}}
  BY <1>1 DEF Agree, Columns, Put
<1>4. QED
  BY <1>1, <1>2, <1>3 DEF Agree, r

\* Rows of a chunk that had none.
LEMMA InsertAgrees ==
  ASSUME NEW rows, Agree(rows), NEW k \in Keys, rows.chunks[k] = NoText,
         NEW t \in Texts, t # NoText
  PROVE  /\ Agree(Insert(rows, k, t))
         /\ Insert(rows, k, t).chunks = Put(rows.chunks, k, t)
<1> DEFINE r == Insert(rows, k, t)
<1>1. /\ r.chunks = Put(rows.chunks, k, t)
      /\ r.vec = [rows.vec EXCEPT ![k] = t]
      /\ r.fts = rows.fts \cup {<<k, t>>}
  BY DEF Insert, Put
<1> HIDE DEF r
<1>2. r.chunks \in Columns /\ r.vec = r.chunks
  BY <1>1 DEF Agree, Columns, Put
<1>3. r.fts = {<<j, r.chunks[j]>> : j \in {j \in Keys : r.chunks[j] # NoText}}
  BY <1>1 DEF Agree, Columns, Put
<1>4. QED
  BY <1>1, <1>2, <1>3 DEF Agree, r

LEMMA UpdatedAgrees ==
  ASSUME NEW rows, Agree(rows), NEW k \in Keys, NEW t \in Texts, t # NoText
  PROVE  /\ Agree(Updated(rows, k, t))
         /\ Updated(rows, k, t).chunks = Put(rows.chunks, k, t)
<1> DEFINE r == Delete(rows, k)
<1>1. Agree(r) /\ r.chunks = Put(rows.chunks, k, NoText)
  BY DeleteAgrees
<1> HIDE DEF r
<1>2. r.chunks[k] = NoText
  BY <1>1 DEF Agree, Columns, Put
<1>3. /\ Agree(Insert(r, k, t))
      /\ Insert(r, k, t).chunks = Put(r.chunks, k, t)
  BY <1>1, <1>2, InsertAgrees
<1>4. Put(r.chunks, k, t) = Put(rows.chunks, k, t)
  BY <1>1 DEF Agree, Columns, Put
<1>5. QED
  BY <1>3, <1>4 DEF Updated, r

-----------------------------------------------------------------------------
(* The steps. *)

LEMMA InitHolds == Init => IInv
<1> SUFFICES ASSUME Init PROVE IInv
  OBVIOUS
<1>1. Agree(NoRows)
  BY DEF NoRows, Agree, Columns
<1>2. Tables
  BY <1>1 DEF Init, Tables
<1>3. Placed /\ Planned
  BY DEF Init, Placed, Planned
<1>4. QED
  BY <1>2, <1>3 DEF IInv

\* One entry of the plan, done: the row at its place is gone, or holds the text that was
\* parsed, or is still missing because the text is there already.
Done(p) ==
  LET k == <<at, p.place, p.copy>>  t == read[p.place]
  IN  /\ todo' = todo \ {p}
      /\ k \in Keys
      /\ IF p.kind = "delete" THEN work'.chunks = Put(work.chunks, k, NoText)
         ELSE /\ p.place <= Len(read)
              /\ \/ work'.chunks = Put(work.chunks, k, t)
                 \/ work.chunks[k] = NoText /\ work' = work

LEMMA Applied ==
  ASSUME IInv, Apply
  PROVE  Agree(work') /\ \E p \in todo : Done(p)
<1>1. PICK p \in todo :
        /\ todo' = todo \ {p}
        /\ work' = CASE p.kind = "delete" -> Delete(work, <<at, p.place, p.copy>>)
                     [] p.kind = "update" -> Updated(work, <<at, p.place, p.copy>>, read[p.place])
                     [] p.kind = "add" /\ IsDuplicate(work, read[p.place]) -> work
                     [] OTHER -> Insert(work, <<at, p.place, p.copy>>, read[p.place])
  BY DEF Apply
<1>2. at \in Files /\ read \in Contents
  BY DEF Apply, IInv, Placed
<1> DEFINE k == <<at, p.place, p.copy>>  t == read[p.place]
<1>3. p \in Plan /\ k \in Keys
  BY <1>1, <1>2 DEF IInv, Planned, Plan, Keys
<1>4. p.kind # "delete" => t \in Texts /\ t # NoText /\ p.place <= Len(read)
  <2> SUFFICES ASSUME p.kind # "delete" PROVE t \in Texts /\ t # NoText /\ p.place <= Len(read)
    OBVIOUS
  <2>1. Len(read) \in Nat /\ \A n \in 1..Len(read) : read[n] # NoText
    BY <1>2, ContentsAssumption
  <2>2. p.place <= Len(read) /\ p.place \in Places
    BY <1>1, <1>3 DEF IInv, Planned, Plan
  <2>3. p.place \in 1..Len(read)
    BY <2>1, <2>2 DEF Places
  <2>4. QED
    BY <2>1, <2>2, <2>3, <1>2 DEF Texts
<1>5. Agree(work') /\ Done(p)
  <2>1. CASE p.kind = "delete"
    BY <2>1, <1>1, <1>3, DeleteAgrees DEF IInv, Tables, Done
  <2>2. CASE p.kind = "update"
    BY <2>2, <1>1, <1>3, <1>4, UpdatedAgrees DEF IInv, Tables, Done
  <2>3. CASE p.kind = "add"
    <3>1. work.chunks[k] = NoText
      BY <2>3, <1>1 DEF IInv, Planned
    <3>2. CASE IsDuplicate(work, t)
      BY <2>3, <3>1, <3>2, <1>1, <1>3, <1>4 DEF IInv, Tables, Done
    <3>3. CASE ~IsDuplicate(work, t)
      <4>1. work' = Insert(work, k, t)
        BY <2>3, <3>3, <1>1
      <4>2. QED
        BY <2>3, <3>1, <4>1, <1>1, <1>3, <1>4, InsertAgrees DEF IInv, Tables, Done
    <3>4. QED
      BY <3>2, <3>3
  <2>4. QED
    BY <2>1, <2>2, <2>3, <1>3 DEF Plan
<1>6. QED
  BY <1>1, <1>5

LEMMA ApplyKeeps ==
  ASSUME IInv, Apply
  PROVE  IInv'
<1>1. PICK p \in todo : Done(p)
  BY Applied
<1>2. pc = "apply" /\ at \in Files /\ UNCHANGED <<content, db, by, pc, at, read, left>>
  BY DEF Apply, IInv, Placed
<1>3. Tables'
  BY <1>2, Applied DEF IInv, Tables, Agree
<1>4. Placed'
  BY <1>1, <1>2 DEF IInv, Placed, Done
<1>5. Planned'
  <2>1. \A q \in todo' : q \in todo /\ q \in Plan /\ q.place # p.place
    BY <1>1 DEF IInv, Planned, Done
  <2>2. \A q \in todo' : work'.chunks[<<at, q.place, q.copy>>] = work.chunks[<<at, q.place, q.copy>>]
    BY <2>1, <1>1, <1>2 DEF IInv, Tables, Agree, Columns, Put, Plan, Keys, Done
  <2>3. QED
    BY <2>1, <2>2, <1>1, <1>2 DEF IInv, Planned, Done
<1>6. QED
  BY <1>3, <1>4, <1>5 DEF IInv

\* A plan has one entry for a place.
LEMMA OnePlan ==
  ASSUME NEW f, NEW c, NEW view, NEW p \in PlanDiff(f, c, view), NEW q \in PlanDiff(f, c, view),
         p.place = q.place, view[p.place] \in 0..MaxCopies
  PROVE  p = q
<1>1. p \in Plan /\ q \in Plan
  BY DEF PlanDiff
<1>2. p.copy # 0 /\ q.copy # 0
  BY <1>1, BoundsAssumption DEF Plan, Copies
<1>3. p.kind = q.kind /\ p.copy = q.copy
  BY <1>1, <1>2 DEF PlanDiff, Plan
<1>4. QED
  BY <1>1, <1>3 DEF Plan

\* A new row takes a copy of its place that has none.
LEMMA AddsFree ==
  ASSUME NEW f, NEW c, NEW view \in Views(f) \cup {NoneSeen},
         view \notin Views(f) => \A n \in Places : \E j \in Copies : ~HasRow(work, f, n, j),
         NEW p \in PlanDiff(f, c, view), p.kind = "add"
  PROVE  work.chunks[<<f, p.place, p.copy>>] = NoText
<1>1. p \in Plan /\ p.place \in Places /\ view[p.place] = 0 /\ p.copy = NewCopy(f, p.place)
  BY DEF PlanDiff, Plan
<1>2. 1 \in Copies
  BY BoundsAssumption DEF Copies
<1>3. \E j \in Copies : ~HasRow(work, f, p.place, j)
  BY <1>1, <1>2 DEF Views
<1>4. ~HasRow(work, f, p.place, NewCopy(f, p.place))
  BY <1>3 DEF NewCopy
<1>5. QED
  BY <1>1, <1>4 DEF HasRow

\* The plan is made from the committed and uncommitted rows of this process, and nothing
\* else touches them until it is done.
LEMMA ParseKeeps ==
  ASSUME IInv, Parse
  PROVE  IInv'
<1> USE DEF IInv, Parse
<1>1. Tables'
  BY DEF Tables, Agree
<1>2. pc = "file" /\ at \in Files /\ content[at] \in Contents /\ UNCHANGED <<content, work>>
  BY DEF Placed
<1>3. CASE NoSections(at, content[at])
  <2>1. FileDone /\ by # "nobody"
    BY <1>2, <1>3 DEF Placed
  <2>2. /\ todo' = {} /\ pc' \in {"record", "idle", "next"}
        /\ by' \in {"nobody", "file", "directory", "auto", "watcher"}
        /\ by' = "nobody" <=> pc' = "idle"
        /\ left' \subseteq Files
    BY <1>2, <2>1 DEF FileDone, Ends, Placed
  <2>3. QED
    BY <1>1, <1>2, <2>2 DEF Placed, Planned
<1>4. CASE ~NoSections(at, content[at])
  <2>1. PICK view \in Views(at) \cup {NoneSeen} :
          /\ view \notin Views(at) => \A n \in Places : \E j \in Copies : ~HasRow(work, at, n, j)
          /\ pc' = "apply" /\ todo' = PlanDiff(at, content[at], view) /\ read' = content[at]
          /\ UNCHANGED <<by, at, left>>
    BY <1>4
  <2>2. Placed'
    BY <1>2, <2>1 DEF Placed
  <2>3. Planned'
    <3> DEFINE c == content[at]
    <3>1. \A p \in todo' : /\ p \in Plan /\ p \in PlanDiff(at, c, view)
                           /\ p.kind \in {"update", "add"} => p.place <= Len(c)
      BY <2>1 DEF PlanDiff, Plan
    <3>2. \A p \in todo' : p.kind = "add" => work.chunks[<<at, p.place, p.copy>>] = NoText
      BY <2>1, <3>1, AddsFree
    <3>3. view \in [Places -> 0..MaxCopies]
      BY <2>1, BoundsAssumption DEF Views, NoneSeen
    <3>4. \A p, q \in todo' : p.place = q.place => p = q
      BY <2>1, <3>1, <3>3, OnePlan DEF Plan
    <3>5. QED
      BY <1>2, <2>1, <3>1, <3>2, <3>4 DEF Planned
  <2>4. QED
    BY <1>1, <2>2, <2>3
<1>5. QED
  BY <1>3, <1>4

\* A file is done with, or given up; what it leaves in the transaction agrees.
LEMMA FileEndsKeep ==
  ASSUME IInv, Commit \/ FileFails
  PROVE  IInv'
<1> USE DEF IInv, Commit, FileFails, Ends
<1>1. by # "nobody" /\ pc \in {"file", "apply"} /\ content' = content
  BY DEF Placed
<1>2. Tables'
  BY DEF Tables, Agree
<1>3. /\ todo' = {} /\ pc' \in {"record", "idle", "next"}
      /\ by' \in {"nobody", "file", "directory", "auto", "watcher"}
      /\ by' = "nobody" <=> pc' = "idle"
      /\ left' \subseteq Files
  BY <1>1 DEF FileDone, Placed
<1>4. QED
  BY <1>1, <1>2, <1>3 DEF Placed, Planned

LEMMA StartsKeeps ==
  ASSUME IInv, NEW who \in {"file", "directory", "auto", "watcher"}, NEW l, NEW f,
         Starts(who, l, f), l = "next" \/ (l = "file" /\ f \in Files), left' \subseteq Files
  PROVE  IInv'
<1> USE DEF IInv, Starts
<1>1. todo = {} /\ pc' = l /\ at' = f /\ by' = who /\ UNCHANGED <<content, db, work, todo>>
  BY DEF Placed
<1>2. Tables'
  BY <1>1 DEF Tables, Agree
<1>3. Placed'
  BY <1>1 DEF Placed
<1>4. Planned'
  BY <1>1 DEF Planned
<1>5. QED
  BY <1>2, <1>3, <1>4

LEMMA DirectoryKeeps ==
  ASSUME IInv, NextFile \/ Prune \/ AutoIndexed
  PROVE  IInv'
<1> USE DEF IInv
<1>1. CASE NextFile
  <2>1. /\ pc = "next" /\ UNCHANGED <<content, db, work, by, todo, read>>
        /\ left' \subseteq left
        /\ pc' = "next" \/ (pc' = "file" /\ at' \in left)
    BY <1>1 DEF NextFile
  <2>2. pc' = "file" => at' \in Files
    BY <1>1, <2>1 DEF NextFile, Placed
  <2>3. Tables' /\ Planned'
    BY <2>1 DEF Tables, Agree, Placed, Planned
  <2>4. QED
    BY <2>1, <2>2, <2>3 DEF Placed
<1>2. CASE Prune
  <2>1. /\ work' = [chunks |-> [k \in Keys |-> IF k[1] \in kept THEN work.chunks[k] ELSE NoText],
                    vec    |-> [k \in Keys |-> IF k[1] \in kept THEN work.vec[k] ELSE NoText],
                    fts    |-> {r \in work.fts : r[1][1] \in kept}]
        /\ db' = work'
    BY <1>2 DEF Prune
  <2>2. work'.chunks \in Columns /\ work'.vec = work'.chunks
    BY <2>1 DEF Tables, Agree, Columns
  <2>3. work'.fts = {<<k, work'.chunks[k]>> : k \in {k \in Keys : work'.chunks[k] # NoText}}
    BY <2>1 DEF Tables, Agree, Columns
  <2>4. Tables'
    BY <2>1, <2>2, <2>3 DEF Tables, Agree
  <2>5. Placed' /\ Planned'
    BY <1>2 DEF Prune, Ends, Placed, Planned
  <2>6. QED
    BY <2>4, <2>5
<1>3. CASE AutoIndexed
  BY <1>3 DEF AutoIndexed, Ends, Tables, Agree, Placed, Planned
<1>4. QED
  BY <1>1, <1>2, <1>3

\* Killed, stopped or finished: what is not committed is gone.
LEMMA IndexerEndsKeeps ==
  ASSUME IInv, Kill \/ WatchEnds \/ Record
  PROVE  IInv'
<1> USE DEF IInv, Kill, WatchEnds, Record
<1>1. Tables'
  BY DEF Tables, Agree, indexing
<1>2. CASE UNCHANGED <<work, indexing>> /\ UNCHANGED content
  BY <1>1, <1>2 DEF indexing, Placed, Planned
<1>3. CASE Ends /\ UNCHANGED content
  BY <1>1, <1>3 DEF Ends, Placed, Planned
<1>4. QED
  BY <1>2, <1>3

\* The files and the watcher's events do not touch the index.
LEMMA OutsideKeeps ==
  ASSUME IInv, \/ \E f \in Files : Change(f) \/ Remove(f)
               \/ \E f \in Watched : Ignore(f)
               \/ Watch \/ TakeBatch \/ WorkerDies
  PROVE  IInv'
<1> USE DEF IInv
<1>1. UNCHANGED <<db, work, indexing>>
  BY DEF Change, Remove, Ignore, Watch, TakeBatch, WorkerDies
<1>2. content' \in [Files -> Contents \cup {Gone}]
  BY SaysAssumption DEF Change, Remove, Ignore, Watch, TakeBatch, WorkerDies, Placed
<1>3. QED
  BY <1>1, <1>2 DEF indexing, Tables, Agree, Placed, Planned

LEMMA NextKeeps == IInv /\ [Next]_vars => IInv'
<1> SUFFICES ASSUME IInv, [Next]_vars PROVE IInv'
  OBVIOUS
<1>1. CASE UNCHANGED vars
  BY <1>1 DEF vars, indexing, IInv, Tables, Agree, Placed, Planned
<1>2. ASSUME NEW f \in Files, IndexFile(f) PROVE IInv'
  BY <1>2, StartsKeeps DEF IndexFile, IInv, Placed
<1>3. ASSUME NEW f \in Watched, IndexIfNeeded(f) PROVE IInv'
  BY <1>3, StartsKeeps, WatchedAssumption DEF IndexIfNeeded, IInv, Placed
<1>4. CASE IndexDirectory \/ AutoIndex
  BY <1>4, StartsKeeps DEF IndexDirectory, AutoIndex
<1>5. CASE Parse \/ Apply \/ Commit \/ FileFails
  BY <1>5, ParseKeeps, ApplyKeeps, FileEndsKeep
<1>6. CASE NextFile \/ Prune \/ AutoIndexed
  BY <1>6, DirectoryKeeps
<1>7. CASE Kill \/ WatchEnds \/ Record
  BY <1>7, IndexerEndsKeeps
<1>8. CASE \/ \E f \in Files : Change(f) \/ Remove(f)
           \/ \E f \in Watched : Ignore(f)
           \/ Watch \/ TakeBatch \/ WorkerDies
  BY <1>8, OutsideKeeps
<1>9. QED
  BY <1>1, <1>2, <1>3, <1>4, <1>5, <1>6, <1>7, <1>8 DEF Next

-----------------------------------------------------------------------------
(* What the watcher looks after is current. *)

Fits(rows, f, c) ==
  \A n \in Places, j \in Copies :
    HasRow(rows, f, n, j) => n <= Len(c) /\ rows.chunks[<<f, n, j>>] = c[n]

\* A PDF that nobody indexes: what was recorded of it is what the index has, so is what
\* it says unless an event is outstanding, and no open transaction touches it.
Settled(f) ==
  /\ recorded[f] # Gone => Fits(db, f, recorded[f])
  /\ f \notin pending \cup batch /\ content[f] # Gone => Fits(db, f, content[f])
  /\ \A n \in Places, j \in Copies : work.chunks[<<f, n, j>>] = db.chunks[<<f, n, j>>]

\* A PDF the watcher indexes: it was hashed as it is unless an event is outstanding, and
\* what the plan does not change is as it was parsed, since no place of it has a second row.
BeingIndexed(f) ==
  /\ by = "watcher" /\ pc \in {"file", "apply", "record"}
  /\ f \notin pending /\ content[f] # Gone => content[f] = sha
  /\ pc = "file" => ~Doubled(work, f)
  /\ pc = "apply" =>
       /\ read = sha
       /\ \A n \in Places, j \in Copies :
            HasRow(work, f, n, j) =>
              \/ n <= Len(read) /\ work.chunks[<<f, n, j>>] = read[n]
              \/ \E p \in todo : p.place = n /\ p.copy = j
  /\ pc = "record" => Fits(db, f, sha)

Current ==
  \A f \in Watched :
    ~excused[f] => IF at = f THEN BeingIndexed(f) ELSE Settled(f)

WatcherTyped ==
  /\ excused \in [Watched -> BOOLEAN]
  /\ recorded \in [Watched -> Contents \cup {Gone}]
  /\ sha \in Contents \cup {Gone}
  /\ pc = "next" => by \in {"directory", "auto"}

\* Between transactions there is nothing uncommitted.
NothingOpen ==
  \/ by = "nobody"
  \/ pc = "record"
  \/ pc = "file" /\ by \in {"file", "watcher"}
  => work = db

SInv == IInv /\ WatcherTyped /\ NothingOpen /\ Current

LEMMA SInitHolds == Init => SInv
<1> SUFFICES ASSUME Init PROVE SInv
  OBVIOUS
<1>1. IInv
  BY InitHolds
<1>2. WatcherTyped /\ NothingOpen
  BY DEF Init, WatcherTyped, NothingOpen
<1>3. Current
  <2> SUFFICES ASSUME NEW f \in Watched PROVE at # f /\ Settled(f)
    BY DEF Current
  <2>1. at # f
    BY WatchedAssumption, NoFileAssumption DEF Init
  <2>2. \A n \in Places, j \in Copies : <<f, n, j>> \in Keys
    BY WatchedAssumption DEF Keys
  <2>3. \A n \in Places, j \in Copies : db.chunks[<<f, n, j>>] = NoText /\ work.chunks[<<f, n, j>>] = NoText
    BY <2>2 DEF Init, NoRows
  <2>4. QED
    BY <2>1, <2>3 DEF Settled, Fits, HasRow
<1>4. QED
  BY <1>1, <1>2, <1>3 DEF SInv

\* Every way out of a file, and of an indexer, leaves nothing open behind.
LEMMA WatcherTypedKeeps ==
  ASSUME SInv, [Next]_vars
  PROVE  WatcherTyped'
<1> USE DEF SInv, IInv, Placed, WatcherTyped
<1>1. ASSUME UNCHANGED <<recorded, excused, sha, by, pc>> PROVE WatcherTyped'
  BY <1>1
<1>2. CASE UNCHANGED vars
  BY <1>2 DEF vars, watcher, indexing
<1>3. ASSUME NEW f \in Files, Change(f) \/ Remove(f) PROVE WatcherTyped'
  BY <1>3 DEF Change, Remove, Excuse, watcher, indexing
<1>4. ASSUME NEW f \in Files, IndexFile(f) PROVE WatcherTyped'
  BY <1>4 DEF IndexFile, Starts, Excuse, watcher
<1>5. ASSUME NEW f \in Watched, Ignore(f) PROVE WatcherTyped'
  BY <1>5 DEF Ignore, indexing
<1>6. ASSUME NEW f \in Watched, IndexIfNeeded(f) PROVE WatcherTyped'
  <2>1. Doubled(db, f) \in BOOLEAN
    BY DEF Doubled
  <2>2. QED
    BY <1>6, <2>1, WatchedAssumption DEF IndexIfNeeded, Starts
<1>7. CASE Parse
  BY <1>7 DEF Parse, FileDone, Ends, Excuse, watcher
<1>8. CASE Apply
  BY <1>8 DEF Apply, watcher
<1>9. CASE Commit
  BY <1>9 DEF Commit, FileDone, Ends, watcher
<1>10. CASE FileFails
  BY <1>10 DEF FileFails, Ends, Excuse, watcher
<1>11. CASE IndexDirectory \/ AutoIndex
  BY <1>11 DEF IndexDirectory, AutoIndex, Starts, watcher
<1>12. CASE NextFile
  BY <1>12 DEF NextFile, Excuse, watcher
<1>13. CASE Prune \/ AutoIndexed \/ Kill
  BY <1>13 DEF Prune, AutoIndexed, Kill, Ends, Excuse, watcher
<1>14. CASE Watch \/ TakeBatch \/ WorkerDies \/ WatchEnds
  BY <1>14 DEF Watch, TakeBatch, WorkerDies, WatchEnds, Ends, Excuse, indexing
<1>15. CASE Record
  BY <1>15 DEF Record, Ends, Excuse
<1>16. QED
  BY <1>2, <1>3, <1>4, <1>5, <1>6, <1>7, <1>8, <1>9, <1>10, <1>11, <1>12, <1>13, <1>14, <1>15
  DEF Next

LEMMA NothingOpenKeeps ==
  ASSUME SInv, [Next]_vars
  PROVE  NothingOpen'
<1> USE DEF SInv, IInv, Placed, WatcherTyped, NothingOpen
<1>1. CASE UNCHANGED <<db, work, by, pc>>
  BY <1>1
<1>2. CASE \/ UNCHANGED vars
           \/ \E f \in Files : Change(f) \/ Remove(f)
           \/ \E f \in Watched : Ignore(f)
           \/ Watch \/ TakeBatch \/ WorkerDies
  BY <1>1, <1>2 DEF vars, indexing, Change, Remove, Ignore, Watch, TakeBatch, WorkerDies
<1>3. CASE \/ \E f \in Files : IndexFile(f)
           \/ \E f \in Watched : IndexIfNeeded(f)
           \/ IndexDirectory \/ AutoIndex
  BY <1>3 DEF IndexFile, IndexIfNeeded, IndexDirectory, AutoIndex, Starts
<1>4. CASE Parse
  BY <1>4 DEF Parse, FileDone, Ends
<1>5. CASE Apply
  BY <1>5 DEF Apply
<1>6. CASE Commit
  BY <1>6 DEF Commit
<1>7. CASE FileFails
  BY <1>7 DEF FileFails, Ends
<1>8. CASE NextFile
  BY <1>8 DEF NextFile
<1>9. CASE Prune \/ AutoIndexed \/ Kill
  BY <1>9 DEF Prune, AutoIndexed, Kill
<1>10. CASE WatchEnds
  BY <1>10 DEF WatchEnds, indexing
<1>11. CASE Record
  BY <1>11 DEF Record
<1>12. QED
  BY <1>2, <1>3, <1>4, <1>5, <1>6, <1>7, <1>8, <1>9, <1>10, <1>11 DEF Next

\* A PDF nobody touches stays as it was, as long as no unseen change befalls it.
LEMMA SettledStays ==
  ASSUME NEW f \in Watched, Settled(f),
         \A n \in Places, j \in Copies : /\ db'.chunks[<<f, n, j>>] = db.chunks[<<f, n, j>>]
                                         /\ work'.chunks[<<f, n, j>>] = db.chunks[<<f, n, j>>],
         recorded'[f] = recorded[f],
         f \notin pending' \cup batch' /\ content'[f] # Gone =>
           f \notin pending \cup batch /\ content'[f] = content[f]
  PROVE  Settled(f)'
  BY DEF Settled, Fits, HasRow

\* The PDFs that nobody indexes, during a step that leaves them and their rows alone.
LEMMA OthersStay ==
  ASSUME SInv, NEW f \in Watched, at # f, ~excused[f],
         UNCHANGED <<content, recorded, pending, batch>>,
         \A n \in Places, j \in Copies : db'.chunks[<<f, n, j>>] = db.chunks[<<f, n, j>>],
         \A n \in Places, j \in Copies : \/ work'.chunks[<<f, n, j>>] = work.chunks[<<f, n, j>>]
                                         \/ work'.chunks[<<f, n, j>>] = db.chunks[<<f, n, j>>]
  PROVE  Settled(f)'
<1>1. Settled(f)
  BY DEF SInv, Current
<1>2. \A n \in Places, j \in Copies : work'.chunks[<<f, n, j>>] = db.chunks[<<f, n, j>>]
  BY <1>1 DEF Settled
<1>3. QED
  BY <1>1, <1>2, SettledStays

\* A change with an event leaves the event outstanding, one without is an excuse.
LEMMA FilesKeepCurrent ==
  ASSUME SInv, NEW g \in Files, Change(g) \/ Remove(g)
  PROVE  Current'
<1> SUFFICES ASSUME NEW f \in Watched, ~excused'[f]
             PROVE  IF at' = f THEN BeingIndexed(f)' ELSE Settled(f)'
  BY DEF Current
<1>1. UNCHANGED <<db, work, by, pc, at, todo, sha, read, recorded, batch>>
  BY DEF Change, Remove, indexing, watcher
<1>2. ~excused[f] /\ f \in Files
  BY WatchedAssumption DEF Change, Remove, Excuse, SInv, WatcherTyped
<1>3. f \notin pending' /\ content'[f] # Gone => f \notin pending /\ content'[f] = content[f]
  BY <1>2 DEF Change, Remove, Excuse, SInv, IInv, Placed, WatcherTyped, watcher
<1>4. CASE at = f
  BY <1>1, <1>2, <1>3, <1>4 DEF SInv, Current, BeingIndexed, Fits
<1>5. CASE at # f
  <2>1. Settled(f)
    BY <1>2, <1>5 DEF SInv, Current
  <2>2. QED
    BY <1>1, <1>3, <1>5, <2>1, SettledStays DEF Settled
<1>6. QED
  BY <1>4, <1>5

\* An event is dealt with when the index has what the file says.
LEMMA IgnoreKeepsCurrent ==
  ASSUME SInv, NEW g \in Watched, Ignore(g)
  PROVE  Current'
<1> SUFFICES ASSUME NEW f \in Watched, ~excused'[f]
             PROVE  IF at' = f THEN BeingIndexed(f)' ELSE Settled(f)'
  BY DEF Current
<1>1. /\ UNCHANGED <<content, db, work, at, recorded, excused>>
      /\ pending' = pending /\ batch' = batch \ {g} /\ by # "watcher"
      /\ content[g] = Gone \/ recorded[g] = content[g]
  BY DEF Ignore, indexing
<1>2. at # f /\ Settled(f)
  BY <1>1 DEF SInv, Current, BeingIndexed
<1>3. QED
  BY <1>1, <1>2 DEF Settled, Fits, HasRow

\* Whoever begins with a file that is not the watcher's excuses it; the watcher hashes it.
LEMMA StartsKeepCurrent ==
  ASSUME SInv,
         \/ \E f \in Files : IndexFile(f)
         \/ \E f \in Watched : IndexIfNeeded(f)
         \/ IndexDirectory \/ AutoIndex \/ NextFile
  PROVE  Current'
<1> SUFFICES ASSUME NEW f \in Watched, ~excused'[f]
             PROVE  IF at' = f THEN BeingIndexed(f)' ELSE Settled(f)'
  BY DEF Current
<1> USE WatchedAssumption, NoFileAssumption DEF SInv, WatcherTyped
<1>1. UNCHANGED <<content, db, work, recorded>> /\ (by = "nobody" \/ pc = "next")
  BY DEF IndexFile, IndexIfNeeded, IndexDirectory, AutoIndex, NextFile, Starts, watcher
<1>2. CASE at' = f
  <2>1. PICK g \in Watched : IndexIfNeeded(g)
    <3>1. ~(\E g \in Files : IndexFile(g))
      BY <1>2 DEF IndexFile, Starts, Excuse
    <3>2. ~(IndexDirectory \/ AutoIndex)
      BY <1>2 DEF IndexDirectory, AutoIndex, Starts
    <3>3. ASSUME NextFile PROVE FALSE
      <4>1. CASE UNCHANGED <<at, excused>>
        BY <3>3, <4>1, <1>2 DEF NextFile, Current, BeingIndexed
      <4>2. CASE ~(UNCHANGED <<at, excused>>)
        BY <3>3, <4>2, <1>2 DEF NextFile, Excuse
      <4>3. QED
        BY <4>1, <4>2
    <3>4. QED
      BY <3>1, <3>2, <3>3
  <2>2. /\ g = f /\ by' = "watcher" /\ pc' = "file" /\ sha' = content[f] /\ content' = content
        /\ ~Doubled(db, f) /\ by = "nobody"
    BY <1>2, <2>1 DEF IndexIfNeeded, Starts
  <2>3. ~Doubled(work', f)
    BY <1>1, <2>2 DEF NothingOpen
  <2>4. QED
    BY <1>2, <2>2, <2>3 DEF BeingIndexed
<1>3. CASE at' # f
  <2>1. ~excused[f]
    <3>1. ASSUME NEW g \in Watched, IndexIfNeeded(g) PROVE ~excused[f]
      BY <1>3, <3>1 DEF IndexIfNeeded, Starts
    <3>2. QED
      BY <3>1 DEF IndexFile, IndexDirectory, AutoIndex, NextFile, Excuse
  <2>2. at # f /\ Settled(f)
    BY <1>1, <2>1 DEF Current, BeingIndexed, IInv, Placed
  <2>3. f \notin pending' \cup batch' => f \notin pending \cup batch
    BY <1>3 DEF IndexFile, IndexIfNeeded, IndexDirectory, AutoIndex, NextFile, Starts, watcher
  <2>4. QED
    BY <1>1, <1>3, <2>2, <2>3, SettledStays DEF Settled
<1>4. QED
  BY <1>2, <1>3

\* After a file comes its record, the next file or nothing.
LEMMA DoneWith ==
  ASSUME IInv, FileDone, pc \in {"file", "apply"}
  PROVE  at' \in {at, NoFile}
<1>1. by \in {"watcher", "file", "directory", "auto"}
  BY DEF IInv, Placed
<1>2. CASE by = "watcher"
  BY <1>2 DEF FileDone
<1>3. CASE by = "file"
  BY <1>3 DEF FileDone, Ends
<1>4. CASE by \in {"directory", "auto"}
  BY <1>4 DEF FileDone
<1>5. QED
  BY <1>1, <1>2, <1>3, <1>4

\* What was parsed is what was hashed, or there is an excuse; the plan brings about the rest.
LEMMA ParseKeepsCurrent ==
  ASSUME SInv, Parse
  PROVE  Current'
<1> SUFFICES ASSUME NEW f \in Watched, ~excused'[f]
             PROVE  IF at' = f THEN BeingIndexed(f)' ELSE Settled(f)'
  BY DEF Current
<1> USE WatchedAssumption, NoFileAssumption DEF SInv, WatcherTyped
<1>1. /\ UNCHANGED <<content, db, work, pending, batch, recorded>> /\ pc = "file" /\ at \in Files
      /\ content[at] \in Contents
  BY DEF Parse, watcher, IInv, Placed
<1>2. ~excused[f]
  BY DEF Parse, Excuse
<1>3. CASE at # f
  <2>1. at' \in {at, NoFile}
    BY <1>1, DoneWith DEF Parse
  <2>2. at' # f
    BY <1>3, <2>1
  <2>3. QED
    BY <1>1, <1>2, <1>3, <2>2, OthersStay
<1>4. CASE at = f
  <2>1. BeingIndexed(f) /\ by = "watcher"
    BY <1>2, <1>4 DEF Current, BeingIndexed
  <2>2. content[f] = sha
    BY <1>4, <2>1 DEF Parse, Excuse
  <2>3. PICK view \in Views(f) :
          /\ pc' = "apply" /\ todo' = PlanDiff(f, content[f], view) /\ read' = content[f]
          /\ UNCHANGED <<by, at, sha>>
    BY <1>4 DEF Parse, NoSections, Excuse
  <2>4. ASSUME NEW n \in Places, NEW j \in Copies, HasRow(work', f, n, j)
        PROVE  \/ n <= Len(content[f]) /\ work'.chunks[<<f, n, j>>] = content[f][n]
               \/ \E p \in todo' : p.place = n /\ p.copy = j
    <3>1. HasRow(work, f, n, j) /\ ~Doubled(work, f)
      BY <1>1, <2>1, <2>4 DEF BeingIndexed
    <3>2. view[n] = j
      <4>1. view[n] \in Copies /\ HasRow(work, f, n, view[n])
        BY <3>1, BoundsAssumption DEF Views, Copies
      <4>2. QED
        BY <3>1, <4>1 DEF Doubled
    <3>3. CASE ~(n <= Len(content[f]))
      <4> DEFINE p == [kind |-> "delete", place |-> n, copy |-> j]
      <4>1. p \in Plan /\ p.kind = "delete" /\ p.place = n /\ p.copy = j
        BY DEF Plan
      <4>2. p \in PlanDiff(f, content[f], view)
        BY <3>2, <3>3, <4>1 DEF PlanDiff
      <4>3. QED
        BY <2>3, <4>1, <4>2
    <3>4. CASE n <= Len(content[f]) /\ work.chunks[<<f, n, j>>] # content[f][n]
      <4> DEFINE p == [kind |-> "update", place |-> n, copy |-> j]
      <4>1. p \in Plan /\ p.kind = "update" /\ p.place = n /\ p.copy = j
        BY DEF Plan
      <4>2. p \in PlanDiff(f, content[f], view)
        BY <3>2, <3>4, <4>1 DEF PlanDiff
      <4>3. QED
        BY <2>3, <4>1, <4>2
    <3>5. QED
      BY <1>1, <3>3, <3>4
  <2>5. QED
    BY <1>1, <1>4, <2>1, <2>2, <2>3, <2>4 DEF BeingIndexed
<1>5. QED
  BY <1>3, <1>4

\* An entry of the plan done, the text at its place is as it was parsed.
LEMMA ApplyKeepsCurrent ==
  ASSUME SInv, Apply
  PROVE  Current'
<1> SUFFICES ASSUME NEW f \in Watched, ~excused'[f]
             PROVE  IF at' = f THEN BeingIndexed(f)' ELSE Settled(f)'
  BY DEF Current
<1> USE WatchedAssumption DEF SInv
<1>1. PICK p \in todo : Done(p)
  BY Applied
<1>2. /\ UNCHANGED <<content, db, by, pc, at, sha, read, pending, batch, recorded, excused>>
      /\ pc = "apply" /\ work.chunks \in Columns /\ p \in Plan
  BY <1>1 DEF Apply, watcher, IInv, Tables, Agree, Planned, Plan
<1>3. \A k \in Keys : k # <<at, p.place, p.copy>> => work'.chunks[k] = work.chunks[k]
  BY <1>1, <1>2 DEF Done, Put, Columns
<1>4. \A n \in Places, j \in Copies : <<f, n, j>> \in Keys
  BY DEF Keys
<1>5. CASE at # f
  <2>1. \A n \in Places, j \in Copies : work'.chunks[<<f, n, j>>] = work.chunks[<<f, n, j>>]
    BY <1>3, <1>4, <1>5
  <2>2. QED
    BY <1>2, <1>5, <2>1, OthersStay
<1>6. CASE at = f
  <2>1. BeingIndexed(f)
    BY <1>2, <1>6 DEF Current
  <2>2. ASSUME NEW n \in Places, NEW j \in Copies, HasRow(work', f, n, j)
        PROVE  \/ n <= Len(read) /\ work'.chunks[<<f, n, j>>] = read[n]
               \/ \E q \in todo' : q.place = n /\ q.copy = j
    <3>1. CASE n = p.place /\ j = p.copy
      BY <1>1, <1>2, <1>6, <2>2, <3>1 DEF Done, Put, Columns, HasRow
    <3>2. CASE ~(n = p.place /\ j = p.copy)
      <4>1. work'.chunks[<<f, n, j>>] = work.chunks[<<f, n, j>>]
        BY <1>3, <1>4, <1>6, <3>2
      <4>2. \/ n <= Len(read) /\ work.chunks[<<f, n, j>>] = read[n]
            \/ \E q \in todo : q.place = n /\ q.copy = j
        BY <1>2, <2>1, <2>2, <4>1 DEF BeingIndexed, HasRow
      <4>3. \A q \in todo : q.place = n /\ q.copy = j => q \in todo'
        BY <1>1, <3>2 DEF Done
      <4>4. QED
        BY <4>1, <4>2, <4>3
    <3>3. QED
      BY <3>1, <3>2
  <2>3. QED
    BY <1>2, <1>6, <2>1, <2>2 DEF BeingIndexed
<1>7. QED
  BY <1>5, <1>6

\* At the commit the plan is done.
LEMMA CommitKeepsCurrent ==
  ASSUME SInv, Commit
  PROVE  Current'
<1> SUFFICES ASSUME NEW f \in Watched, ~excused'[f]
             PROVE  IF at' = f THEN BeingIndexed(f)' ELSE Settled(f)'
  BY DEF Current
<1> USE WatchedAssumption, NoFileAssumption DEF SInv
<1>1. /\ UNCHANGED <<content, work, pending, batch, recorded, excused>>
      /\ pc = "apply" /\ todo = {} /\ db' = work /\ FileDone
  BY DEF Commit, watcher
<1>2. CASE at # f
  <2>1. at' # f
    BY <1>1, <1>2, DoneWith
  <2>2. Settled(f)
    BY <1>1, <1>2 DEF Current
  <2>3. QED
    BY <1>1, <1>2, <2>1, <2>2, OthersStay DEF Settled
<1>3. CASE at = f
  <2>1. BeingIndexed(f)
    BY <1>1, <1>3 DEF Current
  <2>2. UNCHANGED <<by, at, sha>> /\ pc' = "record"
    BY <1>1, <2>1 DEF FileDone, BeingIndexed
  <2>3. Fits(work, f, sha)
    BY <1>1, <2>1 DEF BeingIndexed, Fits
  <2>4. QED
    BY <1>1, <1>3, <2>1, <2>2, <2>3 DEF BeingIndexed, Fits
<1>4. QED
  BY <1>2, <1>3

\* A failed file is excused, and what it leaves in the transaction is its own.
LEMMA FileFailsKeepsCurrent ==
  ASSUME SInv, FileFails
  PROVE  Current'
<1> SUFFICES ASSUME NEW f \in Watched, ~excused'[f]
             PROVE  IF at' = f THEN BeingIndexed(f)' ELSE Settled(f)'
  BY DEF Current
<1> USE WatchedAssumption, NoFileAssumption DEF SInv
<1>1. /\ UNCHANGED <<content, db, pending, batch, recorded>>
      /\ at' = NoFile /\ (work' = db \/ work' = work)
  BY DEF FileFails, Ends, watcher
<1>2. ~excused[f] /\ at # f
  BY DEF FileFails, Excuse
<1>3. QED
  BY <1>1, <1>2, OthersStay

\* The directory's prune takes away only what it excuses.
LEMMA DirectoryKeepsCurrent ==
  ASSUME SInv, Prune \/ AutoIndexed \/ Kill
  PROVE  Current'
<1> SUFFICES ASSUME NEW f \in Watched, ~excused'[f]
             PROVE  IF at' = f THEN BeingIndexed(f)' ELSE Settled(f)'
  BY DEF Current
<1> USE WatchedAssumption, NoFileAssumption DEF SInv
<1>1. UNCHANGED <<content, pending, batch, recorded>> /\ at' = NoFile
  BY DEF Prune, AutoIndexed, Kill, Ends, watcher
<1>2. ~excused[f]
  BY DEF Prune, AutoIndexed, Kill, Excuse
<1>3. at # f
  BY <1>2 DEF Prune, AutoIndexed, Kill, Current, BeingIndexed
<1>4. CASE Prune
  <2>1. f \in kept
    BY <1>4 DEF Prune, Excuse
  <2>2. \A n \in Places, j \in Copies : <<f, n, j>> \in Keys
    BY DEF Keys
  <2>3. \A n \in Places, j \in Copies : work'.chunks[<<f, n, j>>] = work.chunks[<<f, n, j>>] /\ db' = work'
    BY <1>4, <2>1, <2>2 DEF Prune
  <2>4. Settled(f)
    BY <1>2, <1>3 DEF Current
  <2>5. \A n \in Places, j \in Copies : db'.chunks[<<f, n, j>>] = db.chunks[<<f, n, j>>]
    BY <2>3, <2>4 DEF Settled
  <2>6. QED
    BY <1>1, <1>2, <1>3, <2>3, <2>5, OthersStay
<1>5. CASE AutoIndexed \/ Kill
  BY <1>1, <1>2, <1>3, <1>5, OthersStay DEF AutoIndexed, Kill
<1>6. QED
  BY <1>4, <1>5

\* Recorded is what was hashed, and that is what was indexed.
LEMMA WatcherKeepsCurrent ==
  ASSUME SInv, Watch \/ TakeBatch \/ WorkerDies \/ WatchEnds \/ Record
  PROVE  Current'
<1> SUFFICES ASSUME NEW f \in Watched, ~excused'[f]
             PROVE  IF at' = f THEN BeingIndexed(f)' ELSE Settled(f)'
  BY DEF Current
<1> USE WatchedAssumption, NoFileAssumption DEF SInv, WatcherTyped
<1>1. CASE Watch
  BY <1>1 DEF Watch, indexing, Current, BeingIndexed, Settled, Fits
<1>2. CASE WatchEnds
  <2>1. /\ UNCHANGED <<content, db, recorded>> /\ ~excused[f] /\ f \notin pending \cup batch
        /\ by = "watcher" => at # f
    BY <1>2 DEF WatchEnds, Excuse
  <2>2. at # f /\ Settled(f)
    BY <2>1 DEF Current, BeingIndexed
  <2>3. at' # f /\ (work' = db \/ work' = work)
    BY <1>2, <2>2 DEF WatchEnds, Ends, indexing
  <2>4. QED
    BY <2>1, <2>2, <2>3, SettledStays DEF Settled
<1>3. CASE Record
  <2>1. /\ UNCHANGED <<content, db, work, pending, batch>> /\ at' = NoFile /\ pc = "record"
        /\ ~excused[f]
    BY <1>3 DEF Record, Ends, Excuse
  <2>2. CASE at # f
    BY <1>3, <2>1, <2>2, SettledStays DEF Record, Current, Settled
  <2>3. CASE at = f
    <3>1. recorded' = [recorded EXCEPT ![f] = sha]
      BY <1>3, <2>3 DEF Record, Excuse
    <3>2. BeingIndexed(f) /\ work = db
      BY <2>1, <2>3 DEF Current, NothingOpen
    <3>3. QED
      BY <2>1, <2>3, <3>1, <3>2 DEF BeingIndexed, Settled, Fits
  <2>4. QED
    BY <2>2, <2>3
<1>4. CASE TakeBatch \/ WorkerDies
  <2>1. /\ UNCHANGED <<content, db, work, at, recorded>> /\ by # "watcher" /\ ~excused[f]
        /\ f \notin pending' \cup batch' => f \notin pending \cup batch
    BY <1>4 DEF TakeBatch, WorkerDies, Excuse, indexing
  <2>2. at # f /\ Settled(f)
    BY <2>1 DEF Current, BeingIndexed
  <2>3. QED
    BY <2>1, <2>2, SettledStays DEF Settled
<1>5. QED
  BY <1>1, <1>2, <1>3, <1>4

LEMMA NextKeepsCurrent == SInv /\ [Next]_vars => SInv'
<1> SUFFICES ASSUME SInv, [Next]_vars PROVE Current'
  BY NextKeeps, WatcherTypedKeeps, NothingOpenKeeps DEF SInv
<1>1. CASE UNCHANGED vars
  BY <1>1 DEF vars, watcher, indexing, SInv, Current, BeingIndexed, Settled, Fits
<1>2. ASSUME NEW f \in Files, Change(f) \/ Remove(f) PROVE Current'
  BY <1>2, FilesKeepCurrent
<1>3. ASSUME NEW f \in Watched, Ignore(f) PROVE Current'
  BY <1>3, IgnoreKeepsCurrent
<1>4. CASE \/ \E f \in Files : IndexFile(f)
           \/ \E f \in Watched : IndexIfNeeded(f)
           \/ IndexDirectory \/ AutoIndex \/ NextFile
  BY <1>4, StartsKeepCurrent
<1>5. CASE Parse \/ Apply \/ Commit \/ FileFails
  BY <1>5, ParseKeepsCurrent, ApplyKeepsCurrent, CommitKeepsCurrent, FileFailsKeepsCurrent
<1>6. CASE Prune \/ AutoIndexed \/ Kill
  BY <1>6, DirectoryKeepsCurrent
<1>7. CASE Watch \/ TakeBatch \/ WorkerDies \/ WatchEnds \/ Record
  BY <1>7, WatcherKeepsCurrent
<1>8. QED
  BY <1>1, <1>2, <1>3, <1>4, <1>5, <1>6, <1>7 DEF Next

-----------------------------------------------------------------------------
(* The theorems. *)

\* Chunks, vectors and full text agree at every commit, whatever files, texts and
\* duplicates there are, and wherever indexing fails or is killed.
THEOREM TablesAlwaysAgree == Spec => []TablesAgree
<1>1. Spec => []IInv
  BY InitHolds, NextKeeps, PTL DEF Spec
<1>2. IInv => TablesAgree
  BY DEF IInv, Tables, Agree, TablesAgree
<1>3. QED
  BY <1>1, <1>2, PTL

\* A PDF with no event outstanding is found only by text it has, however its changes, the
\* watcher, the commands and the kills interleave, unless its index has an excuse.
THEOREM NeverStale == Spec => []NoStaleText
<1>1. Spec => []SInv
  BY SInitHolds, NextKeepsCurrent, PTL DEF Spec
<1>2. SInv => NoStaleText
  BY DEF SInv, Current, Settled, Fits, NoStaleText
<1>3. QED
  BY <1>1, <1>2, PTL
=============================================================================
