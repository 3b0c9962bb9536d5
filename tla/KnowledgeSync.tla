---------------------------- MODULE KnowledgeSync ----------------------------
(***************************************************************************)
(* One knowledge base: KnowledgeService keeps the document and chunk rows  *)
(* of KnowledgeRepository in step with the files under a root directory.   *)
(*                                                                         *)
(* The lock of the knowledge base lets one ingest or reindex run at a      *)
(* time, so `pc` and `job` are those of the lock's holder.  What can come  *)
(* between two of its steps is the file system, searches (which only read),*)
(* a registration, a failing call and the end of the process.  A step is   *)
(* one repository call, which is one transaction, or one read of a file.   *)
(*                                                                         *)
(* Abstracted: a file is one of a few contents and its chunks are the      *)
(* content they were cut from; a document has at most one chunk.  One      *)
(* document per path is what the repository's unique constraint and its    *)
(* lookup by path ensure, so rows are indexed by path.  _delete_document   *)
(* deletes the document through the index and then again through the       *)
(* repository; the second finds nothing.                                   *)
(***************************************************************************)
EXTENDS Integers, FiniteSets

CONSTANTS
  Paths,        \* relative paths, in the order the scan sorts them
  Unsupported,  \* those with another suffix than .md, .txt and .pdf
  Contents,     \* what a file may hold
  Blank,        \* contents that give no chunk
  Registrars,   \* POST /internal/knowledge-bases requests for this kb_id
  MaxChanges,   \* bound on changes to the files
  MaxFailures,  \* bound on failing calls and crashes
  None

ASSUME PathsAssumption ==
  Paths \subseteq Nat /\ IsFiniteSet(Paths) /\ Unsupported \subseteq Paths
ASSUME ContentsAssumption ==
  /\ Contents # {} /\ Blank \subseteq Contents
  /\ None \notin Contents /\ None \notin Paths
ASSUME BoundsAssumption == MaxChanges \in Nat /\ MaxFailures \in Nat

VARIABLES
  \* The file system.
  root,     \* the root path is a directory
  files,    \* content of each path, None when there is no such file
  \* The database.
  kb,       \* KnowledgeBaseTable row: status and counts, None before registration
  rows,     \* KnowledgeDocumentTable: content_hash by path, None without a row
  text,     \* KnowledgeChunkTable: the content of each path's chunks, None without
  \* The process.
  pc,       \* next call of the sync, "idle" when nobody holds the lock
  job,      \* its locals
  reg,      \* each registration: "idle", "write", "done"
  \* History and bounds.
  changes,  \* changes to the files so far
  failures, \* failed calls and crashes so far
  stable,   \* no file changed since the sync began
  cuts      \* syncs that did not return, files that changed while they were read

disk == <<root, files>>
db   == <<kb, rows, text>>
bounds == <<changes, failures>>
vars == <<disk, db, pc, job, reg, bounds, stable, cuts>>

-----------------------------------------------------------------------------
(* Values.                                                                 *)

Ready == {"success", "partial_success"}
Statuses == Ready \cup {"registered", "failed"}

KBType == [status : Statuses, docs : Nat, chunks : Nat]
ASSUME NoneAssumption == None \notin Statuses /\ None \notin KBType

KB(status, documents, chunks) == [status |-> status, docs |-> documents, chunks |-> chunks]

\* A document and its chunks, as list_documents and list_document_chunks
\* return them.
Document(p) == [hash |-> rows[p], text |-> text[p]]
NoDocument == [hash |-> None, text |-> None]
Index == [p \in Paths |-> Document(p)]

\* The locals of _sync_knowledge_base and reindex.
NoJob ==
  [op |-> None,
   existing |-> [p \in Paths |-> None],      \* existing_by_path, by hash
   todo |-> {}, dels |-> {},                 \* source files and deletions to go
   path |-> None, hash |-> None, read |-> None,  \* the file in hand
   prev |-> NoDocument,                      \* previous_document and its chunks
   sources |-> {},                           \* source_paths
   errors |-> FALSE, indexed |-> FALSE, warned |-> FALSE,
   undone |-> FALSE,                         \* reindex is past its first result
   snapshot |-> [p \in Paths |-> NoDocument],
   status |-> None, seen |-> None]           \* result, and current_record

Present(f) == {p \in Paths : f[p] # None}
ChunksOf(c) == IF c \in Blank \cup {None} THEN None ELSE c

-----------------------------------------------------------------------------
(* Repository calls.                                                       *)

\* _refresh_kb_counts, within the transaction that changes the rows.
RefreshCounts ==
  kb' = [kb EXCEPT !.docs = Cardinality(Present(rows')), !.chunks = Cardinality(Present(text'))]

\* Mutant: a changed document gives up its chunks at once.
UpsertDocument_Clears(p, hash) ==
  /\ rows' = [rows EXCEPT ![p] = hash] /\ text' = [text EXCEPT ![p] = None]
  /\ RefreshCounts
UpsertDocument(p, hash) ==
  rows' = [rows EXCEPT ![p] = hash] /\ UNCHANGED text /\ RefreshCounts

\* replace_document_chunks, directly or through upsert_chunks.
ReplaceChunks(p, chunks) ==
  /\ rows[p] # None
  /\ text' = [text EXCEPT ![p] = chunks]
  /\ UNCHANGED rows /\ RefreshCounts

DeleteDocument_Chunks(p) ==             \* mutant: the chunks stay
  rows' = [rows EXCEPT ![p] = None] /\ UNCHANGED text /\ RefreshCounts
\* Mutant: the counts of the knowledge base are left as they were.
DeleteDocument_Counts(p) ==
  /\ rows' = [rows EXCEPT ![p] = None]
  /\ text' = [text EXCEPT ![p] = None]
  /\ UNCHANGED kb
DeleteDocument(p) ==
  /\ rows' = [rows EXCEPT ![p] = None]
  /\ text' = [text EXCEPT ![p] = None]
  /\ RefreshCounts

-----------------------------------------------------------------------------
(* Registration.                                                           *)

RegisterCheck(g) ==
  /\ reg[g] = "idle"
  /\ reg' = [reg EXCEPT ![g] = IF kb = None THEN "write" ELSE "done"]
  /\ UNCHANGED <<disk, db, pc, job, bounds, stable, cuts>>

\* upsert_knowledge_base; a row written meanwhile is overwritten.
RegisterWrite(g) ==
  /\ reg[g] = "write"
  /\ reg' = [reg EXCEPT ![g] = "done"]
  /\ kb' = KB("registered", 0, 0)
  /\ UNCHANGED <<disk, rows, text, pc, job, bounds, stable, cuts>>

-----------------------------------------------------------------------------
(* The sync.                                                               *)

\* A step of the lock's holder: it reads or computes, or it makes one write
\* transaction.
Step(from, to) == pc = from /\ pc' = to /\ UNCHANGED <<disk, reg, changes, stable>>
Read(from, to) == Step(from, to) /\ UNCHANGED <<db, failures>>
Write(from, to) == Step(from, to) /\ UNCHANGED <<failures, cuts>>

\* Deletions come before files, and the record comes last.
NextPC(j) == IF j.dels # {} THEN "delete" ELSE IF j.todo # {} THEN "file" ELSE "readRecord"

\* ingest and reindex take the lock and read the record.
Begin ==
  /\ kb # None /\ pc = "idle"
  /\ \E op \in {"ingest", "reindex"} :
       /\ pc' = IF op = "reindex" THEN "snapshot" ELSE "root"
       /\ job' = [NoJob EXCEPT !.op = op]
  /\ stable' = TRUE
  /\ UNCHANGED <<disk, db, reg, bounds, cuts>>

\* reindex: the snapshot, then every document is deleted.
Snapshot ==
  /\ Read("snapshot", IF Present(rows) # {} THEN "clear" ELSE "root")
  /\ job' = [job EXCEPT !.snapshot = Index, !.dels = Present(rows)]
  /\ UNCHANGED cuts
Clear ==
  \E p \in job.dels :
    /\ Write("clear", IF job.dels = {p} THEN "root" ELSE "clear")
    /\ DeleteDocument(p)
    /\ job' = [job EXCEPT !.dels = @ \ {p}]

\* _sync_knowledge_base: a missing root fails the batch.
CheckRoot ==
  /\ Read("root", IF root THEN "list" ELSE "readRecord")
  /\ job' = [job EXCEPT !.errors = ~root]
  /\ UNCHANGED cuts

\* list_documents and _scan_source_files.
List ==
  LET found == IF root THEN Present(files) ELSE {}
      j == [job EXCEPT !.existing = rows,
                       !.todo = found \ Unsupported,
                       !.sources = found \ Unsupported,
                       !.warned = found \cap Unsupported # {},
                       !.dels = IF job.op = "reindex" THEN {}
                                ELSE Present(rows) \ (found \ Unsupported)]
  IN Read("list", NextPC(j)) /\ job' = j /\ UNCHANGED cuts

\* The documents whose file is gone.
Delete ==
  \E p \in job.dels :
    LET j == [job EXCEPT !.dels = @ \ {p}] IN
    Write("delete", NextPC(j)) /\ DeleteDocument(p) /\ job' = j

\* The next file in the order of the scan.
NextFile == {p \in job.todo : \A q \in job.todo : p <= q}
Without(p) == [job EXCEPT !.todo = @ \ {p}, !.path = None, !.hash = None, !.read = None,
                          !.prev = NoDocument]

\* An ingest skips a file whose document has its hash.
Skips_Known(p) == job.op = "ingest" /\ job.existing[p] # None    \* mutant: whatever its hash
Skips(p) == job.op = "ingest" /\ job.existing[p] = files[p]

SkipFile ==
  \E p \in NextFile :
    /\ files[p] # None /\ Skips(p)
    /\ Read("file", NextPC(Without(p)))
    /\ job' = Without(p)
    /\ UNCHANGED cuts

\* _content_hash, and the previous document with its chunks.
ReadHash ==
  \E p \in NextFile :
    /\ files[p] # None /\ ~Skips(p)
    /\ Read("file", "parse")
    /\ job' = [job EXCEPT !.path = p, !.hash = files[p],
                 !.prev = IF job.existing[p] = None THEN NoDocument ELSE Document(p)]
    /\ UNCHANGED cuts

\* parse_document reads the file a second time, and splits it into chunks.
Parse ==
  /\ Read("parse", "saveDocument")
  /\ files[job.path] # None
  /\ job' = [job EXCEPT !.read = files[job.path]]
  /\ cuts' = cuts + IF files[job.path] = job.hash THEN 0 ELSE 1

SaveDocument ==
  Write("saveDocument", "saveChunks") /\ UpsertDocument(job.path, job.hash) /\ UNCHANGED job

\* embed_documents and upsert_chunks, or the removal of every chunk.
SaveChunks ==
  LET j == [Without(job.path) EXCEPT !.indexed = TRUE] IN
  Write("saveChunks", NextPC(j)) /\ ReplaceChunks(job.path, ChunksOf(job.read)) /\ job' = j

\* The file is gone or cannot be parsed, embedding fails, a write fails: the
\* previous document is put back, or a new one is dropped.
FailedFile == [Without(job.path) EXCEPT !.errors = TRUE]
Handler_Nothing(from) == NextPC(FailedFile)     \* mutant: nothing is put back
Handler(from) ==
  IF job.prev # NoDocument THEN "restoreDocument"
  ELSE IF from = "parse" THEN NextPC(FailedFile) ELSE "drop"
FileFails ==
  \E from \in {"parse", "saveDocument", "saveChunks"} :
    /\ Step(from, Handler(from))
    /\ job' = IF Handler(from) = NextPC(FailedFile) THEN FailedFile ELSE job
    /\ \/ from = "parse" /\ files[job.path] = None /\ UNCHANGED failures
       \/ failures < MaxFailures /\ failures' = failures + 1
    /\ UNCHANGED <<db, cuts>>

RestoreDocument ==
  /\ Write("restoreDocument", "restoreChunks")
  /\ UpsertDocument(job.path, job.prev.hash)
  /\ UNCHANGED job
RestoreChunks ==
  /\ Write("restoreChunks", NextPC(FailedFile))
  /\ ReplaceChunks(job.path, job.prev.text)
  /\ job' = FailedFile
Drop ==
  Write("drop", NextPC(FailedFile)) /\ DeleteDocument(job.path) /\ job' = FailedFile

\* The status of a batch.
BatchStatus ==
  IF job.errors THEN IF job.indexed THEN "partial_success" ELSE "failed"
  ELSE IF job.warned THEN IF job.sources # {} THEN "partial_success" ELSE "failed"
  ELSE "success"

\* _update_knowledge_base reads the record again for its counts.  A reindex
\* that was no full success puts its snapshot back after the first update and
\* makes a second one.
ReadRecord ==
  /\ Read("readRecord", "writeRecord")
  /\ job' = [job EXCEPT !.seen = kb,
                        !.status = IF job.status = None THEN BatchStatus ELSE "failed"]
  /\ UNCHANGED cuts

Unsuccessful_Again == job.op = "reindex" /\ job.status # "success"    \* mutant
Unsuccessful == job.op = "reindex" /\ job.status # "success" /\ ~job.undone
HasSnapshot == \E p \in Paths : job.snapshot[p] # NoDocument

WriteRecord ==
  /\ \/ ~Unsuccessful /\ Write("writeRecord", "idle") /\ job' = NoJob
     \/ /\ Unsuccessful
        /\ Write("writeRecord", IF HasSnapshot THEN "listRestore" ELSE "readRecord")
        /\ job' = [job EXCEPT !.undone = TRUE]
  /\ kb' = [job.seen EXCEPT !.status = job.status] /\ UNCHANGED <<rows, text>>

\* _restore_knowledge_base_snapshot.
AfterUndo(j) ==
  IF j.dels # {} THEN "undo" ELSE IF j.todo # {} THEN "putDocument" ELSE "readRecord"
ListRestore_Keeps ==                    \* mutant: what the failed reindex made stays
  /\ Read("listRestore", "putDocument")
  /\ job' = [job EXCEPT !.todo = {p \in Paths : job.snapshot[p] # NoDocument}]
  /\ UNCHANGED cuts
ListRestore ==
  LET j == [job EXCEPT !.dels = Present(rows),
                       !.todo = {p \in Paths : job.snapshot[p] # NoDocument}]
  IN Read("listRestore", AfterUndo(j)) /\ job' = j /\ UNCHANGED cuts
Undo ==
  \E p \in job.dels :
    LET j == [job EXCEPT !.dels = @ \ {p}] IN
    Write("undo", AfterUndo(j)) /\ DeleteDocument(p) /\ job' = j
PutDocument ==
  \E p \in NextFile :
    /\ Write("putDocument", "putChunks")
    /\ UpsertDocument(p, job.snapshot[p].hash)
    /\ job' = [job EXCEPT !.path = p]
PutChunks ==
  /\ Write("putChunks", AfterUndo(Without(job.path)))
  /\ ReplaceChunks(job.path, job.snapshot[job.path].text)
  /\ job' = Without(job.path)

\* An exception that no handler takes ends the sync and frees the lock: a file
\* that is gone when its hash is read, or a failing call outside of the
\* handler's reach.
Escape ==
  /\ Step(pc, "idle") /\ job' = NoJob
  /\ \/ pc = "file" /\ (\E p \in NextFile : files[p] = None) /\ UNCHANGED failures
     \/ /\ pc \notin {"idle", "root", "parse", "saveDocument", "saveChunks"}
        /\ failures < MaxFailures /\ failures' = failures + 1
  /\ cuts' = cuts + 1
  /\ UNCHANGED db

Sync ==
  \/ Snapshot \/ Clear \/ CheckRoot \/ List \/ Delete
  \/ SkipFile \/ ReadHash \/ Parse \/ SaveDocument \/ SaveChunks
  \/ FileFails \/ RestoreDocument \/ RestoreChunks \/ Drop
  \/ ReadRecord \/ WriteRecord
  \/ ListRestore \/ Undo \/ PutDocument \/ PutChunks \/ Escape

-----------------------------------------------------------------------------
(* The surroundings.                                                       *)

\* Nobody reads an unsupported file: one content stands for all.
MayHold(p) == {None} \cup IF p \in Unsupported THEN {CHOOSE c \in Contents : TRUE} ELSE Contents

\* A file is written or removed, or the root directory comes or goes.
ChangeDisk ==
  /\ changes < MaxChanges /\ changes' = changes + 1
  /\ \/ \E p \in Paths : \E c \in MayHold(p) : files' = [files EXCEPT ![p] = c] /\ UNCHANGED root
     \/ root' = ~root /\ UNCHANGED files
  /\ stable' = FALSE
  /\ UNCHANGED <<db, pc, job, reg, failures, cuts>>

\* The process dies and starts again.
Crash ==
  /\ failures < MaxFailures /\ failures' = failures + 1
  /\ pc' = "idle" /\ job' = NoJob
  /\ reg' = [g \in Registrars |-> IF reg[g] = "write" THEN "done" ELSE reg[g]]
  /\ cuts' = cuts + IF pc = "idle" THEN 0 ELSE 1
  /\ UNCHANGED <<disk, db, changes, stable>>

Init ==
  /\ root = TRUE
  /\ files \in [Paths -> Contents \cup {None}] /\ \A p \in Paths : files[p] \in MayHold(p)
  /\ kb = None
  /\ rows = [p \in Paths |-> None] /\ text = [p \in Paths |-> None]
  /\ pc = "idle" /\ job = NoJob
  /\ reg = [g \in Registrars |-> "idle"]
  /\ changes = 0 /\ failures = 0 /\ stable = TRUE /\ cuts = 0

Next ==
  \/ \E g \in Registrars : RegisterCheck(g) \/ RegisterWrite(g)
  \/ Begin \/ Sync
  \/ ChangeDisk \/ Crash

Spec == Init /\ [][Next]_vars

\* The lock's holder runs whenever it can; every call it awaits returns.
FairSpec == Spec /\ WF_vars(Sync)

-----------------------------------------------------------------------------
(* Properties.                                                             *)

SyncPC ==
  {"idle", "snapshot", "clear", "root", "list", "delete", "file", "parse",
   "saveDocument", "saveChunks", "restoreDocument", "restoreChunks", "drop",
   "readRecord", "writeRecord", "listRestore", "undo", "putDocument", "putChunks"}

DocumentType == [hash : Contents \cup {None}, text : Contents \cup {None}]
JobType ==
  [op : {"ingest", "reindex", None}, existing : [Paths -> Contents \cup {None}],
   todo : SUBSET Paths, dels : SUBSET Paths, sources : SUBSET Paths,
   path : Paths \cup {None}, hash : Contents \cup {None}, read : Contents \cup {None},
   prev : DocumentType, errors : BOOLEAN, indexed : BOOLEAN, warned : BOOLEAN,
   undone : BOOLEAN, snapshot : [Paths -> DocumentType],
   status : Statuses \cup {None}, seen : KBType \cup {None}]

\* Every variable has its type; chunks belong to a document, the sync has a
\* path in hand where it uses one, and what it is about to restore exists.
TypeOK ==
  /\ root \in BOOLEAN /\ files \in [Paths -> Contents \cup {None}]
  /\ kb \in KBType \cup {None}
  /\ rows \in [Paths -> Contents \cup {None}] /\ text \in [Paths -> Contents \cup {None}]
  /\ pc \in SyncPC /\ job \in JobType
  /\ reg \in [Registrars -> {"idle", "write", "done"}]
  /\ changes \in Nat /\ failures \in Nat /\ cuts \in Nat /\ stable \in BOOLEAN
  /\ \A p \in Paths : text[p] # None => rows[p] # None
  /\ pc \in {"parse", "saveDocument", "saveChunks", "restoreDocument", "restoreChunks",
             "drop", "putChunks"} => job.path # None
  /\ pc \in {"saveChunks", "restoreChunks", "putChunks"} => rows[job.path] # None
  /\ pc = "restoreDocument" => job.prev.hash # None
  /\ pc = "writeRecord" => job.seen # None

\* The counts in the knowledge base's row are those of its documents and
\* chunks in every committed state, though _update_knowledge_base writes back
\* counts that it read one transaction earlier.
CountsMatch ==
  kb # None => kb.docs = Cardinality(Present(rows)) /\ kb.chunks = Cardinality(Present(text))

\* Documents whose hash is not that of the content their chunks were cut from.
\* The hash is what the next ingest compares: it never looks at such a document
\* again until the file changes.
Stale == {p \in Paths \ {job.path} : rows[p] # None /\ text[p] # ChunksOf(rows[p])}

\* Each stale document is due to a sync that ended between two transactions,
\* by a crash or an exception, or to a file that changed between the two reads
\* of it; failures that the handler takes leave none.
StaleNeedsCut == Cardinality(Stale) <= cuts

\* Neither an exception nor the end of the process.
SyncReturned == pc # "idle" /\ pc' = "idle" /\ cuts' = cuts

Fresh == \A p \in Paths \ Unsupported : rows[p] = files[p] /\ text[p] = ChunksOf(files[p])

\* When ingest or reindex reports success and no file changed meanwhile, the
\* index is the files: an ingest unless an earlier sync was cut short, a
\* reindex whatever happened before it.
SuccessIsFresh ==
  [][SyncReturned /\ job.status = "success" /\ stable /\ (job.op = "reindex" \/ cuts = 0)
       => Fresh']_vars

\* A reindex that reports a failure has put every document and its chunks back
\* as they were, and left none of its own.
FailedReindexRestores ==
  [][SyncReturned /\ job.op = "reindex" /\ job.status # "success" /\ HasSnapshot
       => Index' = job.snapshot]_vars

\* An ingest keeps the chunks of a document, whatever fails on the way: it gives
\* them up only when the file was gone or has nothing to index.  This is about
\* the chunks alone.  A search also needs a kb.status of success or
\* partial_success (RetrievalService._ensure_knowledge_bases_ready), so an ingest
\* that ends in "failed" hides the chunks that it kept.
IngestKeepsChunks ==
  [][\A p \in Paths :
       job.op = "ingest" /\ text[p] # None /\ text'[p] = None
         => p \notin job.sources \/ (p = job.path /\ job.read \in Blank)]_vars

\* The lock of the knowledge base is always given back.
SyncReturns == pc # "idle" ~> pc = "idle"

-----------------------------------------------------------------------------
(* A statement of the repository's tests that the code does not keep.      *)

\* A failed reindex keeps the last good indexed state, at least of the files
\* that are still there (tests/integration/test_knowledge_bases_api.py,
\* test_failed_reindex_keeps_last_good_indexed_state).
ReindexKeepsLastGood ==
  [][job.op = "reindex" /\ pc' = "idle" /\ job.status # "success"
       => \A p \in Paths : job.snapshot[p] = NoDocument \/ files[p] = None
                             \/ Index'[p] = job.snapshot[p]]_vars
=============================================================================
