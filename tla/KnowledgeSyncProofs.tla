------------------------ MODULE KnowledgeSyncProofs ------------------------
(* Theorems about KnowledgeSync, for every finite set of paths, every set  *)
(* of contents and every number of changes and failures.                   *)
EXTENDS KnowledgeSync, FiniteSetTheorems, TLAPS

-----------------------------------------------------------------------------
(* The locals of the sync.                                                 *)

\* The fields that two values of the locals agree on.
SameFile(j, k) == j.path = k.path /\ j.hash = k.hash /\ j.read = k.read /\ j.prev = k.prev
SameFlags(j, k) ==
  j.errors = k.errors /\ j.indexed = k.indexed /\ j.warned = k.warned /\ j.undone = k.undone
SameBase(j, k) == j.op = k.op /\ j.snapshot = k.snapshot /\ j.status = k.status
SameScan(j, k) == j.existing = k.existing /\ j.sources = k.sources

NoFile(j) == j.path = None /\ j.hash = None /\ j.read = None /\ j.prev = NoDocument

LEMMA NoJobFacts ==
  /\ NoJob \in JobType /\ NoFile(NoJob)
  /\ NoJob.op = None /\ NoJob.todo = {} /\ NoJob.dels = {} /\ NoJob.sources = {}
  /\ NoJob.errors = FALSE /\ NoJob.indexed = FALSE /\ NoJob.warned = FALSE /\ NoJob.undone = FALSE
  /\ NoJob.snapshot = [p \in Paths |-> NoDocument] /\ NoJob.status = None /\ NoJob.seen = None
BY DEF NoJob, JobType, DocumentType, NoDocument, NoFile

LEMMA DelsUpdate ==
  ASSUME NEW j \in JobType, NEW D \in SUBSET Paths, NEW k, k = [j EXCEPT !.dels = D]
  PROVE  /\ k \in JobType /\ k.dels = D /\ k.todo = j.todo /\ k.seen = j.seen
         /\ SameFile(k, j) /\ SameFlags(k, j) /\ SameBase(k, j) /\ SameScan(k, j)
BY DEF JobType, SameFile, SameFlags, SameBase, SameScan

LEMMA WithoutFacts ==
  ASSUME job \in JobType, NEW p \in Paths, NEW k, k = Without(p)
  PROVE  /\ k \in JobType /\ k.todo = job.todo \ {p} /\ k.dels = job.dels /\ k.seen = job.seen
         /\ NoFile(k) /\ SameFlags(k, job) /\ SameBase(k, job) /\ SameScan(k, job)
BY DEF JobType, Without, NoFile, SameFlags, SameBase, SameScan, DocumentType, NoDocument

LEMMA IndexedUpdate ==
  ASSUME NEW j \in JobType, NEW k, k = [j EXCEPT !.indexed = TRUE]
  PROVE  /\ k \in JobType /\ k.todo = j.todo /\ k.dels = j.dels /\ k.seen = j.seen
         /\ SameFile(k, j) /\ SameBase(k, j) /\ SameScan(k, j)
         /\ k.errors = j.errors /\ k.warned = j.warned /\ k.undone = j.undone
BY DEF JobType, SameFile, SameBase, SameScan

LEMMA ErrorsUpdate ==
  ASSUME NEW j \in JobType, NEW b \in BOOLEAN, NEW k, k = [j EXCEPT !.errors = b]
  PROVE  /\ k \in JobType /\ k.todo = j.todo /\ k.dels = j.dels /\ k.seen = j.seen
         /\ SameFile(k, j) /\ SameBase(k, j) /\ SameScan(k, j)
         /\ k.errors = b /\ k.undone = j.undone
BY DEF JobType, SameFile, SameBase, SameScan

LEMMA OpUpdate ==
  ASSUME NEW op \in {"ingest", "reindex"}, NEW k, k = [NoJob EXCEPT !.op = op]
  PROVE  /\ k \in JobType /\ NoFile(k) /\ k.op = op /\ k.todo = {} /\ k.dels = {}
         /\ k.errors = FALSE /\ k.undone = FALSE /\ k.status = None
         /\ k.snapshot = [p \in Paths |-> NoDocument]
BY DEF NoJob, JobType, DocumentType, NoDocument, NoFile

LEMMA ReadUpdate ==
  ASSUME NEW j \in JobType, NEW c \in Contents, NEW k, k = [j EXCEPT !.read = c]
  PROVE  /\ k \in JobType /\ k.read = c /\ k.path = j.path /\ k.hash = j.hash /\ k.prev = j.prev
         /\ k.todo = j.todo /\ k.dels = j.dels /\ k.seen = j.seen
         /\ SameFlags(k, j) /\ SameBase(k, j) /\ SameScan(k, j)
BY DEF JobType, SameFlags, SameBase, SameScan

LEMMA UndoneUpdate ==
  ASSUME NEW j \in JobType, NEW k, k = [j EXCEPT !.undone = TRUE]
  PROVE  /\ k \in JobType /\ k.todo = j.todo /\ k.dels = j.dels /\ k.seen = j.seen
         /\ SameFile(k, j) /\ SameBase(k, j) /\ SameScan(k, j) /\ k.undone = TRUE /\ k.errors = j.errors
BY DEF JobType, SameFile, SameBase, SameScan

LEMMA PathUpdate ==
  ASSUME NEW j \in JobType, NEW p \in Paths, NEW k, k = [j EXCEPT !.path = p]
  PROVE  /\ k \in JobType /\ k.path = p /\ k.hash = j.hash /\ k.read = j.read /\ k.prev = j.prev
         /\ k.todo = j.todo /\ k.dels = j.dels /\ k.seen = j.seen
         /\ SameFlags(k, j) /\ SameBase(k, j) /\ SameScan(k, j)
BY DEF JobType, SameFlags, SameBase, SameScan

\* What the types of the fields say.
LEMMA JobFacts ==
  ASSUME job \in JobType
  PROVE  /\ job.op \in {"ingest", "reindex", None} /\ job.existing \in [Paths -> Contents \cup {None}]
         /\ job.todo \subseteq Paths /\ job.dels \subseteq Paths /\ job.sources \subseteq Paths
         /\ job.path \in Paths \cup {None} /\ job.hash \in Contents \cup {None}
         /\ job.read \in Contents \cup {None} /\ job.prev \in DocumentType
         /\ job.errors \in BOOLEAN /\ job.undone \in BOOLEAN
         /\ job.snapshot \in [Paths -> DocumentType] /\ job.status \in Statuses \cup {None}
         /\ job.seen \in KBType \cup {None}
BY DEF JobType

LEMMA DocumentFacts ==
  /\ NoDocument \in DocumentType /\ NoDocument.hash = None /\ NoDocument.text = None
  /\ \A d \in DocumentType : d.hash \in Contents \cup {None} /\ d.text \in Contents \cup {None}
  /\ \A d \in DocumentType : d = NoDocument <=> d.hash = None /\ d.text = None
BY DEF DocumentType, NoDocument

-----------------------------------------------------------------------------
(* The rows.                                                               *)

RowType == [Paths -> Contents \cup {None}]
Rows ==
  /\ kb \in KBType \cup {None} /\ rows \in RowType /\ text \in RowType
  /\ \A p \in Paths : text[p] # None => rows[p] # None

LEMMA PresentFacts ==
  ASSUME NEW f
  PROVE  /\ Present(f) \subseteq Paths /\ IsFiniteSet(Present(f)) /\ Cardinality(Present(f)) \in Nat
         /\ \A p \in Paths : p \in Present(f) <=> f[p] # None
<1>1. Present(f) \subseteq Paths /\ \A p \in Paths : p \in Present(f) <=> f[p] # None BY DEF Present
<1>2. IsFiniteSet(Present(f)) BY <1>1, PathsAssumption, FS_Subset
<1>3. QED BY <1>1, <1>2, FS_CardinalityType

LEMMA RefreshFacts ==
  ASSUME kb \in KBType, RefreshCounts
  PROVE  kb' \in KBType /\ kb' # None /\ CountsMatch'
<1>1. Cardinality(Present(rows')) \in Nat /\ Cardinality(Present(text')) \in Nat BY PresentFacts
<1>2. /\ kb' \in KBType /\ kb'.docs = Cardinality(Present(rows'))
      /\ kb'.chunks = Cardinality(Present(text'))
  BY <1>1 DEF RefreshCounts, KBType
<1>3. QED BY <1>2, NoneAssumption DEF CountsMatch, Present

LEMMA UpsertFacts ==
  ASSUME Rows, kb # None, NEW p \in Paths, NEW h \in Contents, UpsertDocument(p, h)
  PROVE  /\ Rows' /\ kb' # None /\ CountsMatch' /\ text' = text /\ rows'[p] = h
         /\ \A q \in Paths : q # p => rows'[q] = rows[q]
<1>1. rows' = [rows EXCEPT ![p] = h] /\ text' = text /\ RefreshCounts BY DEF UpsertDocument
<1>2. kb' \in KBType /\ kb' # None /\ CountsMatch' BY <1>1, RefreshFacts DEF Rows
<1>3. h # None BY ContentsAssumption
<1>4. QED BY <1>1, <1>2, <1>3 DEF Rows, RowType

LEMMA ReplaceFacts ==
  ASSUME Rows, kb # None, NEW p \in Paths, NEW c \in Contents \cup {None}, ReplaceChunks(p, c)
  PROVE  /\ Rows' /\ kb' # None /\ CountsMatch' /\ rows' = rows /\ text'[p] = c /\ rows[p] # None
         /\ \A q \in Paths : q # p => text'[q] = text[q]
<1>1. rows' = rows /\ text' = [text EXCEPT ![p] = c] /\ RefreshCounts /\ rows[p] # None
  BY DEF ReplaceChunks
<1>2. kb' \in KBType /\ kb' # None /\ CountsMatch' BY <1>1, RefreshFacts DEF Rows
<1>3. QED BY <1>1, <1>2 DEF Rows, RowType

LEMMA DeleteFacts ==
  ASSUME Rows, kb # None, NEW p \in Paths, DeleteDocument(p)
  PROVE  /\ Rows' /\ kb' # None /\ CountsMatch' /\ rows'[p] = None /\ text'[p] = None
         /\ \A q \in Paths : q # p => rows'[q] = rows[q] /\ text'[q] = text[q]
<1>1. /\ rows' = [rows EXCEPT ![p] = None] /\ text' = [text EXCEPT ![p] = None] /\ RefreshCounts
  BY DEF DeleteDocument
<1>2. kb' \in KBType /\ kb' # None /\ CountsMatch' BY <1>1, RefreshFacts DEF Rows
<1>3. QED BY <1>1, <1>2 DEF Rows, RowType

-----------------------------------------------------------------------------
(* The inductive invariant, first part: the locals and the rows.           *)

Types ==
  /\ root \in BOOLEAN /\ files \in RowType /\ pc \in SyncPC /\ job \in JobType
  /\ reg \in [Registrars -> {"idle", "write", "done"}]
  /\ changes \in Nat /\ failures \in Nat /\ cuts \in Nat /\ stable \in BOOLEAN

InHand == {"parse", "saveDocument", "saveChunks", "restoreDocument", "restoreChunks", "drop"}
Undoing == {"listRestore", "undo", "putDocument", "putChunks"}
HasText(d) == d.text # None => d.hash # None

\* Which locals are set at which step.
Shape ==
  /\ pc = "idle" => job = NoJob
  /\ pc # "idle" => kb # None /\ job.op \in {"ingest", "reindex"}
  /\ pc \in Undoing \cup {"snapshot", "clear"} => job.op = "reindex"
  /\ pc \notin InHand => job.prev = NoDocument
  /\ pc \notin InHand \cup {"putChunks"} => job.path = None
  /\ pc \in InHand \cup {"putChunks"} => job.path \in job.todo
  /\ pc \in {"parse", "saveDocument", "saveChunks"} => job.hash # None
  /\ pc \in {"saveDocument", "saveChunks"} => job.read # None
  /\ HasText(job.prev) /\ \A p \in Paths : HasText(job.snapshot[p])
  /\ pc \in Undoing => job.undone
  /\ job.undone => /\ pc \in Undoing \cup {"readRecord", "writeRecord"}
                   /\ job.op = "reindex" /\ job.status # None
  /\ pc = "writeRecord" => job.status # None /\ job.seen # None
  /\ pc \in {"readRecord", "writeRecord"} => job.undone \/ job.errors \/ (job.todo = {} /\ job.dels = {})
  /\ pc \in {"undo", "putDocument", "putChunks"} => \A p \in job.todo : job.snapshot[p] # NoDocument

\* How the rows stand to the locals: the document in hand is as it was read
\* until its first write, what is still to be read is as list_documents found
\* it, and a reindex starts from nothing.
Hand ==
  /\ pc \in InHand => text[job.path] = job.prev.text
  /\ pc \in {"parse", "saveDocument", "restoreChunks"} => rows[job.path] = job.prev.hash
  /\ pc = "saveChunks" => rows[job.path] = job.hash
  /\ pc \in {"restoreDocument", "restoreChunks"} => job.prev # NoDocument
  /\ pc = "drop" => job.prev = NoDocument
  /\ pc = "putChunks" => rows[job.path] = job.snapshot[job.path].hash
  /\ pc \in {"delete", "file"} \cup InHand =>
       /\ job.todo \subseteq job.sources /\ job.dels \cap job.sources = {}
       /\ \A p \in job.todo : p = job.path \/ rows[p] = job.existing[p]
  /\ pc \in {"file"} \cup InHand => job.dels = {}
  /\ pc = "clear" => \A p \in Paths : p \in job.dels \/ rows[p] = None
  /\ pc \in {"root", "list"} /\ job.op = "reindex" => \A p \in Paths : rows[p] = None

Core == Types /\ Rows /\ Shape /\ Hand

USE DEF disk, db, bounds, vars

\* The steps of the lock's holder: what they leave alone.
Frame == UNCHANGED <<disk, reg, changes, stable>>

LEMMA FrameTypes ==
  ASSUME Types, Frame, pc' \in SyncPC, job' \in JobType, failures' \in Nat, cuts' \in Nat
  PROVE  Types'
BY DEF Types, Frame

LEMMA NextFacts ==
  ASSUME NEW j
  PROVE  /\ NextPC(j) \in {"delete", "file", "readRecord"}
         /\ NextPC(j) # "delete" => j.dels = {}
         /\ NextPC(j) = "delete" => j.dels # {}
         /\ NextPC(j) = "readRecord" => j.todo = {}
         /\ NextPC(j) = "file" => j.todo # {}
BY DEF NextPC

LEMMA UndoFacts ==
  ASSUME NEW j
  PROVE  /\ AfterUndo(j) \in {"undo", "putDocument", "readRecord"}
         /\ AfterUndo(j) # "undo" => j.dels = {}
         /\ AfterUndo(j) = "readRecord" => j.todo = {}
BY DEF AfterUndo

\* A file is done with: it leaves the source files to go.
Released(p) ==
  /\ job' \in JobType /\ NoFile(job') /\ job'.todo = job.todo \ {p} /\ job'.dels = job.dels
  /\ job'.undone = job.undone /\ SameBase(job', job) /\ SameScan(job', job)
Failed == job'.errors = TRUE

LEMMA FailedFacts ==
  ASSUME job \in JobType, job.path \in Paths, job' = FailedFile
  PROVE  Released(job.path) /\ Failed
<1> DEFINE k == Without(job.path)
<1>1. k \in JobType /\ k.todo = job.todo \ {job.path} /\ k.dels = job.dels /\ NoFile(k)
      /\ SameFlags(k, job) /\ SameBase(k, job) /\ SameScan(k, job)
  BY WithoutFacts
<1>2. job' = [k EXCEPT !.errors = TRUE] BY DEF FailedFile
<1> HIDE DEF k
<1>3. /\ job' \in JobType /\ job'.todo = k.todo /\ job'.dels = k.dels
      /\ SameFile(job', k) /\ SameBase(job', k) /\ SameScan(job', k)
      /\ job'.errors = TRUE /\ job'.undone = k.undone
  BY <1>1, <1>2, ErrorsUpdate
<1>4. QED BY <1>1, <1>3 DEF Released, Failed, NoFile, SameFile, SameFlags, SameBase, SameScan

-----------------------------------------------------------------------------
(* What each step does.                                                    *)

LEMMA BeginFacts ==
  ASSUME Begin
  PROVE  /\ kb # None /\ pc = "idle" /\ pc' \in {"snapshot", "root"}
         /\ pc' = "snapshot" <=> job'.op = "reindex"
         /\ job' \in JobType /\ NoFile(job') /\ job'.op \in {"ingest", "reindex"}
         /\ job'.undone = FALSE /\ job'.snapshot = [p \in Paths |-> NoDocument]
         /\ stable' = TRUE /\ UNCHANGED <<root, files, kb, rows, text, reg, changes, failures, cuts>>
<1>1. PICK op \in {"ingest", "reindex"} :
        /\ pc' = IF op = "reindex" THEN "snapshot" ELSE "root"
        /\ job' = [NoJob EXCEPT !.op = op]
  BY DEF Begin
<1>2. /\ job' \in JobType /\ NoFile(job') /\ job'.op = op /\ job'.undone = FALSE
      /\ job'.snapshot = [p \in Paths |-> NoDocument]
  BY <1>1, OpUpdate
<1>3. QED BY <1>1, <1>2 DEF Begin

LEMMA SnapshotFacts ==
  ASSUME Types, Rows, Snapshot
  PROVE  /\ pc = "snapshot" /\ Frame /\ UNCHANGED <<kb, rows, text, failures, cuts>>
         /\ pc' \in {"clear", "root"} /\ (pc' = "root" => \A p \in Paths : rows[p] = None)
         /\ job' \in JobType /\ job'.snapshot = Index /\ job'.dels = Present(rows)
         /\ SameFile(job', job) /\ SameFlags(job', job) /\ job'.op = job.op /\ job'.status = job.status
<1>1. /\ pc = "snapshot" /\ Frame /\ UNCHANGED <<kb, rows, text, failures, cuts>>
      /\ pc' = IF Present(rows) # {} THEN "clear" ELSE "root"
      /\ job' = [job EXCEPT !.snapshot = Index, !.dels = Present(rows)]
  BY DEF Snapshot, Read, Step, Frame
<1>2. Index \in [Paths -> DocumentType] BY DEF Index, Document, DocumentType, Rows, RowType
<1>3. Present(rows) \subseteq Paths /\ \A p \in Paths : p \in Present(rows) <=> rows[p] # None
  BY PresentFacts
<1>4. /\ job' \in JobType /\ job'.snapshot = Index /\ job'.dels = Present(rows)
      /\ SameFile(job', job) /\ SameFlags(job', job) /\ job'.op = job.op /\ job'.status = job.status
  <2>1. Present(rows) \in SUBSET Paths /\ job \in JobType BY <1>3 DEF Types
  <2>2. QED BY <1>1, <1>2, <2>1 DEF JobType, SameFile, SameFlags
<1>5. QED BY <1>1, <1>3, <1>4

LEMMA ClearFacts ==
  ASSUME Types, Clear
  PROVE  \E p \in job.dels :
           /\ p \in Paths /\ pc = "clear" /\ Frame /\ UNCHANGED <<failures, cuts>>
           /\ pc' = IF job.dels = {p} THEN "root" ELSE "clear"
           /\ DeleteDocument(p)
           /\ job' \in JobType /\ job'.dels = job.dels \ {p} /\ job'.todo = job.todo
           /\ SameFile(job', job) /\ SameFlags(job', job) /\ SameBase(job', job) /\ SameScan(job', job)
<1>1. PICK p \in job.dels :
        /\ Write("clear", IF job.dels = {p} THEN "root" ELSE "clear")
        /\ DeleteDocument(p) /\ job' = [job EXCEPT !.dels = @ \ {p}]
  BY DEF Clear
<1>2. p \in Paths /\ job.dels \ {p} \in SUBSET Paths BY JobFacts DEF Types
<1>3. job' = [job EXCEPT !.dels = job.dels \ {p}] BY <1>1
<1>4. /\ pc = "clear" /\ pc' = (IF job.dels = {p} THEN "root" ELSE "clear") /\ Frame
      /\ UNCHANGED <<failures, cuts>>
  BY <1>1 DEF Write, Step, Frame
<1>5. QED BY <1>1, <1>2, <1>3, <1>4, DelsUpdate DEF Types

LEMMA CheckRootFacts ==
  ASSUME Types, CheckRoot
  PROVE  /\ pc = "root" /\ Frame /\ UNCHANGED <<kb, rows, text, failures, cuts>>
         /\ pc' = IF root THEN "list" ELSE "readRecord"
         /\ job' \in JobType /\ job'.errors = ~root /\ job'.todo = job.todo /\ job'.dels = job.dels
         /\ SameFile(job', job) /\ SameBase(job', job) /\ SameScan(job', job) /\ job'.undone = job.undone
<1>1. /\ pc = "root" /\ Frame /\ UNCHANGED <<kb, rows, text, failures, cuts>>
      /\ pc' = (IF root THEN "list" ELSE "readRecord") /\ job' = [job EXCEPT !.errors = ~root]
  BY DEF CheckRoot, Read, Step, Frame
<1>2. CASE root
  <2>1. job' = [job EXCEPT !.errors = FALSE] /\ job \in JobType BY <1>1, <1>2 DEF Types
  <2>2. QED BY <1>1, <1>2, <2>1, ErrorsUpdate
<1>3. CASE ~root
  <2>1. job' = [job EXCEPT !.errors = TRUE] /\ job \in JobType BY <1>1, <1>3 DEF Types
  <2>2. QED BY <1>1, <1>3, <2>1, ErrorsUpdate
<1>4. QED BY <1>2, <1>3

LEMMA ListFacts ==
  ASSUME Types, Rows, List
  PROVE  /\ pc = "list" /\ Frame /\ UNCHANGED <<kb, rows, text, failures, cuts>> /\ pc' = NextPC(job')
         /\ job' \in JobType /\ job'.existing = rows /\ job'.sources = job'.todo
         /\ job'.todo = (IF root THEN Present(files) ELSE {}) \ Unsupported
         /\ job'.dels = IF job.op = "reindex" THEN {} ELSE Present(rows) \ job'.todo
         /\ SameFile(job', job) /\ SameBase(job', job)
         /\ job'.errors = job.errors /\ job'.undone = job.undone
<1> DEFINE T == (IF root THEN Present(files) ELSE {}) \ Unsupported
           D == IF job.op = "reindex" THEN {} ELSE Present(rows) \ T
           W == (IF root THEN Present(files) ELSE {}) \cap Unsupported # {}
           k == [job EXCEPT !.existing = rows, !.todo = T, !.sources = T, !.warned = W, !.dels = D]
<1>1. /\ pc = "list" /\ Frame /\ UNCHANGED <<kb, rows, text, failures, cuts>>
      /\ pc' = NextPC(k) /\ job' = k
  BY DEF List, Read, Step, Frame
<1>2. T \in SUBSET Paths /\ D \in SUBSET Paths BY PresentFacts
<1>3. rows \in [Paths -> Contents \cup {None}] BY DEF Rows, RowType
<1>4. /\ k \in JobType /\ k.existing = rows /\ k.todo = T /\ k.sources = T /\ k.dels = D
      /\ SameFile(k, job) /\ SameBase(k, job) /\ k.errors = job.errors /\ k.undone = job.undone
  <2>0. job \in JobType /\ W \in BOOLEAN BY DEF Types
  <2> HIDE DEF T, D, W
  <2>1. k \in JobType
    <3> DEFINE j == [job EXCEPT !.existing = rows, !.todo = T, !.sources = T]
    <3>1. j \in JobType BY <1>2, <1>3, <2>0 DEF JobType
    <3>2. [j EXCEPT !.dels = D] \in JobType
      <4> HIDE DEF j
      <4>1. QED BY <1>2, <3>1 DEF JobType
    <3>3. k = [[j EXCEPT !.dels = D] EXCEPT !.warned = W] OBVIOUS
    <3> HIDE DEF j, k
    <3>4. QED BY <2>0, <3>2, <3>3 DEF JobType
  <2>2. k.existing = rows /\ k.todo = T /\ k.sources = T /\ k.dels = D
    BY DEF Types, JobType
  <2>3. SameFile(k, job) /\ SameBase(k, job) /\ k.errors = job.errors /\ k.undone = job.undone
    BY DEF Types, JobType, SameFile, SameBase
  <2>4. QED BY <2>1, <2>2, <2>3
<1> HIDE DEF k
<1>5. QED BY <1>1, <1>4

LEMMA DeletionFacts ==
  ASSUME Types, Delete \/ Undo
  PROVE  \E p \in job.dels :
           /\ p \in Paths /\ Frame /\ UNCHANGED <<failures, cuts>> /\ DeleteDocument(p)
           /\ \/ Delete /\ pc = "delete" /\ pc' = NextPC(job')
              \/ Undo /\ pc = "undo" /\ pc' = AfterUndo(job')
           /\ job' \in JobType /\ job'.dels = job.dels \ {p} /\ job'.todo = job.todo
           /\ SameFile(job', job) /\ SameFlags(job', job) /\ SameBase(job', job) /\ SameScan(job', job)
<1>1. PICK p \in job.dels :
        /\ \/ Delete /\ Write("delete", NextPC([job EXCEPT !.dels = @ \ {p}]))
           \/ Undo /\ Write("undo", AfterUndo([job EXCEPT !.dels = @ \ {p}]))
        /\ DeleteDocument(p) /\ job' = [job EXCEPT !.dels = @ \ {p}]
  BY DEF Delete, Undo
<1>2. p \in Paths /\ job.dels \ {p} \in SUBSET Paths BY JobFacts DEF Types
<1>3. job' = [job EXCEPT !.dels = job.dels \ {p}] BY <1>1
<1>4. /\ Frame /\ UNCHANGED <<failures, cuts>>
      /\ \/ Delete /\ pc = "delete" /\ pc' = NextPC(job')
         \/ Undo /\ pc = "undo" /\ pc' = AfterUndo(job')
  BY <1>1 DEF Write, Step, Frame
<1>5. QED BY <1>1, <1>2, <1>3, <1>4, DelsUpdate DEF Types

LEMMA SkipFileFacts ==
  ASSUME Types, SkipFile
  PROVE  \E p \in NextFile :
           /\ p \in job.todo /\ p \in Paths /\ files[p] # None /\ Skips(p)
           /\ pc = "file" /\ pc' = NextPC(job') /\ Frame /\ UNCHANGED <<kb, rows, text, failures, cuts>>
           /\ Released(p) /\ job'.errors = job.errors
<1>1. PICK p \in NextFile :
        /\ files[p] # None /\ Skips(p) /\ pc = "file" /\ pc' = NextPC(Without(p))
        /\ job' = Without(p) /\ Frame /\ UNCHANGED <<kb, rows, text, failures, cuts>>
  BY DEF SkipFile, Read, Step, Frame
<1>2. p \in job.todo /\ p \in Paths BY JobFacts DEF Types, NextFile
<1>3. Released(p) /\ job'.errors = job.errors BY <1>1, <1>2, WithoutFacts DEF Types, Released, SameFlags
<1>4. QED BY <1>1, <1>2, <1>3

LEMMA ReadHashFacts ==
  ASSUME Types, Rows, ReadHash
  PROVE  \E p \in NextFile :
           /\ p \in job.todo /\ p \in Paths /\ files[p] # None
           /\ pc = "file" /\ pc' = "parse" /\ Frame /\ UNCHANGED <<kb, rows, text, failures, cuts>>
           /\ job' \in JobType /\ job'.path = p /\ job'.hash = files[p] /\ job'.read = job.read
           /\ job'.prev = IF job.existing[p] = None THEN NoDocument ELSE Document(p)
           /\ job'.todo = job.todo /\ job'.dels = job.dels
           /\ SameFlags(job', job) /\ SameBase(job', job) /\ SameScan(job', job)
<1>1. PICK p \in NextFile :
        /\ files[p] # None /\ pc = "file" /\ pc' = "parse"
        /\ job' = [job EXCEPT !.path = p, !.hash = files[p],
                     !.prev = IF job.existing[p] = None THEN NoDocument ELSE Document(p)]
        /\ Frame /\ UNCHANGED <<kb, rows, text, failures, cuts>>
  BY DEF ReadHash, Read, Step, Frame
<1>2. p \in job.todo /\ p \in Paths /\ files[p] \in Contents BY <1>1, JobFacts DEF Types, RowType, NextFile
<1> DEFINE d == IF job.existing[p] = None THEN NoDocument ELSE Document(p)
<1>3. d \in DocumentType BY <1>2, DocumentFacts DEF Document, DocumentType, Rows, RowType
<1>4. job' = [job EXCEPT !.path = p, !.hash = files[p], !.prev = d] BY <1>1
<1>5. d = IF job.existing[p] = None THEN NoDocument ELSE Document(p) OBVIOUS
<1> HIDE DEF d
<1>6. /\ job' \in JobType /\ job'.path = p /\ job'.hash = files[p] /\ job'.read = job.read
      /\ job'.prev = d /\ job'.todo = job.todo /\ job'.dels = job.dels
      /\ SameFlags(job', job) /\ SameBase(job', job) /\ SameScan(job', job)
  BY <1>2, <1>3, <1>4 DEF Types, JobType, SameFlags, SameBase, SameScan
<1>7. QED BY <1>1, <1>2, <1>5, <1>6

LEMMA ParseFacts ==
  ASSUME Types, Shape, Parse
  PROVE  /\ pc = "parse" /\ pc' = "saveDocument" /\ Frame /\ UNCHANGED <<kb, rows, text, failures>>
         /\ job' \in JobType /\ job'.read = files[job.path] /\ job'.read # None
         /\ job'.path = job.path /\ job'.hash = job.hash /\ job'.prev = job.prev
         /\ job'.todo = job.todo /\ job'.dels = job.dels
         /\ SameFlags(job', job) /\ SameBase(job', job) /\ SameScan(job', job)
         /\ cuts' = cuts + IF job'.read = job.hash THEN 0 ELSE 1
<1>1. /\ pc = "parse" /\ pc' = "saveDocument" /\ files[job.path] # None
      /\ Frame /\ UNCHANGED <<kb, rows, text, failures>>
      /\ job' = [job EXCEPT !.read = files[job.path]]
      /\ cuts' = cuts + IF files[job.path] = job.hash THEN 0 ELSE 1
  BY DEF Parse, Read, Step, Frame
<1>2. job.path \in Paths BY <1>1, JobFacts DEF Types, Shape, InHand
<1>3. files[job.path] \in Contents BY <1>1, <1>2 DEF Types, RowType
<1>4. QED BY <1>1, <1>3, ReadUpdate DEF Types

LEMMA SaveDocumentFacts ==
  ASSUME SaveDocument
  PROVE  /\ pc = "saveDocument" /\ pc' = "saveChunks" /\ Frame /\ UNCHANGED <<job, failures, cuts>>
         /\ UpsertDocument(job.path, job.hash)
BY DEF SaveDocument, Write, Step, Frame

LEMMA SaveChunksFacts ==
  ASSUME Types, Shape, SaveChunks
  PROVE  /\ pc = "saveChunks" /\ pc' = NextPC(job') /\ Frame /\ UNCHANGED <<failures, cuts>>
         /\ ReplaceChunks(job.path, ChunksOf(job.read))
         /\ Released(job.path) /\ job'.errors = job.errors
<1> DEFINE k == Without(job.path)
<1>1. /\ pc = "saveChunks" /\ job' = [k EXCEPT !.indexed = TRUE] /\ pc' = NextPC([k EXCEPT !.indexed = TRUE])
      /\ Frame /\ UNCHANGED <<failures, cuts>> /\ ReplaceChunks(job.path, ChunksOf(job.read))
  BY DEF SaveChunks, Write, Step, Frame
<1>2. job.path \in Paths BY <1>1, JobFacts DEF Types, Shape, InHand
<1>3. k \in JobType /\ k.todo = job.todo \ {job.path} /\ k.dels = job.dels /\ NoFile(k)
      /\ SameFlags(k, job) /\ SameBase(k, job) /\ SameScan(k, job)
  BY <1>2, WithoutFacts DEF Types
<1> HIDE DEF k
<1>4. /\ job' \in JobType /\ job'.todo = k.todo /\ job'.dels = k.dels
      /\ SameFile(job', k) /\ SameBase(job', k) /\ SameScan(job', k)
      /\ job'.errors = k.errors /\ job'.undone = k.undone
  BY <1>1, <1>3, IndexedUpdate
<1>5. Released(job.path) /\ job'.errors = job.errors
  BY <1>3, <1>4 DEF Released, NoFile, SameFile, SameFlags, SameBase, SameScan
<1>6. QED BY <1>1, <1>5

LEMMA FileFailsFacts ==
  ASSUME Types, Shape, FileFails
  PROVE  /\ pc \in {"parse", "saveDocument", "saveChunks"} /\ Frame /\ UNCHANGED <<kb, rows, text, cuts>>
         /\ failures' \in Nat
         /\ \/ pc' = "restoreDocument" /\ job.prev # NoDocument /\ UNCHANGED job
            \/ pc' = "drop" /\ pc # "parse" /\ job.prev = NoDocument /\ UNCHANGED job
            \/ pc = "parse" /\ job.prev = NoDocument /\ pc' = NextPC(job') /\ Released(job.path) /\ Failed
<1>1. PICK from \in {"parse", "saveDocument", "saveChunks"} :
        /\ pc = from /\ pc' = Handler(from) /\ Frame /\ UNCHANGED <<kb, rows, text, cuts>>
        /\ job' = IF Handler(from) = NextPC(FailedFile) THEN FailedFile ELSE job
        /\ failures' = failures \/ failures' = failures + 1
  BY DEF FileFails, Step, Frame
<1>2. failures' \in Nat BY <1>1 DEF Types
<1>3. NextPC(FailedFile) \in {"delete", "file", "readRecord"} BY NextFacts
<1>4. CASE job.prev # NoDocument BY <1>1, <1>2, <1>3, <1>4 DEF Handler
<1>5. CASE job.prev = NoDocument /\ pc # "parse" BY <1>1, <1>2, <1>3, <1>5 DEF Handler
<1>6. CASE job.prev = NoDocument /\ pc = "parse"
  <2>1. job' = FailedFile /\ pc' = NextPC(job') BY <1>1, <1>6 DEF Handler
  <2>2. job.path \in Paths BY <1>6, JobFacts DEF Types, Shape, InHand
  <2>3. Released(job.path) /\ Failed BY <2>1, <2>2, FailedFacts DEF Types
  <2>4. QED BY <1>1, <1>2, <1>6, <2>1, <2>3
<1>7. QED BY <1>4, <1>5, <1>6

LEMMA RestoreDocumentFacts ==
  ASSUME RestoreDocument
  PROVE  /\ pc = "restoreDocument" /\ pc' = "restoreChunks" /\ Frame /\ UNCHANGED <<job, failures, cuts>>
         /\ UpsertDocument(job.path, job.prev.hash)
BY DEF RestoreDocument, Write, Step, Frame

LEMMA HandlerFacts ==
  ASSUME Types, Shape, RestoreChunks \/ Drop
  PROVE  /\ pc' = NextPC(job') /\ Frame /\ UNCHANGED <<failures, cuts>>
         /\ \/ pc = "restoreChunks" /\ ReplaceChunks(job.path, job.prev.text)
            \/ pc = "drop" /\ DeleteDocument(job.path)
         /\ Released(job.path) /\ Failed
<1>1. /\ pc' = NextPC(FailedFile) /\ job' = FailedFile /\ Frame /\ UNCHANGED <<failures, cuts>>
      /\ \/ pc = "restoreChunks" /\ ReplaceChunks(job.path, job.prev.text)
         \/ pc = "drop" /\ DeleteDocument(job.path)
  BY DEF RestoreChunks, Drop, Write, Step, Frame
<1>2. job.path \in Paths BY <1>1, JobFacts DEF Types, Shape, InHand
<1>3. QED BY <1>1, <1>2, FailedFacts DEF Types

LEMMA ReadRecordFacts ==
  ASSUME Types, Rows, Shape, ReadRecord
  PROVE  /\ pc = "readRecord" /\ pc' = "writeRecord" /\ Frame /\ UNCHANGED <<kb, rows, text, failures, cuts>>
         /\ job' \in JobType /\ job'.seen = kb /\ job'.seen # None /\ job'.status # None
         /\ job'.status = (IF job.status = None THEN BatchStatus ELSE "failed")
         /\ job'.todo = job.todo /\ job'.dels = job.dels /\ job'.op = job.op /\ job'.snapshot = job.snapshot
         /\ SameFile(job', job) /\ SameFlags(job', job) /\ SameScan(job', job)
<1> DEFINE t == IF job.status = None THEN BatchStatus ELSE "failed"
<1>1. /\ pc = "readRecord" /\ pc' = "writeRecord" /\ Frame /\ UNCHANGED <<kb, rows, text, failures, cuts>>
      /\ job' = [job EXCEPT !.seen = kb, !.status = t]
  BY DEF ReadRecord, Read, Step, Frame
<1>2. t \in Statuses BY DEF BatchStatus, Statuses, Ready
<1>3. kb # None /\ kb \in KBType /\ t # None BY <1>1, <1>2, NoneAssumption DEF Shape, Rows
<1>4. t = IF job.status = None THEN BatchStatus ELSE "failed" OBVIOUS
<1> HIDE DEF t
<1>5. /\ job' \in JobType /\ job'.seen = kb /\ job'.status = t
      /\ job'.todo = job.todo /\ job'.dels = job.dels /\ job'.op = job.op /\ job'.snapshot = job.snapshot
      /\ SameFile(job', job) /\ SameFlags(job', job) /\ SameScan(job', job)
  BY <1>1, <1>2, <1>3 DEF Types, JobType, SameFile, SameFlags, SameScan
<1>6. QED BY <1>1, <1>3, <1>4, <1>5

LEMMA WriteRecordFacts ==
  ASSUME Types, Rows, Shape, WriteRecord
  PROVE  /\ pc = "writeRecord" /\ Frame /\ UNCHANGED <<rows, text, failures, cuts>>
         /\ kb' \in KBType /\ kb'.docs = job.seen.docs /\ kb'.chunks = job.seen.chunks
         /\ \/ ~Unsuccessful /\ pc' = "idle" /\ job' = NoJob
            \/ /\ Unsuccessful /\ pc' = (IF HasSnapshot THEN "listRestore" ELSE "readRecord")
               /\ job' \in JobType /\ job'.undone = TRUE
               /\ job'.todo = job.todo /\ job'.dels = job.dels
               /\ SameFile(job', job) /\ SameBase(job', job) /\ SameScan(job', job)
<1>1. /\ pc = "writeRecord" /\ Frame /\ UNCHANGED <<rows, text, failures, cuts>>
      /\ kb' = [job.seen EXCEPT !.status = job.status]
      /\ \/ ~Unsuccessful /\ pc' = "idle" /\ job' = NoJob
         \/ /\ Unsuccessful /\ pc' = (IF HasSnapshot THEN "listRestore" ELSE "readRecord")
            /\ job' = [job EXCEPT !.undone = TRUE]
  BY DEF WriteRecord, Write, Step, Frame
<1>2. job.seen \in KBType /\ job.status \in Statuses BY <1>1, JobFacts DEF Shape, Types
<1>3. kb' \in KBType /\ kb'.docs = job.seen.docs /\ kb'.chunks = job.seen.chunks
  BY <1>1, <1>2 DEF KBType
<1>4. CASE ~Unsuccessful BY <1>1, <1>3, <1>4
<1>5. CASE Unsuccessful
  <2>1. job' = [job EXCEPT !.undone = TRUE] BY <1>1, <1>5
  <2>2. QED BY <1>1, <1>3, <1>5, <2>1, UndoneUpdate DEF Types
<1>6. QED BY <1>4, <1>5

LEMMA ListRestoreFacts ==
  ASSUME Types, ListRestore
  PROVE  /\ pc = "listRestore" /\ pc' = AfterUndo(job') /\ Frame /\ UNCHANGED <<kb, rows, text, failures, cuts>>
         /\ job' \in JobType /\ job'.dels = Present(rows)
         /\ job'.todo = {p \in Paths : job.snapshot[p] # NoDocument}
         /\ SameFile(job', job) /\ SameFlags(job', job) /\ SameBase(job', job) /\ SameScan(job', job)
<1> DEFINE D == Present(rows)
           T == {p \in Paths : job.snapshot[p] # NoDocument}
<1>1. /\ pc = "listRestore" /\ pc' = AfterUndo([job EXCEPT !.dels = D, !.todo = T])
      /\ Frame /\ UNCHANGED <<kb, rows, text, failures, cuts>>
      /\ job' = [job EXCEPT !.dels = D, !.todo = T]
  BY DEF ListRestore, Read, Step, Frame
<1>2. D \in SUBSET Paths /\ T \in SUBSET Paths BY PresentFacts
<1>3. D = Present(rows) /\ T = {p \in Paths : job.snapshot[p] # NoDocument} OBVIOUS
<1> HIDE DEF D, T
<1>4. /\ job' \in JobType /\ job'.dels = D /\ job'.todo = T
      /\ SameFile(job', job) /\ SameFlags(job', job) /\ SameBase(job', job) /\ SameScan(job', job)
  BY <1>1, <1>2 DEF Types, JobType, SameFile, SameFlags, SameBase, SameScan
<1>5. pc' = AfterUndo(job') BY <1>1
<1>6. QED BY <1>1, <1>3, <1>4, <1>5

LEMMA PutDocumentFacts ==
  ASSUME Types, PutDocument
  PROVE  \E p \in job.todo :
           /\ p \in Paths /\ pc = "putDocument" /\ pc' = "putChunks" /\ Frame /\ UNCHANGED <<failures, cuts>>
           /\ UpsertDocument(p, job.snapshot[p].hash)
           /\ job' \in JobType /\ job'.path = p /\ job'.prev = job.prev
           /\ job'.todo = job.todo /\ job'.dels = job.dels
           /\ SameFlags(job', job) /\ SameBase(job', job) /\ SameScan(job', job)
<1>1. PICK p \in NextFile :
        /\ pc = "putDocument" /\ pc' = "putChunks" /\ Frame /\ UNCHANGED <<failures, cuts>>
        /\ UpsertDocument(p, job.snapshot[p].hash) /\ job' = [job EXCEPT !.path = p]
  BY DEF PutDocument, Write, Step, Frame
<1>2. p \in job.todo /\ p \in Paths BY JobFacts DEF Types, NextFile
<1>3. QED BY <1>1, <1>2, PathUpdate DEF Types

LEMMA PutChunksFacts ==
  ASSUME Types, Shape, PutChunks
  PROVE  /\ pc = "putChunks" /\ pc' = AfterUndo(job') /\ Frame /\ UNCHANGED <<failures, cuts>>
         /\ ReplaceChunks(job.path, job.snapshot[job.path].text)
         /\ Released(job.path) /\ job'.errors = job.errors
<1>1. /\ pc = "putChunks" /\ pc' = AfterUndo(job') /\ Frame /\ UNCHANGED <<failures, cuts>>
      /\ ReplaceChunks(job.path, job.snapshot[job.path].text) /\ job' = Without(job.path)
  BY DEF PutChunks, Write, Step, Frame
<1>2. job.path \in Paths BY <1>1, JobFacts DEF Types, Shape, InHand
<1>3. QED BY <1>1, <1>2, WithoutFacts DEF Types, Released, SameFlags

\* A sync that an exception or a crash ends.
LEMMA CutFacts ==
  ASSUME Types, Escape \/ Crash
  PROVE  /\ pc' = "idle" /\ job' = NoJob /\ UNCHANGED <<root, files, kb, rows, text, changes, stable>>
         /\ failures' \in Nat /\ reg' \in [Registrars -> {"idle", "write", "done"}]
         /\ \A g \in Registrars : reg'[g] = "write" => reg[g] = "write"
         /\ cuts' = cuts + IF pc = "idle" THEN 0 ELSE 1
<1>1. CASE Escape
  <2>1. /\ pc # "idle" /\ pc' = "idle" /\ job' = NoJob /\ cuts' = cuts + 1
        /\ UNCHANGED <<root, files, kb, rows, text, changes, stable, reg>>
        /\ failures' = failures \/ failures' = failures + 1
    BY <1>1 DEF Escape, Step
  <2>2. QED BY <2>1 DEF Types
<1>2. CASE Crash BY <1>2 DEF Crash, Types
<1>3. QED BY <1>1, <1>2

-----------------------------------------------------------------------------
(* The first part of the invariant is kept.                                *)

LEMMA CoreInit == Init => Core
<1> SUFFICES ASSUME Init PROVE Core OBVIOUS
<1>1. Types /\ Rows
  BY NoJobFacts, BoundsAssumption DEF Init, Types, Rows, RowType, SyncPC
<1>2. Shape /\ Hand
  <2>1. pc = "idle" /\ job = NoJob BY DEF Init
  <2>2. \A p \in Paths : HasText(job.snapshot[p]) BY <2>1, NoJobFacts, DocumentFacts DEF HasText
  <2>3. HasText(job.prev) BY <2>1, NoJobFacts, DocumentFacts DEF HasText, NoFile
  <2>4. QED BY <2>1, <2>2, <2>3, NoJobFacts DEF Shape, Hand, InHand, Undoing, NoFile
<1>3. QED BY <1>1, <1>2 DEF Core

\* Nobody holds the lock: nothing is claimed but that the locals are reset.
LEMMA IdleCore ==
  ASSUME Types', Rows', pc' = "idle", job' = NoJob
  PROVE  Core'
<1>1. \A p \in Paths : HasText(job'.snapshot[p]) BY NoJobFacts, DocumentFacts DEF HasText
<1>2. HasText(job'.prev) BY NoJobFacts, DocumentFacts DEF HasText, NoFile
<1>3. QED BY <1>1, <1>2, NoJobFacts DEF Core, Shape, Hand, InHand, Undoing, NoFile

\* A step that no part of the sync takes: registrations and the file system.
LEMMA OutsideCore ==
  ASSUME Core, UNCHANGED <<rows, text, pc, job>>, Types', kb' \in KBType \/ UNCHANGED kb
  PROVE  Core'
<1>1. Rows' BY DEF Core, Rows
<1>2. kb # None => kb' # None BY NoneAssumption
<1>3. Shape' BY <1>2 DEF Core, Shape
<1>4. Hand' BY DEF Core, Hand
<1>5. QED BY <1>1, <1>3, <1>4 DEF Core

LEMMA ReleasedCore ==
  ASSUME Core, NEW p \in Paths, p \in job.todo, pc \in {"file"} \cup InHand, job.path \in {p, None},
         Released(p), pc' = NextPC(job'), Types', Rows', kb' # None,
         \A q \in Paths : q # p => rows'[q] = rows[q]
  PROVE  Core'
<1>1. pc' \in {"delete", "file", "readRecord"} /\ (pc' = "delete" => job'.dels # {})
      /\ (pc' # "delete" => job'.dels = {}) /\ (pc' = "readRecord" => job'.todo = {})
  BY NextFacts
<1>2. /\ job'.path = None /\ job'.prev = NoDocument /\ job'.op = job.op /\ job'.snapshot = job.snapshot
      /\ job'.undone = job.undone /\ job'.todo = job.todo \ {p} /\ job'.dels = job.dels
      /\ job'.sources = job.sources /\ job'.existing = job.existing
  BY DEF Released, NoFile, SameBase, SameScan
<1>3. job.dels = {} /\ job.undone = FALSE /\ job.op \in {"ingest", "reindex"} /\ pc # "idle"
  BY JobFacts DEF Core, Types, Shape, Hand, InHand, Undoing
<1>4. Shape'
  <2>1. HasText(job'.prev) BY <1>2, DocumentFacts DEF HasText
  <2>2. \A q \in Paths : HasText(job'.snapshot[q]) BY <1>2 DEF Core, Shape
  <2>3. QED BY <1>1, <1>2, <1>3, <2>1, <2>2 DEF Shape, InHand, Undoing
<1>5. Hand'
  <2>1. pc' # "delete" BY <1>1, <1>2, <1>3
  <2>2. job'.todo \subseteq job'.sources BY <1>2 DEF Core, Hand
  <2>3. ASSUME NEW q \in job'.todo PROVE rows'[q] = job'.existing[q]
    <3>1. q \in job.todo /\ q # p /\ q \in Paths BY <1>2, JobFacts DEF Core, Types
    <3>2. q # job.path BY <3>1, ContentsAssumption
    <3>3. QED BY <1>2, <3>1, <3>2 DEF Core, Hand
  <2>4. QED BY <1>1, <1>2, <1>3, <2>1, <2>2, <2>3 DEF Hand, InHand
<1>6. QED BY <1>4, <1>5 DEF Core

LEMMA BeginCore == ASSUME Core, Begin PROVE Core'
<1>1. /\ kb # None /\ pc = "idle" /\ pc' \in {"snapshot", "root"} /\ (pc' = "snapshot" <=> job'.op = "reindex")
      /\ job' \in JobType /\ NoFile(job') /\ job'.op \in {"ingest", "reindex"}
      /\ job'.undone = FALSE /\ job'.snapshot = [p \in Paths |-> NoDocument]
      /\ stable' = TRUE /\ UNCHANGED <<root, files, kb, rows, text, reg, changes, failures, cuts>>
  BY BeginFacts
<1>2. Types' /\ Rows' BY <1>1 DEF Core, Types, Rows, SyncPC
<1>3. Shape'
  <2>1. HasText(job'.prev) /\ \A p \in Paths : HasText(job'.snapshot[p])
    BY <1>1, DocumentFacts DEF HasText, NoFile
  <2>2. QED BY <1>1, <2>1 DEF Shape, InHand, Undoing, NoFile
<1>4. Hand' BY <1>1 DEF Hand, InHand
<1>5. QED BY <1>2, <1>3, <1>4 DEF Core

LEMMA SnapshotCore == ASSUME Core, Snapshot PROVE Core'
<1>1. /\ pc = "snapshot" /\ Frame /\ UNCHANGED <<kb, rows, text, failures, cuts>>
      /\ pc' \in {"clear", "root"} /\ (pc' = "root" => \A p \in Paths : rows[p] = None)
      /\ job' \in JobType /\ job'.snapshot = Index /\ job'.dels = Present(rows)
      /\ job'.path = job.path /\ job'.prev = job.prev /\ job'.op = job.op /\ job'.undone = job.undone
  BY SnapshotFacts DEF Core, SameFile, SameFlags
<1>2. pc' \in SyncPC /\ failures' \in Nat /\ cuts' \in Nat BY <1>1 DEF Core, Types, SyncPC
<1>3. Types' /\ Rows' BY <1>1, <1>2, FrameTypes DEF Core, Rows
<1>4. Shape'
  <2>1. \A p \in Paths : HasText(Index[p]) BY DEF Core, Rows, HasText, Index, Document
  <2>2. kb # None /\ job.op = "reindex" /\ job.prev = NoDocument /\ job.path = None /\ job.undone = FALSE
        /\ HasText(job.prev)
    BY <1>1, JobFacts DEF Core, Types, Shape, InHand, Undoing
  <2>3. QED BY <1>1, <2>1, <2>2 DEF Shape, InHand, Undoing
<1>5. Hand'
  <2>1. pc' = "clear" => \A p \in Paths : p \in job'.dels \/ rows'[p] = None BY <1>1, PresentFacts
  <2>2. QED BY <1>1, <2>1 DEF Hand, InHand
<1>6. QED BY <1>3, <1>4, <1>5 DEF Core

LEMMA ClearCore == ASSUME Core, Clear PROVE Core'
<1>1. PICK p \in job.dels :
        /\ p \in Paths /\ pc = "clear" /\ Frame /\ UNCHANGED <<failures, cuts>>
        /\ pc' = (IF job.dels = {p} THEN "root" ELSE "clear")
        /\ DeleteDocument(p)
        /\ job' \in JobType /\ job'.dels = job.dels \ {p} /\ job'.path = job.path /\ job'.prev = job.prev
        /\ job'.op = job.op /\ job'.undone = job.undone /\ job'.snapshot = job.snapshot
  BY ClearFacts DEF Core, SameFile, SameFlags, SameBase
<1>2. /\ kb # None /\ job.op = "reindex" /\ job.prev = NoDocument /\ job.path = None /\ job.undone = FALSE
      /\ HasText(job.prev) /\ \A q \in Paths : HasText(job.snapshot[q])
  BY <1>1, JobFacts DEF Core, Types, Shape, InHand, Undoing
<1>3. /\ Rows' /\ kb' # None /\ rows'[p] = None /\ \A q \in Paths : q # p => rows'[q] = rows[q]
  BY <1>1, <1>2, DeleteFacts DEF Core
<1>4. pc' \in SyncPC /\ failures' \in Nat /\ cuts' \in Nat BY <1>1 DEF Core, Types, SyncPC
<1>5. Types' BY <1>1, <1>4, FrameTypes DEF Core
<1>6. Shape' BY <1>1, <1>2, <1>3 DEF Shape, InHand, Undoing
<1>7. Hand'
  <2>1. \A q \in Paths : q \in job'.dels \/ rows'[q] = None BY <1>1, <1>3 DEF Core, Hand
  <2>2. job.dels = {p} => job'.dels = {} BY <1>1
  <2>3. QED BY <1>1, <2>1, <2>2 DEF Hand, InHand
<1>8. QED BY <1>3, <1>5, <1>6, <1>7 DEF Core

LEMMA CheckRootCore == ASSUME Core, CheckRoot PROVE Core'
<1>1. /\ pc = "root" /\ Frame /\ UNCHANGED <<kb, rows, text, failures, cuts>>
      /\ pc' = (IF root THEN "list" ELSE "readRecord")
      /\ job' \in JobType /\ job'.errors = ~root /\ job'.path = job.path /\ job'.prev = job.prev
      /\ job'.op = job.op /\ job'.undone = job.undone /\ job'.snapshot = job.snapshot
  BY CheckRootFacts DEF Core, SameFile, SameBase
<1>2. /\ kb # None /\ job.op \in {"ingest", "reindex"} /\ job.prev = NoDocument /\ job.path = None
      /\ job.undone = FALSE /\ HasText(job.prev) /\ \A q \in Paths : HasText(job.snapshot[q])
  BY <1>1, JobFacts DEF Core, Types, Shape, InHand, Undoing
<1>3. pc' \in SyncPC /\ failures' \in Nat /\ cuts' \in Nat BY <1>1 DEF Core, Types, SyncPC
<1>4. Types' /\ Rows' BY <1>1, <1>3, FrameTypes DEF Core, Rows
<1>5. Shape'
  <2>1. pc' \in {"list", "readRecord"} /\ (pc' = "readRecord" => job'.errors) BY <1>1
  <2>2. QED BY <1>1, <1>2, <2>1 DEF Shape, InHand, Undoing
<1>6. Hand' BY <1>1 DEF Core, Hand, InHand
<1>7. QED BY <1>4, <1>5, <1>6 DEF Core

LEMMA ListCore == ASSUME Core, List PROVE Core'
<1>1. /\ pc = "list" /\ Frame /\ UNCHANGED <<kb, rows, text, failures, cuts>> /\ pc' = NextPC(job')
      /\ job' \in JobType /\ job'.existing = rows /\ job'.sources = job'.todo
      /\ job'.dels = (IF job.op = "reindex" THEN {} ELSE Present(rows) \ job'.todo)
      /\ job'.path = job.path /\ job'.prev = job.prev
      /\ job'.op = job.op /\ job'.undone = job.undone /\ job'.snapshot = job.snapshot
  BY ListFacts DEF Core, SameFile, SameBase
<1>2. /\ kb # None /\ job.op \in {"ingest", "reindex"} /\ job.prev = NoDocument /\ job.path = None
      /\ job.undone = FALSE /\ HasText(job.prev) /\ \A q \in Paths : HasText(job.snapshot[q])
  BY <1>1, JobFacts DEF Core, Types, Shape, InHand, Undoing
<1>3. pc' \in {"delete", "file", "readRecord"} /\ (pc' # "delete" => job'.dels = {})
      /\ (pc' = "readRecord" => job'.todo = {})
  BY <1>1, NextFacts
<1>4. pc' \in SyncPC /\ failures' \in Nat /\ cuts' \in Nat BY <1>1, <1>3 DEF Core, Types, SyncPC
<1>5. Types' /\ Rows' BY <1>1, <1>4, FrameTypes DEF Core, Rows
<1>6. Shape' BY <1>1, <1>2, <1>3 DEF Shape, InHand, Undoing
<1>7. Hand'
  <2>1. job'.dels \cap job'.sources = {} BY <1>1
  <2>2. QED BY <1>1, <1>3, <2>1 DEF Hand, InHand
<1>8. QED BY <1>5, <1>6, <1>7 DEF Core

LEMMA DeletionCore == ASSUME Core, Delete \/ Undo PROVE Core'
<1>1. PICK p \in job.dels :
        /\ p \in Paths /\ Frame /\ UNCHANGED <<failures, cuts>> /\ DeleteDocument(p)
        /\ \/ Delete /\ pc = "delete" /\ pc' = NextPC(job')
           \/ Undo /\ pc = "undo" /\ pc' = AfterUndo(job')
        /\ job' \in JobType /\ job'.dels = job.dels \ {p} /\ job'.todo = job.todo
        /\ job'.path = job.path /\ job'.prev = job.prev /\ job'.existing = job.existing
        /\ job'.sources = job.sources /\ job'.op = job.op /\ job'.undone = job.undone
        /\ job'.snapshot = job.snapshot /\ job'.status = job.status
  BY DeletionFacts DEF Core, SameFile, SameFlags, SameBase, SameScan
<1>2. /\ kb # None /\ job.op \in {"ingest", "reindex"} /\ job.prev = NoDocument /\ job.path = None
      /\ HasText(job.prev) /\ \A q \in Paths : HasText(job.snapshot[q])
  BY <1>1 DEF Core, Shape, InHand
<1>3. /\ Rows' /\ kb' # None /\ rows'[p] = None /\ \A q \in Paths : q # p => rows'[q] = rows[q]
  BY <1>1, <1>2, DeleteFacts DEF Core
<1>4. CASE pc = "delete" /\ pc' = NextPC(job')
  <2>1. pc' \in {"delete", "file", "readRecord"} /\ (pc' # "delete" => job'.dels = {})
        /\ (pc' = "readRecord" => job'.todo = {})
    BY <1>4, NextFacts
  <2>2. pc' \in SyncPC /\ failures' \in Nat /\ cuts' \in Nat BY <1>1, <2>1 DEF Core, Types, SyncPC
  <2>3. Types' BY <1>1, <2>2, FrameTypes DEF Core
  <2>4. job.undone = FALSE BY <1>4, JobFacts DEF Core, Types, Shape, Undoing
  <2>5. Shape' BY <1>1, <1>2, <1>3, <2>1, <2>4 DEF Shape, InHand, Undoing
  <2>6. Hand'
    <3>1. job.todo \subseteq job.sources /\ job.dels \cap job.sources = {} /\ job.todo \subseteq Paths
          /\ \A q \in job.todo : q = job.path \/ rows[q] = job.existing[q]
      BY <1>4, JobFacts DEF Core, Types, Hand
    <3>2. \A q \in job'.todo : q = job'.path \/ rows'[q] = job'.existing[q] BY <1>1, <1>3, <3>1
    <3>3. QED BY <1>1, <2>1, <3>1, <3>2 DEF Hand, InHand
  <2>7. QED BY <1>3, <2>3, <2>5, <2>6 DEF Core
<1>5. CASE pc = "undo" /\ pc' = AfterUndo(job')
  <2>1. pc' \in {"undo", "putDocument", "readRecord"} /\ (pc' # "undo" => job'.dels = {})
        /\ (pc' = "readRecord" => job'.todo = {})
    BY <1>5, UndoFacts
  <2>2. pc' \in SyncPC /\ failures' \in Nat /\ cuts' \in Nat BY <1>1, <2>1 DEF Core, Types, SyncPC
  <2>3. Types' BY <1>1, <2>2, FrameTypes DEF Core
  <2>4. job.undone /\ job.op = "reindex" /\ job.status # None BY <1>5 DEF Core, Shape, Undoing
  <2>5. \A q \in job'.todo : job'.snapshot[q] # NoDocument
    BY <1>1, <1>5 DEF Core, Shape
  <2>6. Shape' BY <1>1, <1>2, <1>3, <2>1, <2>4, <2>5 DEF Shape, InHand, Undoing
  <2>7. Hand' BY <2>1 DEF Hand, InHand
  <2>8. QED BY <1>3, <2>3, <2>6, <2>7 DEF Core
<1>6. QED BY <1>1, <1>4, <1>5

LEMMA SkipFileCore == ASSUME Core, SkipFile PROVE Core'
<1>1. PICK p \in Paths :
        /\ p \in job.todo /\ pc = "file" /\ pc' = NextPC(job') /\ Frame
        /\ UNCHANGED <<kb, rows, text, failures, cuts>> /\ Released(p)
  BY SkipFileFacts DEF Core
<1>2. kb # None /\ job.path = None BY <1>1 DEF Core, Shape, InHand
<1>3. pc' \in SyncPC /\ job' \in JobType BY <1>1, NextFacts DEF SyncPC, Released
<1>4. Types' /\ Rows' BY <1>1, <1>3, FrameTypes DEF Core, Types, Rows
<1>5. QED BY <1>1, <1>2, <1>4, ReleasedCore

\* The steps that keep the file in hand.
LEMMA FileCore ==
  ASSUME Core, pc \in {"file"} \cup InHand, pc' \in InHand, Frame, cuts' \in Nat, failures' \in Nat,
         job' \in JobType, job'.op = job.op, job'.undone = job.undone, job'.snapshot = job.snapshot,
         job'.todo = job.todo, job'.dels = job.dels,
         job'.sources = job.sources, job'.existing = job.existing,
         job'.path \in job.todo, job.path \in {job'.path, None}, HasText(job'.prev),
         Rows', kb' # None, \A q \in Paths : q # job'.path => rows'[q] = rows[q],
         pc' \in {"parse", "saveDocument", "saveChunks"} => job'.hash # None,
         pc' \in {"saveDocument", "saveChunks"} => job'.read # None,
         text'[job'.path] = job'.prev.text,
         pc' \in {"parse", "saveDocument", "restoreChunks"} => rows'[job'.path] = job'.prev.hash,
         pc' = "saveChunks" => rows'[job'.path] = job'.hash,
         pc' \in {"restoreDocument", "restoreChunks"} => job'.prev # NoDocument,
         pc' = "drop" => job'.prev = NoDocument
  PROVE  Core'
<1>1. job.undone = FALSE /\ job.op \in {"ingest", "reindex"} /\ job.todo \subseteq Paths
  BY JobFacts DEF Core, Types, Shape, InHand, Undoing
<1>2. pc' \in SyncPC BY DEF InHand, SyncPC
<1>3. Types' BY <1>2, FrameTypes DEF Core
<1>4. Shape'
  <2>1. \A q \in Paths : HasText(job'.snapshot[q]) BY DEF Core, Shape
  <2>2. QED BY <1>1, <2>1 DEF Shape, InHand, Undoing
<1>5. Hand'
  <2>1. job.todo \subseteq job.sources /\ job.dels = {}
        /\ \A q \in job.todo : q = job.path \/ rows[q] = job.existing[q]
    BY DEF Core, Hand
  <2>2. ASSUME NEW q \in job'.todo PROVE q = job'.path \/ rows'[q] = job'.existing[q]
    BY <1>1, <2>1, ContentsAssumption
  <2>3. QED BY <2>1, <2>2 DEF Hand, InHand
<1>6. QED BY <1>3, <1>4, <1>5 DEF Core

LEMMA ReadHashCore == ASSUME Core, ReadHash PROVE Core'
<1>1. PICK p \in Paths :
        /\ p \in job.todo /\ files[p] # None
        /\ pc = "file" /\ pc' = "parse" /\ Frame /\ UNCHANGED <<kb, rows, text, failures, cuts>>
        /\ job' \in JobType /\ job'.path = p /\ job'.hash = files[p]
        /\ job'.prev = (IF job.existing[p] = None THEN NoDocument ELSE Document(p))
        /\ job'.todo = job.todo /\ job'.dels = job.dels /\ job'.op = job.op /\ job'.undone = job.undone
        /\ job'.snapshot = job.snapshot /\ job'.sources = job.sources /\ job'.existing = job.existing
  BY ReadHashFacts DEF Core, SameFlags, SameBase, SameScan
<1>2. kb # None /\ job.path = None BY <1>1 DEF Core, Shape, InHand
<1>3. rows[p] = job.existing[p] BY <1>1, <1>2, ContentsAssumption DEF Core, Hand
<1>4. job'.prev.hash = rows[p] /\ job'.prev.text = text[p]
  <2>1. CASE job.existing[p] = None
    <3>1. rows[p] = None /\ text[p] = None BY <1>3, <2>1 DEF Core, Rows
    <3>2. QED BY <1>1, <2>1, <3>1, DocumentFacts
  <2>2. CASE job.existing[p] # None BY <1>1, <2>2 DEF Document
  <2>3. QED BY <2>1, <2>2
<1>5. HasText(job'.prev) BY <1>4 DEF HasText, Core, Rows
<1>6. Rows' /\ cuts' \in Nat /\ failures' \in Nat BY <1>1 DEF Core, Rows, Types
<1>7. QED BY <1>1, <1>2, <1>4, <1>5, <1>6, FileCore DEF InHand

LEMMA ParseCore == ASSUME Core, Parse PROVE Core'
<1>1. /\ pc = "parse" /\ pc' = "saveDocument" /\ Frame /\ UNCHANGED <<kb, rows, text, failures>>
      /\ job' \in JobType /\ job'.read # None
      /\ job'.path = job.path /\ job'.hash = job.hash /\ job'.prev = job.prev
      /\ job'.todo = job.todo /\ job'.dels = job.dels /\ job'.op = job.op /\ job'.undone = job.undone
      /\ job'.snapshot = job.snapshot /\ job'.sources = job.sources /\ job'.existing = job.existing
      /\ cuts' = cuts + IF job'.read = job.hash THEN 0 ELSE 1
  BY ParseFacts DEF Core, SameFlags, SameBase, SameScan
<1>2. /\ kb # None /\ job.path \in job.todo /\ job.hash # None /\ HasText(job.prev)
      /\ text[job.path] = job.prev.text /\ rows[job.path] = job.prev.hash
  BY <1>1 DEF Core, Shape, Hand, InHand
<1>3. Rows' /\ cuts' \in Nat /\ failures' \in Nat BY <1>1 DEF Core, Rows, Types
<1>4. QED BY <1>1, <1>2, <1>3, FileCore DEF InHand

LEMMA SaveDocumentCore == ASSUME Core, SaveDocument PROVE Core'
<1>1. /\ pc = "saveDocument" /\ pc' = "saveChunks" /\ Frame /\ UNCHANGED <<job, failures, cuts>>
      /\ UpsertDocument(job.path, job.hash)
  BY SaveDocumentFacts
<1>2. /\ kb # None /\ job.path \in job.todo /\ job.hash # None /\ job.read # None /\ HasText(job.prev)
      /\ text[job.path] = job.prev.text
  BY <1>1 DEF Core, Shape, Hand, InHand
<1>3. job.path \in Paths /\ job.hash \in Contents /\ job \in JobType BY <1>2, JobFacts DEF Core, Types
<1>4. /\ Rows' /\ kb' # None /\ text' = text /\ rows'[job.path] = job.hash
      /\ \A q \in Paths : q # job.path => rows'[q] = rows[q]
  BY <1>1, <1>2, <1>3, UpsertFacts DEF Core
<1>5. cuts' \in Nat /\ failures' \in Nat /\ job' = job BY <1>1 DEF Core, Types
<1>6. QED BY <1>1, <1>2, <1>3, <1>4, <1>5, FileCore DEF InHand

LEMMA SaveChunksCore == ASSUME Core, SaveChunks PROVE Core'
<1>1. /\ pc = "saveChunks" /\ pc' = NextPC(job') /\ Frame /\ UNCHANGED <<failures, cuts>>
      /\ ReplaceChunks(job.path, ChunksOf(job.read)) /\ Released(job.path)
  BY SaveChunksFacts DEF Core
<1>2. kb # None /\ job.path \in job.todo BY <1>1 DEF Core, Shape, InHand
<1>3. job.path \in Paths /\ ChunksOf(job.read) \in Contents \cup {None}
  BY <1>2, JobFacts DEF Core, Types, ChunksOf
<1>4. Rows' /\ kb' # None /\ rows' = rows BY <1>1, <1>2, <1>3, ReplaceFacts DEF Core
<1>5. pc' \in SyncPC /\ job' \in JobType /\ cuts' \in Nat /\ failures' \in Nat
  BY <1>1, NextFacts DEF SyncPC, Released, Core, Types
<1>6. Types' BY <1>1, <1>5, FrameTypes DEF Core
<1>7. QED BY <1>1, <1>2, <1>3, <1>4, <1>6, ReleasedCore DEF InHand

LEMMA FileFailsCore == ASSUME Core, FileFails PROVE Core'
<1>1. /\ pc \in {"parse", "saveDocument", "saveChunks"} /\ Frame /\ UNCHANGED <<kb, rows, text, cuts>>
      /\ failures' \in Nat
      /\ \/ pc' = "restoreDocument" /\ job.prev # NoDocument /\ UNCHANGED job
         \/ pc' = "drop" /\ pc # "parse" /\ job.prev = NoDocument /\ UNCHANGED job
         \/ pc = "parse" /\ job.prev = NoDocument /\ pc' = NextPC(job') /\ Released(job.path) /\ Failed
  BY FileFailsFacts DEF Core
<1>2. /\ kb # None /\ job.path \in job.todo /\ HasText(job.prev) /\ text[job.path] = job.prev.text
  BY <1>1 DEF Core, Shape, Hand, InHand
<1>3. job.path \in Paths /\ job \in JobType BY <1>2, JobFacts DEF Core, Types
<1>4. Rows' /\ cuts' \in Nat BY <1>1 DEF Core, Rows, Types
<1>5. CASE pc' \in {"restoreDocument", "drop"} /\ UNCHANGED job
  <2>1. (pc' = "restoreDocument" => job.prev # NoDocument) /\ (pc' = "drop" => job.prev = NoDocument)
    <3>1. NextPC(job') \notin {"restoreDocument", "drop"} BY NextFacts
    <3>2. QED BY <1>1, <3>1
  <2>2. job' = job BY <1>5
  <2>3. QED BY <1>1, <1>2, <1>3, <1>4, <1>5, <2>1, <2>2, FileCore DEF InHand
<1>6. CASE pc = "parse" /\ pc' = NextPC(job') /\ Released(job.path)
  <2>1. pc' \in SyncPC /\ job' \in JobType BY <1>6, NextFacts DEF SyncPC, Released
  <2>2. Types' BY <1>1, <1>4, <2>1, FrameTypes DEF Core
  <2>3. QED BY <1>1, <1>2, <1>3, <1>4, <1>6, <2>2, ReleasedCore DEF InHand
<1>7. QED BY <1>1, <1>5, <1>6

LEMMA RestoreDocumentCore == ASSUME Core, RestoreDocument PROVE Core'
<1>1. /\ pc = "restoreDocument" /\ pc' = "restoreChunks" /\ Frame /\ UNCHANGED <<job, failures, cuts>>
      /\ UpsertDocument(job.path, job.prev.hash)
  BY RestoreDocumentFacts
<1>2. /\ kb # None /\ job.path \in job.todo /\ job.prev # NoDocument /\ HasText(job.prev)
      /\ text[job.path] = job.prev.text
  BY <1>1 DEF Core, Shape, Hand, InHand
<1>3. job.path \in Paths /\ job.prev.hash \in Contents /\ job \in JobType
  <2>1. job.path \in Paths /\ job.prev \in DocumentType /\ job \in JobType BY <1>2, JobFacts DEF Core, Types
  <2>2. job.prev.hash # None BY <1>2, <2>1, DocumentFacts DEF HasText
  <2>3. QED BY <2>1, <2>2, DocumentFacts
<1>4. /\ Rows' /\ kb' # None /\ text' = text /\ rows'[job.path] = job.prev.hash
      /\ \A q \in Paths : q # job.path => rows'[q] = rows[q]
  BY <1>1, <1>2, <1>3, UpsertFacts DEF Core
<1>5. cuts' \in Nat /\ failures' \in Nat /\ job' = job BY <1>1 DEF Core, Types
<1>6. QED BY <1>1, <1>2, <1>3, <1>4, <1>5, FileCore DEF InHand

LEMMA HandlerCore == ASSUME Core, RestoreChunks \/ Drop PROVE Core'
<1>1. /\ pc' = NextPC(job') /\ Frame /\ UNCHANGED <<failures, cuts>>
      /\ \/ pc = "restoreChunks" /\ ReplaceChunks(job.path, job.prev.text)
         \/ pc = "drop" /\ DeleteDocument(job.path)
      /\ Released(job.path)
  BY HandlerFacts DEF Core
<1>2. kb # None /\ job.path \in job.todo /\ pc \in InHand BY <1>1 DEF Core, Shape, InHand
<1>3. job.path \in Paths /\ job.prev.text \in Contents \cup {None}
  BY <1>2, JobFacts, DocumentFacts DEF Core, Types
<1>4. Rows' /\ kb' # None /\ \A q \in Paths : q # job.path => rows'[q] = rows[q]
  <2>1. CASE ReplaceChunks(job.path, job.prev.text) BY <1>2, <1>3, <2>1, ReplaceFacts DEF Core
  <2>2. CASE DeleteDocument(job.path) BY <1>2, <1>3, <2>2, DeleteFacts DEF Core
  <2>3. QED BY <1>1, <2>1, <2>2
<1>5. pc' \in SyncPC /\ job' \in JobType /\ cuts' \in Nat /\ failures' \in Nat
  BY <1>1, NextFacts DEF SyncPC, Released, Core, Types
<1>6. Types' BY <1>1, <1>5, FrameTypes DEF Core
<1>7. QED BY <1>1, <1>2, <1>3, <1>4, <1>6, ReleasedCore

LEMMA ReadRecordCore == ASSUME Core, ReadRecord PROVE Core'
<1>1. /\ pc = "readRecord" /\ pc' = "writeRecord" /\ Frame /\ UNCHANGED <<kb, rows, text, failures, cuts>>
      /\ job' \in JobType /\ job'.seen # None /\ job'.status # None
      /\ job'.todo = job.todo /\ job'.dels = job.dels /\ job'.op = job.op /\ job'.snapshot = job.snapshot
      /\ job'.path = job.path /\ job'.prev = job.prev
      /\ job'.errors = job.errors /\ job'.undone = job.undone
  BY ReadRecordFacts DEF Core, SameFile, SameFlags
<1>2. /\ kb # None /\ job.op \in {"ingest", "reindex"} /\ job.prev = NoDocument /\ job.path = None
      /\ HasText(job.prev) /\ (\A q \in Paths : HasText(job.snapshot[q]))
      /\ (job.undone => job.op = "reindex")
      /\ (job.undone \/ job.errors \/ (job.todo = {} /\ job.dels = {}))
  BY <1>1 DEF Core, Shape, InHand
<1>3. pc' \in SyncPC /\ failures' \in Nat /\ cuts' \in Nat BY <1>1 DEF Core, Types, SyncPC
<1>4. Types' /\ Rows' BY <1>1, <1>3, FrameTypes DEF Core, Rows
<1>5. Shape' BY <1>1, <1>2 DEF Shape, InHand, Undoing
<1>6. Hand' BY <1>1 DEF Hand, InHand
<1>7. QED BY <1>4, <1>5, <1>6 DEF Core

LEMMA WriteRecordCore == ASSUME Core, WriteRecord PROVE Core'
<1>1. /\ pc = "writeRecord" /\ Frame /\ UNCHANGED <<rows, text, failures, cuts>>
      /\ kb' \in KBType
      /\ \/ ~Unsuccessful /\ pc' = "idle" /\ job' = NoJob
         \/ /\ Unsuccessful /\ pc' \in {"listRestore", "readRecord"}
            /\ job' \in JobType /\ job'.undone = TRUE
            /\ job'.path = job.path /\ job'.prev = job.prev
            /\ job'.op = job.op /\ job'.snapshot = job.snapshot /\ job'.status = job.status
  BY WriteRecordFacts DEF Core, SameFile, SameBase
<1>2. Rows' BY <1>1 DEF Core, Rows
<1>3. cuts' \in Nat /\ failures' \in Nat BY <1>1 DEF Core, Types
<1>4. CASE pc' = "idle" /\ job' = NoJob
  <2>1. pc' \in SyncPC /\ job' \in JobType BY <1>4, NoJobFacts DEF SyncPC
  <2>2. Types' BY <1>1, <1>3, <2>1, FrameTypes DEF Core
  <2>3. QED BY <1>2, <1>4, <2>2, IdleCore
<1>5. CASE /\ Unsuccessful /\ pc' \in {"listRestore", "readRecord"}
           /\ job' \in JobType /\ job'.undone = TRUE
           /\ job'.path = job.path /\ job'.prev = job.prev
           /\ job'.op = job.op /\ job'.snapshot = job.snapshot /\ job'.status = job.status
  <2>1. pc' \in SyncPC BY <1>5 DEF SyncPC
  <2>2. Types' BY <1>1, <1>3, <1>5, <2>1, FrameTypes DEF Core
  <2>3. kb' # None BY <1>1, NoneAssumption
  <2>4. /\ job.op = "reindex" /\ job.status # None /\ job.prev = NoDocument /\ job.path = None
        /\ HasText(job.prev) /\ \A q \in Paths : HasText(job.snapshot[q])
    BY <1>1, <1>5 DEF Core, Shape, InHand, Unsuccessful
  <2>5. Shape' BY <1>5, <2>3, <2>4 DEF Shape, InHand, Undoing
  <2>6. Hand' BY <1>5 DEF Hand, InHand
  <2>7. QED BY <1>2, <2>2, <2>5, <2>6 DEF Core
<1>6. QED BY <1>1, <1>4, <1>5

LEMMA ListRestoreCore == ASSUME Core, ListRestore PROVE Core'
<1>1. /\ pc = "listRestore" /\ pc' = AfterUndo(job') /\ Frame /\ UNCHANGED <<kb, rows, text, failures, cuts>>
      /\ job' \in JobType /\ job'.todo = {p \in Paths : job.snapshot[p] # NoDocument}
      /\ job'.path = job.path /\ job'.prev = job.prev /\ job'.undone = job.undone
      /\ job'.op = job.op /\ job'.snapshot = job.snapshot /\ job'.status = job.status
  BY ListRestoreFacts DEF Core, SameFile, SameFlags, SameBase
<1>2. /\ kb # None /\ job.op = "reindex" /\ job.prev = NoDocument /\ job.path = None /\ job.undone
      /\ job.status # None /\ HasText(job.prev) /\ \A q \in Paths : HasText(job.snapshot[q])
  BY <1>1 DEF Core, Shape, InHand, Undoing
<1>3. pc' \in {"undo", "putDocument", "readRecord"} BY <1>1, UndoFacts
<1>4. pc' \in SyncPC /\ failures' \in Nat /\ cuts' \in Nat BY <1>1, <1>3 DEF Core, Types, SyncPC
<1>5. Types' /\ Rows' BY <1>1, <1>4, FrameTypes DEF Core, Rows
<1>6. Shape' BY <1>1, <1>2, <1>3 DEF Shape, InHand, Undoing
<1>7. Hand' BY <1>3 DEF Hand, InHand
<1>8. QED BY <1>5, <1>6, <1>7 DEF Core

LEMMA PutDocumentCore == ASSUME Core, PutDocument PROVE Core'
<1>1. PICK p \in job.todo :
        /\ p \in Paths /\ pc = "putDocument" /\ pc' = "putChunks" /\ Frame /\ UNCHANGED <<failures, cuts>>
        /\ UpsertDocument(p, job.snapshot[p].hash)
        /\ job' \in JobType /\ job'.path = p /\ job'.prev = job.prev /\ job'.todo = job.todo
        /\ job'.undone = job.undone /\ job'.op = job.op /\ job'.snapshot = job.snapshot
        /\ job'.status = job.status
  BY PutDocumentFacts DEF Core, SameFlags, SameBase
<1>2. /\ kb # None /\ job.op = "reindex" /\ job.prev = NoDocument /\ job.path = None /\ job.undone
      /\ job.status # None /\ HasText(job.prev) /\ (\A q \in Paths : HasText(job.snapshot[q]))
      /\ \A q \in job.todo : job.snapshot[q] # NoDocument
  BY <1>1 DEF Core, Shape, InHand, Undoing
<1>3. job.snapshot[p].hash \in Contents
  <2>1. job.snapshot[p] \in DocumentType BY <1>1, JobFacts DEF Core, Types
  <2>2. job.snapshot[p].hash # None BY <1>1, <1>2, <2>1, DocumentFacts DEF HasText
  <2>3. QED BY <2>1, <2>2, DocumentFacts
<1>4. Rows' /\ kb' # None /\ rows'[p] = job.snapshot[p].hash BY <1>1, <1>2, <1>3, UpsertFacts DEF Core
<1>5. pc' \in SyncPC /\ failures' \in Nat /\ cuts' \in Nat BY <1>1 DEF Core, Types, SyncPC
<1>6. Types' BY <1>1, <1>5, FrameTypes DEF Core
<1>7. Shape' BY <1>1, <1>2, <1>4 DEF Shape, InHand, Undoing
<1>8. Hand' BY <1>1, <1>4 DEF Hand, InHand
<1>9. QED BY <1>4, <1>6, <1>7, <1>8 DEF Core

LEMMA PutChunksCore == ASSUME Core, PutChunks PROVE Core'
<1>1. /\ pc = "putChunks" /\ pc' = AfterUndo(job') /\ Frame /\ UNCHANGED <<failures, cuts>>
      /\ ReplaceChunks(job.path, job.snapshot[job.path].text)
      /\ job' \in JobType /\ job'.path = None /\ job'.prev = NoDocument /\ job'.todo = job.todo \ {job.path}
      /\ job'.undone = job.undone /\ job'.op = job.op /\ job'.snapshot = job.snapshot
      /\ job'.status = job.status
  BY PutChunksFacts DEF Core, Released, NoFile, SameBase
<1>2. /\ kb # None /\ job.op = "reindex" /\ job.undone /\ job.path \in job.todo
      /\ job.status # None /\ (\A q \in Paths : HasText(job.snapshot[q]))
      /\ \A q \in job.todo : job.snapshot[q] # NoDocument
  BY <1>1 DEF Core, Shape, InHand, Undoing
<1>3. job.path \in Paths /\ job.snapshot[job.path].text \in Contents \cup {None}
  <2>1. job.path \in Paths BY <1>2, JobFacts DEF Core, Types
  <2>2. job.snapshot[job.path] \in DocumentType BY <2>1, JobFacts DEF Core, Types
  <2>3. QED BY <2>1, <2>2, DocumentFacts
<1>4. Rows' /\ kb' # None BY <1>1, <1>2, <1>3, ReplaceFacts DEF Core
<1>5. pc' \in {"undo", "putDocument", "readRecord"} BY <1>1, UndoFacts
<1>6. pc' \in SyncPC /\ failures' \in Nat /\ cuts' \in Nat BY <1>1, <1>5 DEF Core, Types, SyncPC
<1>7. Types' BY <1>1, <1>6, FrameTypes DEF Core
<1>8. Shape'
  <2>1. HasText(job'.prev) BY <1>1, DocumentFacts DEF HasText
  <2>2. QED BY <1>1, <1>2, <1>4, <1>5, <2>1 DEF Shape, InHand, Undoing
<1>9. Hand' BY <1>5 DEF Hand, InHand
<1>10. QED BY <1>4, <1>7, <1>8, <1>9 DEF Core

LEMMA CutCore == ASSUME Core, Escape \/ Crash PROVE Core'
<1>1. /\ pc' = "idle" /\ job' = NoJob /\ UNCHANGED <<root, files, kb, rows, text, changes, stable>>
      /\ failures' \in Nat /\ reg' \in [Registrars -> {"idle", "write", "done"}]
      /\ cuts' = cuts + IF pc = "idle" THEN 0 ELSE 1
  BY CutFacts DEF Core
<1>2. Types' /\ Rows' BY <1>1, NoJobFacts DEF Core, Types, Rows, SyncPC
<1>3. QED BY <1>1, <1>2, IdleCore

LEMMA RegisterCore ==
  ASSUME Core, NEW g \in Registrars, RegisterCheck(g) \/ RegisterWrite(g)
  PROVE  Core'
<1>1. Types' /\ UNCHANGED <<rows, text, pc, job>> BY DEF Core, Types, RegisterCheck, RegisterWrite
<1>2. CASE RegisterCheck(g) BY <1>1, <1>2, OutsideCore DEF RegisterCheck
<1>3. CASE RegisterWrite(g)
  <2>1. kb' \in KBType BY <1>3 DEF RegisterWrite, KB, KBType, Statuses
  <2>2. QED BY <1>1, <2>1, OutsideCore
<1>4. QED BY <1>2, <1>3

LEMMA MayHoldType == \A p : MayHold(p) \subseteq Contents \cup {None}
BY ContentsAssumption DEF MayHold

LEMMA ChangeDiskCore == ASSUME Core, ChangeDisk PROVE Core'
<1>1. UNCHANGED <<kb, rows, text, pc, job, reg, failures, cuts>> /\ changes' = changes + 1 /\ stable' = FALSE
  BY DEF ChangeDisk
<1>2. root' \in BOOLEAN /\ files' \in RowType
  <2>1. CASE \E p \in Paths : \E c \in MayHold(p) : files' = [files EXCEPT ![p] = c] /\ UNCHANGED root
    <3>1. PICK p \in Paths : \E c \in MayHold(p) : files' = [files EXCEPT ![p] = c] /\ UNCHANGED root
      BY <2>1
    <3>2. PICK c \in MayHold(p) : files' = [files EXCEPT ![p] = c] /\ UNCHANGED root BY <3>1
    <3>3. c \in Contents \cup {None} BY MayHoldType
    <3>4. QED BY <3>2, <3>3 DEF Core, Types, RowType
  <2>2. CASE root' = ~root /\ UNCHANGED files BY <2>2 DEF Core, Types
  <2>3. QED BY <2>1, <2>2 DEF ChangeDisk
<1>3. /\ pc \in SyncPC /\ job \in JobType /\ reg \in [Registrars -> {"idle", "write", "done"}]
      /\ changes \in Nat /\ failures \in Nat /\ cuts \in Nat
  BY DEF Core, Types
<1>4. changes' \in Nat BY <1>1, <1>3
<1>5. stable' \in BOOLEAN BY <1>1
<1>6. Types' BY <1>1, <1>2, <1>3, <1>4, <1>5 DEF Types
<1>7. QED BY <1>1, <1>6, OutsideCore

LEMMA CoreStep == Core /\ [Next]_vars => Core'
<1> SUFFICES ASSUME Core, [Next]_vars PROVE Core' OBVIOUS
<1>1. CASE UNCHANGED vars
  <2>1. Types' BY <1>1 DEF Core, Types
  <2>2. QED BY <1>1, <2>1, OutsideCore
<1>2. CASE \E g \in Registrars : RegisterCheck(g) \/ RegisterWrite(g) BY <1>2, RegisterCore
<1>3. CASE Sync
  <2>1. CASE Snapshot \/ Clear \/ CheckRoot \/ List \/ Delete \/ Undo
    BY <2>1, SnapshotCore, ClearCore, CheckRootCore, ListCore, DeletionCore
  <2>2. CASE SkipFile \/ ReadHash \/ Parse \/ SaveDocument \/ SaveChunks
    BY <2>2, SkipFileCore, ReadHashCore, ParseCore, SaveDocumentCore, SaveChunksCore
  <2>3. CASE FileFails \/ RestoreDocument \/ RestoreChunks \/ Drop
    BY <2>3, FileFailsCore, RestoreDocumentCore, HandlerCore
  <2>4. CASE ReadRecord \/ WriteRecord \/ ListRestore \/ PutDocument \/ PutChunks \/ Escape
    BY <2>4, ReadRecordCore, WriteRecordCore, ListRestoreCore, PutDocumentCore, PutChunksCore, CutCore
  <2>5. QED BY <1>3, <2>1, <2>2, <2>3, <2>4 DEF Sync
<1>4. QED BY <1>1, <1>2, <1>3, BeginCore, ChangeDiskCore, CutCore DEF Next

LEMMA CoreInvariant == Spec => []Core
<1>1. QED BY CoreInit, CoreStep, PTL DEF Spec

\* Every variable has its type in every reachable state: chunks belong to a
\* document, the sync has a path in hand where it uses one, and what it is
\* about to restore exists.
THEOREM TypeCorrect == Spec => []TypeOK
<1>1. ASSUME Core PROVE TypeOK
  <2>1. Types /\ Rows /\ Shape /\ Hand BY <1>1 DEF Core
  <2>2. pc \in InHand \cup {"putChunks"} => job.path # None
    BY <2>1, JobFacts, ContentsAssumption DEF Shape, Types
  <2>3. pc = "restoreDocument" => job.prev.hash # None
    BY <2>1, JobFacts, DocumentFacts DEF Shape, Hand, Types, HasText
  <2>4. pc = "saveChunks" => rows[job.path] # None BY <2>1 DEF Shape, Hand
  <2>5. pc = "restoreChunks" => rows[job.path] # None
    <3>1. SUFFICES ASSUME pc = "restoreChunks" PROVE job.prev.hash # None BY <2>1 DEF Hand
    <3>2. QED BY <2>1, <3>1, JobFacts, DocumentFacts DEF Shape, Hand, Types, HasText
  <2>6. pc = "putChunks" => rows[job.path] # None
    <3>1. SUFFICES ASSUME pc = "putChunks" PROVE job.snapshot[job.path].hash # None
      BY <2>1 DEF Hand
    <3>2. job.path \in Paths /\ job.snapshot[job.path] # NoDocument /\ HasText(job.snapshot[job.path])
      BY <2>1, <3>1, JobFacts DEF Shape, Types
    <3>3. job.snapshot[job.path] \in DocumentType BY <2>1, <3>2, JobFacts DEF Types
    <3>4. QED BY <3>2, <3>3, DocumentFacts DEF HasText
  <2>7. pc = "writeRecord" => job.seen # None BY <2>1 DEF Shape
  <2>8. QED BY <2>1, <2>2, <2>3, <2>4, <2>5, <2>6, <2>7 DEF TypeOK, Types, Rows, RowType, InHand
<1>2. QED BY <1>1, CoreInvariant, PTL

-----------------------------------------------------------------------------
(* The counts of the knowledge base.  Two registrations of one id can both *)
(* write, the second over the counts of documents that a sync has added in *)
(* between: the theorem is about at most one registration.                 *)

OneRegistration == \A g, h \in Registrars : g = h

\* A registration that is about to write has found no row, and a sync finds its
\* row as it read it.
CountsInv ==
  /\ CountsMatch
  /\ kb = None => \A p \in Paths : rows[p] = None
  /\ \A g \in Registrars : reg[g] = "write" => kb = None
  /\ pc = "writeRecord" => job.seen = kb

\* Steps that write rows, which refresh the counts.
LEMMA RefreshedCounts ==
  ASSUME Core, CountsInv, pc # "idle", kb' # None, CountsMatch', UNCHANGED reg, pc' # "writeRecord"
  PROVE  CountsInv'
BY DEF CountsInv, Core, Shape

\* Steps that write none.
LEMMA SameCounts ==
  ASSUME CountsInv, UNCHANGED <<kb, rows, text>>,
         \A g \in Registrars : reg'[g] = "write" => reg[g] = "write" \/ kb = None,
         pc' = "writeRecord" => job'.seen = kb
  PROVE  CountsInv'
<1>1. CountsMatch' BY DEF CountsInv, CountsMatch, Present
<1>2. QED BY <1>1 DEF CountsInv

LEMMA RowStepCounts ==
  ASSUME Core, CountsInv,
         \/ Clear \/ Delete \/ Undo \/ SaveDocument \/ SaveChunks
         \/ RestoreDocument \/ RestoreChunks \/ Drop \/ PutDocument \/ PutChunks
  PROVE  CountsInv'
<1>1. CASE Clear \/ Delete \/ Undo
  <2>1. PICK p \in Paths : DeleteDocument(p) /\ Frame /\ pc # "idle" /\ pc' # "writeRecord"
    <3>1. CASE Clear BY <3>1, ClearFacts DEF Core
    <3>2. CASE Delete \/ Undo
      <4>1. NextPC(job') # "writeRecord" /\ AfterUndo(job') # "writeRecord" BY NextFacts, UndoFacts
      <4>2. QED BY <3>2, <4>1, DeletionFacts DEF Core
    <3>3. QED BY <1>1, <3>1, <3>2
  <2>2. kb' # None /\ CountsMatch' BY <2>1, DeleteFacts DEF Core, Shape
  <2>3. QED BY <2>1, <2>2, RefreshedCounts DEF Frame
<1>2. CASE SaveDocument \/ SaveChunks \/ RestoreDocument \/ RestoreChunks \/ Drop
  <2>1. /\ Frame /\ pc \in InHand /\ pc' # "writeRecord"
        /\ \/ pc = "saveDocument" /\ UpsertDocument(job.path, job.hash)
           \/ ReplaceChunks(job.path, ChunksOf(job.read))
           \/ pc = "restoreDocument" /\ UpsertDocument(job.path, job.prev.hash)
           \/ ReplaceChunks(job.path, job.prev.text)
           \/ DeleteDocument(job.path)
    <3>1. NextPC(job') # "writeRecord" BY NextFacts
    <3>2. CASE SaveDocument BY <3>2, SaveDocumentFacts DEF InHand
    <3>3. CASE SaveChunks BY <3>1, <3>3, SaveChunksFacts DEF Core, InHand
    <3>4. CASE RestoreDocument BY <3>4, RestoreDocumentFacts DEF InHand
    <3>5. CASE RestoreChunks \/ Drop BY <3>1, <3>5, HandlerFacts DEF Core, InHand
    <3>6. QED BY <1>2, <3>2, <3>3, <3>4, <3>5
  <2>2. /\ kb # None /\ job.path \in Paths /\ job.prev.text \in Contents \cup {None}
        /\ ChunksOf(job.read) \in Contents \cup {None} /\ pc # "idle"
    BY <2>1, JobFacts, DocumentFacts DEF Core, Shape, Types, InHand, ChunksOf
  <2>3. pc = "saveDocument" => job.hash \in Contents BY JobFacts DEF Core, Shape, Types
  <2>4. pc = "restoreDocument" => job.prev.hash \in Contents
    BY JobFacts, DocumentFacts DEF Core, Shape, Hand, Types, HasText
  <2>5. kb' # None /\ CountsMatch'
    <3>1. CASE pc = "saveDocument" /\ UpsertDocument(job.path, job.hash)
      BY <2>2, <2>3, <3>1, UpsertFacts DEF Core
    <3>2. CASE ReplaceChunks(job.path, ChunksOf(job.read)) BY <2>2, <3>2, ReplaceFacts DEF Core
    <3>3. CASE pc = "restoreDocument" /\ UpsertDocument(job.path, job.prev.hash)
      BY <2>2, <2>4, <3>3, UpsertFacts DEF Core
    <3>4. CASE ReplaceChunks(job.path, job.prev.text) BY <2>2, <3>4, ReplaceFacts DEF Core
    <3>5. CASE DeleteDocument(job.path) BY <2>2, <3>5, DeleteFacts DEF Core
    <3>6. QED BY <2>1, <3>1, <3>2, <3>3, <3>4, <3>5
  <2>6. QED BY <2>1, <2>2, <2>5, RefreshedCounts DEF Frame
<1>3. CASE PutDocument
  <2>1. PICK p \in job.todo :
          /\ p \in Paths /\ pc = "putDocument" /\ pc' = "putChunks" /\ Frame
          /\ UpsertDocument(p, job.snapshot[p].hash)
    BY <1>3, PutDocumentFacts DEF Core
  <2>2. /\ kb # None /\ job.snapshot[p] # NoDocument /\ HasText(job.snapshot[p])
        /\ job.snapshot[p] \in DocumentType
    BY <2>1, JobFacts DEF Core, Shape, Types
  <2>3. job.snapshot[p].hash \in Contents BY <2>2, DocumentFacts DEF HasText
  <2>4. kb' # None /\ CountsMatch' BY <2>1, <2>2, <2>3, UpsertFacts DEF Core
  <2>5. QED BY <2>1, <2>4, RefreshedCounts DEF Frame
<1>4. CASE PutChunks
  <2>1. /\ pc = "putChunks" /\ pc' = AfterUndo(job') /\ Frame
        /\ ReplaceChunks(job.path, job.snapshot[job.path].text)
    BY <1>4, PutChunksFacts DEF Core
  <2>2. kb # None /\ job.path \in Paths /\ pc' # "writeRecord"
    BY <2>1, JobFacts, UndoFacts DEF Core, Shape, Types
  <2>3. job.snapshot[job.path] \in DocumentType BY <2>2, JobFacts DEF Core, Types
  <2>4. job.snapshot[job.path].text \in Contents \cup {None} BY <2>3, DocumentFacts
  <2>5. kb' # None /\ CountsMatch' BY <2>1, <2>2, <2>4, ReplaceFacts DEF Core
  <2>6. QED BY <2>1, <2>2, <2>5, RefreshedCounts DEF Frame
<1>5. QED BY <1>1, <1>2, <1>3, <1>4

LEMMA CountsInit == Init => CountsInv
BY DEF Init, CountsInv, CountsMatch

LEMMA CountsStep ==
  ASSUME OneRegistration, Core, CountsInv, [Next]_vars
  PROVE  CountsInv'
<1>1. CASE UNCHANGED vars BY <1>1, SameCounts DEF CountsInv
<1>2. ASSUME NEW g \in Registrars, RegisterCheck(g) PROVE CountsInv'
  <2>1. /\ UNCHANGED <<kb, rows, text, pc, job>>
        /\ reg' = [reg EXCEPT ![g] = IF kb = None THEN "write" ELSE "done"]
    BY <1>2 DEF RegisterCheck
  <2>2. \A h \in Registrars : reg'[h] = "write" => reg[h] = "write" \/ kb = None
    BY <2>1 DEF Core, Types
  <2>3. QED BY <2>1, <2>2, SameCounts DEF CountsInv
<1>3. ASSUME NEW g \in Registrars, RegisterWrite(g) PROVE CountsInv'
  <2>1. /\ reg[g] = "write" /\ reg' = [reg EXCEPT ![g] = "done"] /\ kb' = KB("registered", 0, 0)
        /\ UNCHANGED <<rows, text, pc, job>>
    BY <1>3 DEF RegisterWrite
  <2>2. kb = None /\ \A p \in Paths : rows[p] = None BY <2>1 DEF CountsInv
  <2>3. Present(rows) = {} /\ Present(text) = {} BY <2>2 DEF Present, Core, Rows
  <2>4. kb' \in KBType /\ kb'.docs = 0 /\ kb'.chunks = 0 BY <2>1 DEF KB, KBType, Statuses
  <2>5. CountsMatch'
    <3>1. Present(rows)' = {} /\ Present(text)' = {} BY <2>1, <2>3 DEF Present
    <3>2. QED BY <2>4, <3>1, FS_EmptySet DEF CountsMatch
  <2>6. pc = "idle" BY <2>2 DEF Core, Shape
  <2>7. \A h \in Registrars : reg'[h] # "write"
    <3>1. \A h \in Registrars : h = g BY DEF OneRegistration
    <3>2. QED BY <2>1, <3>1 DEF Core, Types
  <2>8. kb' # None BY <2>4, NoneAssumption
  <2>9. QED BY <2>1, <2>5, <2>6, <2>7, <2>8 DEF CountsInv
<1>4. CASE Begin \/ ChangeDisk
  <2>1. UNCHANGED <<kb, rows, text, reg>> /\ (pc' = "writeRecord" => pc = "writeRecord" /\ job' = job)
    BY <1>4, BeginFacts DEF ChangeDisk
  <2>2. QED BY <2>1, SameCounts DEF CountsInv
<1>5. CASE Escape \/ Crash BY <1>5, CutFacts, SameCounts DEF Core
<1>6. CASE WriteRecord
  <2>1. /\ pc = "writeRecord" /\ Frame /\ UNCHANGED <<rows, text>> /\ pc' # "writeRecord"
        /\ kb' \in KBType /\ kb'.docs = job.seen.docs /\ kb'.chunks = job.seen.chunks
    BY <1>6, WriteRecordFacts DEF Core
  <2>2. job.seen = kb /\ kb # None BY <2>1 DEF CountsInv, Core, Shape
  <2>3. CountsMatch' BY <2>1, <2>2 DEF CountsInv, CountsMatch, Present
  <2>4. kb' # None BY <2>1, NoneAssumption
  <2>5. QED BY <2>1, <2>3, <2>4, RefreshedCounts DEF Frame
<1>7. CASE ReadRecord BY <1>7, ReadRecordFacts, SameCounts DEF Core, Frame
<1>8. CASE Snapshot BY <1>8, SnapshotFacts, SameCounts DEF Core, Frame
<1>9. CASE CheckRoot BY <1>9, CheckRootFacts, SameCounts DEF Core, Frame
<1>10. CASE List \/ SkipFile
  <2>1. Frame /\ UNCHANGED <<kb, rows, text>> /\ pc' = NextPC(job') BY <1>10, ListFacts, SkipFileFacts DEF Core
  <2>2. QED BY <2>1, NextFacts, SameCounts DEF Frame
<1>11. CASE ReadHash BY <1>11, ReadHashFacts, SameCounts DEF Core, Frame
<1>12. CASE Parse BY <1>12, ParseFacts, SameCounts DEF Core, Frame
<1>13. CASE FileFails
  <2>1. Frame /\ UNCHANGED <<kb, rows, text>> /\ pc' # "writeRecord" BY <1>13, FileFailsFacts, NextFacts DEF Core
  <2>2. QED BY <2>1, SameCounts DEF Frame
<1>14. CASE ListRestore
  <2>1. Frame /\ UNCHANGED <<kb, rows, text>> /\ pc' # "writeRecord" BY <1>14, ListRestoreFacts, UndoFacts DEF Core
  <2>2. QED BY <2>1, SameCounts DEF Frame
<1>15. CASE Sync
  BY <1>5, <1>6, <1>7, <1>8, <1>9, <1>10, <1>11, <1>12, <1>13, <1>14, <1>15, RowStepCounts DEF Sync
<1>16. QED BY <1>1, <1>2, <1>3, <1>4, <1>5, <1>15 DEF Next

\* With one registration, the counts in the knowledge base's row are those of
\* its documents and chunks in every committed state, though
\* _update_knowledge_base writes back counts it read one transaction earlier.
THEOREM CountsStayTrue == OneRegistration => (Spec => []CountsMatch)
<1> SUFFICES ASSUME OneRegistration PROVE Spec => []CountsMatch OBVIOUS
<1>1. Core /\ CountsInv /\ [Next]_vars => CountsInv' BY CountsStep
<1>2. CountsInv => CountsMatch BY DEF CountsInv
<1>3. QED BY <1>1, <1>2, CountsInit, CoreInvariant, PTL DEF Spec

-----------------------------------------------------------------------------
(* An ingest keeps the chunks.                                             *)

KeepsChunk(p) ==
  job.op = "ingest" /\ text[p] # None /\ text'[p] = None
    => p \notin job.sources \/ (p = job.path /\ job.read \in Blank)

\* The steps that write chunks; the others leave every document's alone.
LEMMA ChunkStepKeepsChunk ==
  ASSUME Core, NEW p \in Paths,
         Clear \/ Delete \/ Undo \/ SaveChunks \/ RestoreChunks \/ Drop \/ PutChunks
  PROVE  KeepsChunk(p)
<1>1. CASE Clear \/ Undo \/ PutChunks
  <2>1. pc \in {"clear", "undo", "putChunks"} BY <1>1, ClearFacts, DeletionFacts, PutChunksFacts DEF Core, Undo, Write, Step
  <2>2. job.op = "reindex" BY <2>1 DEF Core, Shape, Undoing
  <2>3. QED BY <2>2 DEF KeepsChunk
<1>2. CASE Delete
  <2>1. PICK q \in job.dels : q \in Paths /\ DeleteDocument(q) BY <1>2, DeletionFacts DEF Core
  <2>2. pc = "delete" BY <1>2 DEF Delete, Write, Step
  <2>3. kb # None /\ q \notin job.sources BY <2>1, <2>2 DEF Core, Shape, Hand
  <2>4. p # q => text'[p] = text[p] BY <2>1, <2>3, DeleteFacts DEF Core
  <2>5. QED BY <2>3, <2>4 DEF KeepsChunk
<1>3. CASE SaveChunks
  <2>1. pc = "saveChunks" /\ ReplaceChunks(job.path, ChunksOf(job.read)) BY <1>3, SaveChunksFacts DEF Core
  <2>2. /\ kb # None /\ job.path \in Paths /\ job.read # None /\ job.read \in Contents
        /\ ChunksOf(job.read) \in Contents \cup {None}
    BY <2>1, JobFacts DEF Core, Shape, Types, InHand, ChunksOf
  <2>3. text'[job.path] = ChunksOf(job.read) /\ (p # job.path => text'[p] = text[p])
    BY <2>1, <2>2, ReplaceFacts DEF Core
  <2>4. ChunksOf(job.read) = None => job.read \in Blank BY <2>2 DEF ChunksOf
  <2>5. QED BY <2>3, <2>4 DEF KeepsChunk
<1>4. CASE RestoreChunks \/ Drop
  <2>1. \/ pc = "restoreChunks" /\ ReplaceChunks(job.path, job.prev.text)
        \/ pc = "drop" /\ DeleteDocument(job.path)
    BY <1>4, HandlerFacts DEF Core
  <2>2. kb # None /\ job.path \in Paths /\ text[job.path] = job.prev.text
        /\ job.prev.text \in Contents \cup {None} /\ (pc = "drop" => job.prev.text = None)
    BY <2>1, JobFacts, DocumentFacts DEF Core, Shape, Hand, Types, InHand
  <2>3. CASE ReplaceChunks(job.path, job.prev.text)
    <3>1. text'[job.path] = text[job.path] /\ (p # job.path => text'[p] = text[p])
      BY <2>2, <2>3, ReplaceFacts DEF Core
    <3>2. QED BY <3>1 DEF KeepsChunk
  <2>4. CASE pc = "drop" /\ DeleteDocument(job.path)
    <3>1. text[job.path] = None /\ (p # job.path => text'[p] = text[p])
      BY <2>2, <2>4, DeleteFacts DEF Core
    <3>2. QED BY <3>1 DEF KeepsChunk
  <2>5. QED BY <2>1, <2>3, <2>4
<1>5. QED BY <1>1, <1>2, <1>3, <1>4

LEMMA OtherStepKeepsChunk ==
  ASSUME [Next]_vars, ~(Clear \/ Delete \/ Undo \/ SaveChunks \/ RestoreChunks \/ Drop \/ PutChunks)
  PROVE  text' = text
<1>1. CASE UNCHANGED vars BY <1>1
<1>2. CASE Begin \/ ChangeDisk \/ Crash \/ \E g \in Registrars : RegisterCheck(g) \/ RegisterWrite(g)
  BY <1>2 DEF Begin, ChangeDisk, Crash, RegisterCheck, RegisterWrite
<1>3. CASE Snapshot \/ CheckRoot \/ List \/ SkipFile \/ ReadHash \/ Parse
  BY <1>3 DEF Snapshot, CheckRoot, List, SkipFile, ReadHash, Parse, Read
<1>4. CASE SaveDocument \/ RestoreDocument
  BY <1>4 DEF SaveDocument, RestoreDocument, UpsertDocument
<1>5. CASE FileFails \/ ReadRecord \/ WriteRecord \/ ListRestore \/ Escape
  BY <1>5 DEF FileFails, ReadRecord, WriteRecord, ListRestore, Escape, Read
<1>6. CASE PutDocument BY <1>6 DEF PutDocument, UpsertDocument
<1>7. QED BY <1>1, <1>2, <1>3, <1>4, <1>5, <1>6 DEF Next, Sync

\* An ingest keeps the chunks of a document, whatever fails on the way: it gives
\* them up only when the file was gone or has nothing to index.
THEOREM KeepsWhatItHad == Spec => IngestKeepsChunks
<1>1. ASSUME Core, [Next]_vars PROVE \A p \in Paths : KeepsChunk(p)
  <2>1. CASE Clear \/ Delete \/ Undo \/ SaveChunks \/ RestoreChunks \/ Drop \/ PutChunks
    BY <1>1, <2>1, ChunkStepKeepsChunk
  <2>2. CASE ~(Clear \/ Delete \/ Undo \/ SaveChunks \/ RestoreChunks \/ Drop \/ PutChunks)
    BY <1>1, <2>2, OtherStepKeepsChunk DEF KeepsChunk
  <2>3. QED BY <2>1, <2>2
<1>2. Core /\ [Next]_vars =>
        [\A p \in Paths :
           job.op = "ingest" /\ text[p] # None /\ text'[p] = None
             => p \notin job.sources \/ (p = job.path /\ job.read \in Blank)]_vars
  BY <1>1 DEF KeepsChunk
<1>3. QED BY <1>2, CoreInvariant, PTL DEF Spec, IngestKeepsChunks

-----------------------------------------------------------------------------
(* Stale documents.                                                        *)

StaleDoc(d) == d.hash # None /\ d.text # ChunksOf(d.hash)
StaleRow(p) == rows[p] # None /\ text[p] # ChunksOf(rows[p])

\* A document that is stale, that a restore would make so again, or that is
\* about to be saved from two different reads of its file.
Suspect(p) ==
  \/ p # job.path /\ StaleRow(p)
  \/ StaleDoc(job.snapshot[p])
  \/ /\ p = job.path
     /\ StaleDoc(job.prev) \/ (pc \in {"saveDocument", "saveChunks"} /\ job.read # job.hash)
Suspects == {p \in Paths : Suspect(p)}
SuspectsNeedCut == Cardinality(Suspects) <= cuts

LEMMA FewerSuspects ==
  ASSUME Types, Types', SuspectsNeedCut, cuts' >= cuts, \A p \in Paths : Suspect(p)' => Suspect(p)
  PROVE  SuspectsNeedCut'
<1>1. Suspects' \subseteq Suspects /\ Suspects \subseteq Paths BY DEF Suspects
<1>2. IsFiniteSet(Suspects) BY <1>1, PathsAssumption, FS_Subset
<1>3. /\ Cardinality(Suspects') <= Cardinality(Suspects)
      /\ Cardinality(Suspects) \in Nat /\ Cardinality(Suspects') \in Nat
  BY <1>1, <1>2, FS_Subset, FS_CardinalityType
<1>4. cuts \in Nat /\ cuts' \in Nat BY DEF Types
<1>5. QED BY <1>3, <1>4 DEF SuspectsNeedCut

\* A cut may add the document in hand.
LEMMA OneMoreSuspect ==
  ASSUME Types, Types', SuspectsNeedCut, cuts' = cuts + 1,
         \A p \in Paths : Suspect(p)' => Suspect(p) \/ p = job.path
  PROVE  SuspectsNeedCut'
<1> DEFINE S == Suspects \cup {job.path}
<1>1. Suspects' \subseteq S /\ Suspects \subseteq Paths BY DEF Suspects
<1>2. IsFiniteSet(Suspects) BY <1>1, PathsAssumption, FS_Subset
<1>3. /\ IsFiniteSet(S) /\ Cardinality(Suspects) \in Nat
      /\ Cardinality(S) \in {Cardinality(Suspects), Cardinality(Suspects) + 1}
  BY <1>2, FS_AddElement, FS_CardinalityType
<1>4. Cardinality(Suspects') <= Cardinality(S) /\ Cardinality(Suspects') \in Nat
  BY <1>1, <1>3, FS_Subset, FS_CardinalityType
<1>5. cuts \in Nat BY DEF Types
<1>6. QED BY <1>3, <1>4, <1>5 DEF SuspectsNeedCut

\* No step but the three below adds a suspect.
NoNewSuspect == cuts' = cuts /\ \A p \in Paths : Suspect(p)' => Suspect(p)

\* With no document in hand, only the rows and the snapshot count.
LEMMA NothingInHand ==
  ASSUME NEW p \in Paths, job.path = None
  PROVE  Suspect(p) <=> StaleRow(p) \/ StaleDoc(job.snapshot[p])
BY ContentsAssumption DEF Suspect

LEMMA NothingInHandNext ==
  ASSUME NEW p \in Paths, job'.path = None
  PROVE  Suspect(p)' <=> StaleRow(p)' \/ StaleDoc(job'.snapshot[p])
BY ContentsAssumption DEF Suspect

LEMMA FreshDocument == ~StaleDoc(NoDocument)
BY DocumentFacts DEF StaleDoc

LEMMA StillSuspects ==
  ASSUME UNCHANGED <<rows, text, cuts>>, job.path = None, job'.path = None, job'.snapshot = job.snapshot
  PROVE  NoNewSuspect
BY NothingInHand, NothingInHandNext DEF NoNewSuspect, StaleRow

LEMMA BatchSuspects ==
  ASSUME Core, CheckRoot \/ List \/ SkipFile \/ ReadRecord \/ WriteRecord \/ ListRestore
  PROVE  NoNewSuspect
<1>1. CASE CheckRoot
  <2>1. /\ pc = "root" /\ UNCHANGED <<rows, text, cuts>> /\ job'.path = job.path
        /\ job'.snapshot = job.snapshot
    BY <1>1, CheckRootFacts DEF Core, SameFile, SameBase
  <2>2. QED BY <2>1, StillSuspects DEF Core, Shape, InHand
<1>2. CASE List
  <2>1. /\ pc = "list" /\ UNCHANGED <<rows, text, cuts>> /\ job'.path = job.path
        /\ job'.snapshot = job.snapshot
    BY <1>2, ListFacts DEF Core, SameFile, SameBase
  <2>2. QED BY <2>1, StillSuspects DEF Core, Shape, InHand
<1>3. CASE SkipFile
  <2>1. /\ pc = "file" /\ UNCHANGED <<rows, text, cuts>> /\ job'.path = None
        /\ job'.snapshot = job.snapshot
    BY <1>3, SkipFileFacts DEF Core, Released, NoFile, SameBase
  <2>2. QED BY <2>1, StillSuspects DEF Core, Shape, InHand
<1>4. CASE ReadRecord
  <2>1. /\ pc = "readRecord" /\ UNCHANGED <<rows, text, cuts>> /\ job'.path = job.path
        /\ job'.snapshot = job.snapshot
    BY <1>4, ReadRecordFacts DEF Core, SameFile
  <2>2. QED BY <2>1, StillSuspects DEF Core, Shape, InHand
<1>5. CASE ListRestore
  <2>1. /\ pc = "listRestore" /\ UNCHANGED <<rows, text, cuts>> /\ job'.path = job.path
        /\ job'.snapshot = job.snapshot
    BY <1>5, ListRestoreFacts DEF Core, SameFile, SameBase
  <2>2. QED BY <2>1, StillSuspects DEF Core, Shape, InHand
<1>6. CASE WriteRecord
  <2>1. /\ pc = "writeRecord" /\ UNCHANGED <<rows, text, cuts>>
        /\ job' = NoJob \/ (job'.path = job.path /\ job'.snapshot = job.snapshot)
    BY <1>6, WriteRecordFacts DEF Core, SameFile, SameBase
  <2>2. job.path = None BY <2>1 DEF Core, Shape, InHand
  <2>3. CASE job' = NoJob
    <3>1. job'.path = None /\ \A p \in Paths : ~StaleDoc(job'.snapshot[p])
      BY <2>3, NoJobFacts, FreshDocument DEF NoFile
    <3>2. QED BY <2>1, <2>2, <3>1, NothingInHand, NothingInHandNext DEF NoNewSuspect, StaleRow
  <2>4. CASE job'.path = job.path /\ job'.snapshot = job.snapshot BY <2>1, <2>2, <2>4, StillSuspects
  <2>5. QED BY <2>1, <2>3, <2>4
<1>7. QED BY <1>1, <1>2, <1>3, <1>4, <1>5, <1>6

LEMMA ClearingSuspects ==
  ASSUME Core, Begin \/ Snapshot \/ Clear \/ Delete \/ Undo
  PROVE  NoNewSuspect
<1>1. CASE Begin
  <2>1. /\ pc = "idle" /\ UNCHANGED <<rows, text, cuts>> /\ job'.path = None
        /\ job'.snapshot = [p \in Paths |-> NoDocument]
    BY <1>1, BeginFacts DEF NoFile
  <2>2. job.path = None BY <2>1, NoJobFacts DEF Core, Shape, InHand
  <2>3. \A p \in Paths : ~StaleDoc(job'.snapshot[p]) BY <2>1, FreshDocument
  <2>4. QED BY <2>1, <2>2, <2>3, NothingInHand, NothingInHandNext DEF NoNewSuspect, StaleRow
<1>2. CASE Snapshot
  <2>1. /\ pc = "snapshot" /\ UNCHANGED <<rows, text, cuts>> /\ job'.path = job.path /\ job'.snapshot = Index
    BY <1>2, SnapshotFacts DEF Core, SameFile
  <2>2. job.path = None BY <2>1 DEF Core, Shape, InHand
  <2>3. \A p \in Paths : StaleDoc(job'.snapshot[p]) <=> StaleRow(p)
    BY <2>1 DEF Index, Document, StaleDoc, StaleRow
  <2>4. QED BY <2>1, <2>2, <2>3, NothingInHand, NothingInHandNext DEF NoNewSuspect, StaleRow
<1>3. CASE Clear \/ Delete \/ Undo
  <2>1. PICK q \in Paths :
          /\ DeleteDocument(q) /\ pc \in {"clear", "delete", "undo"} /\ UNCHANGED cuts
          /\ job'.path = job.path /\ job'.snapshot = job.snapshot
    <3>1. CASE Clear BY <3>1, ClearFacts DEF Core, SameFile, SameBase
    <3>2. CASE Delete \/ Undo BY <3>2, DeletionFacts DEF Core, SameFile, SameBase
    <3>3. QED BY <1>3, <3>1, <3>2
  <2>2. job.path = None /\ kb # None BY <2>1 DEF Core, Shape, InHand
  <2>3. rows'[q] = None /\ \A p \in Paths : p # q => rows'[p] = rows[p] /\ text'[p] = text[p]
    BY <2>1, <2>2, DeleteFacts DEF Core
  <2>4. \A p \in Paths : StaleRow(p)' => StaleRow(p) BY <2>3 DEF StaleRow
  <2>5. QED BY <2>1, <2>2, <2>4, NothingInHand, NothingInHandNext DEF NoNewSuspect
<1>4. QED BY <1>1, <1>2, <1>3

LEMMA FileSuspects ==
  ASSUME Core, ReadHash \/ SaveDocument \/ SaveChunks
  PROVE  NoNewSuspect
<1>1. CASE ReadHash
  <2>1. PICK p \in Paths :
          /\ p \in job.todo /\ pc = "file" /\ pc' = "parse" /\ UNCHANGED <<rows, text, cuts>>
          /\ job'.path = p /\ job'.prev = (IF job.existing[p] = None THEN NoDocument ELSE Document(p))
          /\ job'.snapshot = job.snapshot
    BY <1>1, ReadHashFacts DEF Core, SameBase
  <2>2. job.path = None BY <2>1 DEF Core, Shape, InHand
  <2>3. StaleDoc(job'.prev) => StaleRow(p) BY <2>1, FreshDocument DEF Document, StaleDoc, StaleRow
  <2>4. ASSUME NEW q \in Paths, Suspect(q)' PROVE Suspect(q)
    <3>1. StaleRow(q)' <=> StaleRow(q) BY <2>1 DEF StaleRow
    <3>2. StaleRow(q) \/ StaleDoc(job.snapshot[q]) BY <2>1, <2>3, <2>4, <3>1 DEF Suspect
    <3>3. QED BY <2>2, <3>2, NothingInHand
  <2>5. QED BY <2>1, <2>4 DEF NoNewSuspect
<1>2. CASE SaveDocument
  <2>1. /\ pc = "saveDocument" /\ pc' = "saveChunks" /\ UNCHANGED <<job, cuts>>
        /\ UpsertDocument(job.path, job.hash)
    BY <1>2, SaveDocumentFacts
  <2>2. kb # None /\ job.path \in Paths /\ job.hash \in Contents
    BY <2>1, JobFacts DEF Core, Shape, Types, InHand
  <2>3. text' = text /\ \A q \in Paths : q # job.path => rows'[q] = rows[q]
    BY <2>1, <2>2, UpsertFacts DEF Core
  <2>4. \A q \in Paths : q # job.path => (StaleRow(q)' <=> StaleRow(q)) BY <2>3 DEF StaleRow
  <2>5. QED BY <2>1, <2>4 DEF NoNewSuspect, Suspect
<1>3. CASE SaveChunks
  <2>1. /\ pc = "saveChunks" /\ UNCHANGED cuts /\ ReplaceChunks(job.path, ChunksOf(job.read))
        /\ job'.path = None /\ job'.snapshot = job.snapshot
    BY <1>3, SaveChunksFacts DEF Core, Released, NoFile, SameBase
  <2>2. /\ kb # None /\ job.path \in Paths /\ rows[job.path] = job.hash
        /\ ChunksOf(job.read) \in Contents \cup {None}
    BY <2>1, JobFacts DEF Core, Shape, Hand, Types, InHand, ChunksOf
  <2>3. /\ rows' = rows /\ text'[job.path] = ChunksOf(job.read)
        /\ \A q \in Paths : q # job.path => text'[q] = text[q]
    BY <2>1, <2>2, ReplaceFacts DEF Core
  <2>4. ASSUME NEW q \in Paths, Suspect(q)' PROVE Suspect(q)
    <3>1. StaleRow(q)' \/ StaleDoc(job.snapshot[q]) BY <2>1, <2>4, NothingInHandNext
    <3>2. CASE q # job.path
      <4>1. StaleRow(q)' <=> StaleRow(q) BY <2>3, <3>2 DEF StaleRow
      <4>2. QED BY <3>1, <3>2, <4>1 DEF Suspect
    <3>3. CASE q = job.path
      <4>1. StaleRow(q)' => job.read # job.hash BY <2>2, <2>3, <3>3 DEF StaleRow
      <4>2. QED BY <2>1, <3>1, <3>3, <4>1 DEF Suspect
    <3>4. QED BY <3>2, <3>3
  <2>5. QED BY <2>1, <2>4 DEF NoNewSuspect
<1>4. QED BY <1>1, <1>2, <1>3

LEMMA HandlerSuspects ==
  ASSUME Core, FileFails \/ RestoreDocument \/ RestoreChunks \/ Drop
  PROVE  NoNewSuspect
<1>1. CASE FileFails
  <2>1. /\ pc \in {"parse", "saveDocument", "saveChunks"} /\ UNCHANGED <<rows, text, cuts>>
        /\ \/ pc' \in {"restoreDocument", "drop"} /\ UNCHANGED job
           \/ /\ pc = "parse" /\ job.prev = NoDocument
              /\ job'.path = None /\ job'.snapshot = job.snapshot
    BY <1>1, FileFailsFacts DEF Core, Released, NoFile, SameBase
  <2>2. \A q : StaleRow(q)' <=> StaleRow(q) BY <2>1 DEF StaleRow
  <2>3. CASE pc' \in {"restoreDocument", "drop"} /\ UNCHANGED job
    <3>1. \A q \in Paths : Suspect(q)' => Suspect(q) BY <2>2, <2>3 DEF Suspect
    <3>2. QED BY <2>1, <3>1 DEF NoNewSuspect
  <2>4. CASE pc = "parse" /\ job.prev = NoDocument /\ job'.path = None /\ job'.snapshot = job.snapshot
    <3>1. rows[job.path] = None BY <2>4, DocumentFacts DEF Core, Hand
    <3>2. ~StaleRow(job.path) BY <3>1 DEF StaleRow
    <3>3. ASSUME NEW q \in Paths, Suspect(q)' PROVE Suspect(q)
      <4>1. StaleRow(q) \/ StaleDoc(job.snapshot[q]) BY <2>2, <2>4, <3>3, NothingInHandNext
      <4>2. QED BY <3>2, <4>1 DEF Suspect
    <3>4. QED BY <2>1, <3>3 DEF NoNewSuspect
  <2>5. QED BY <2>1, <2>3, <2>4
<1>2. CASE RestoreDocument
  <2>1. /\ pc = "restoreDocument" /\ pc' = "restoreChunks" /\ UNCHANGED <<job, cuts>>
        /\ UpsertDocument(job.path, job.prev.hash)
    BY <1>2, RestoreDocumentFacts
  <2>2. kb # None /\ job.path \in Paths /\ job.prev.hash \in Contents
    BY <2>1, JobFacts, DocumentFacts DEF Core, Shape, Hand, Types, InHand, HasText
  <2>3. text' = text /\ \A q \in Paths : q # job.path => rows'[q] = rows[q]
    BY <2>1, <2>2, UpsertFacts DEF Core
  <2>4. \A q \in Paths : q # job.path => (StaleRow(q)' <=> StaleRow(q)) BY <2>3 DEF StaleRow
  <2>5. QED BY <2>1, <2>4 DEF NoNewSuspect, Suspect
<1>3. CASE RestoreChunks \/ Drop
  <2>1. /\ UNCHANGED cuts /\ job'.path = None /\ job'.snapshot = job.snapshot
        /\ \/ pc = "restoreChunks" /\ ReplaceChunks(job.path, job.prev.text)
           \/ pc = "drop" /\ DeleteDocument(job.path)
    BY <1>3, HandlerFacts DEF Core, Released, NoFile, SameBase
  <2>2. /\ kb # None /\ job.path \in Paths /\ job.prev.text \in Contents \cup {None}
        /\ (pc = "restoreChunks" => rows[job.path] = job.prev.hash)
    BY <2>1, JobFacts, DocumentFacts DEF Core, Shape, Hand, Types, InHand
  <2>3. /\ \/ rows'[job.path] = None
           \/ rows'[job.path] = job.prev.hash /\ text'[job.path] = job.prev.text
        /\ \A q \in Paths : q # job.path => rows'[q] = rows[q] /\ text'[q] = text[q]
    <3>1. CASE pc = "restoreChunks" /\ ReplaceChunks(job.path, job.prev.text)
      BY <2>2, <3>1, ReplaceFacts DEF Core
    <3>2. CASE DeleteDocument(job.path) BY <2>2, <3>2, DeleteFacts DEF Core
    <3>3. QED BY <2>1, <3>1, <3>2
  <2>4. ASSUME NEW q \in Paths, Suspect(q)' PROVE Suspect(q)
    <3>1. StaleRow(q)' \/ StaleDoc(job.snapshot[q]) BY <2>1, <2>4, NothingInHandNext
    <3>2. CASE q # job.path
      <4>1. StaleRow(q)' <=> StaleRow(q) BY <2>3, <3>2 DEF StaleRow
      <4>2. QED BY <3>1, <3>2, <4>1 DEF Suspect
    <3>3. CASE q = job.path
      <4>1. StaleRow(q)' => StaleDoc(job.prev) BY <2>3, <3>3 DEF StaleRow, StaleDoc
      <4>2. QED BY <3>1, <3>3, <4>1 DEF Suspect
    <3>4. QED BY <3>2, <3>3
  <2>5. QED BY <2>1, <2>4 DEF NoNewSuspect
<1>4. QED BY <1>1, <1>2, <1>3

LEMMA RestoreSuspects ==
  ASSUME Core, PutDocument \/ PutChunks
  PROVE  NoNewSuspect
<1>1. CASE PutDocument
  <2>1. PICK p \in Paths :
          /\ p \in job.todo /\ pc = "putDocument" /\ pc' = "putChunks" /\ UNCHANGED cuts
          /\ UpsertDocument(p, job.snapshot[p].hash)
          /\ job'.path = p /\ job'.prev = job.prev /\ job'.snapshot = job.snapshot
    BY <1>1, PutDocumentFacts DEF Core, SameBase
  <2>2. /\ kb # None /\ job.path = None /\ job.prev = NoDocument /\ job.snapshot[p] \in DocumentType
        /\ job.snapshot[p] # NoDocument /\ HasText(job.snapshot[p])
    BY <2>1, JobFacts DEF Core, Types, Shape, InHand
  <2>3. job.snapshot[p].hash \in Contents BY <2>2, DocumentFacts DEF HasText
  <2>4. text' = text /\ \A q \in Paths : q # p => rows'[q] = rows[q]
    BY <2>1, <2>2, <2>3, UpsertFacts DEF Core
  <2>5. ASSUME NEW q \in Paths, Suspect(q)' PROVE Suspect(q)
    <3>1. q # p => (StaleRow(q)' <=> StaleRow(q)) BY <2>4 DEF StaleRow
    <3>2. StaleRow(q) \/ StaleDoc(job.snapshot[q])
      BY <2>1, <2>2, <2>5, <3>1, FreshDocument DEF Suspect
    <3>3. QED BY <2>2, <3>2, NothingInHand
  <2>6. QED BY <2>1, <2>5 DEF NoNewSuspect
<1>2. CASE PutChunks
  <2>1. /\ pc = "putChunks" /\ UNCHANGED cuts /\ job'.path = None /\ job'.snapshot = job.snapshot
        /\ ReplaceChunks(job.path, job.snapshot[job.path].text)
    BY <1>2, PutChunksFacts DEF Core, Released, NoFile, SameBase
  <2>2. /\ kb # None /\ job.path \in Paths /\ rows[job.path] = job.snapshot[job.path].hash
        /\ job.snapshot[job.path] \in DocumentType
    BY <2>1, JobFacts DEF Core, Types, Shape, Hand, InHand
  <2>3. job.snapshot[job.path].text \in Contents \cup {None} BY <2>2, DocumentFacts
  <2>4. /\ rows' = rows /\ text'[job.path] = job.snapshot[job.path].text
        /\ \A q \in Paths : q # job.path => text'[q] = text[q]
    BY <2>1, <2>2, <2>3, ReplaceFacts DEF Core
  <2>5. ASSUME NEW q \in Paths, Suspect(q)' PROVE Suspect(q)
    <3>1. StaleRow(q)' \/ StaleDoc(job.snapshot[q]) BY <2>1, <2>5, NothingInHandNext
    <3>2. CASE q # job.path
      <4>1. StaleRow(q)' <=> StaleRow(q) BY <2>4, <3>2 DEF StaleRow
      <4>2. QED BY <3>1, <3>2, <4>1 DEF Suspect
    <3>3. CASE q = job.path
      <4>1. StaleRow(q)' => StaleDoc(job.snapshot[q]) BY <2>2, <2>4, <3>3 DEF StaleRow, StaleDoc
      <4>2. QED BY <3>1, <4>1 DEF Suspect
    <3>4. QED BY <3>2, <3>3
  <2>6. QED BY <2>1, <2>5 DEF NoNewSuspect
<1>3. QED BY <1>1, <1>2

\* A sync that is cut short, or a file that changed between its two reads,
\* leaves at most the document in hand.
LEMMA CutSuspects ==
  ASSUME Core, Types', SuspectsNeedCut, Parse \/ Escape \/ Crash
  PROVE  SuspectsNeedCut'
<1>1. CASE Parse
  <2>1. /\ pc = "parse" /\ pc' = "saveDocument" /\ UNCHANGED <<rows, text>>
        /\ job'.path = job.path /\ job'.hash = job.hash /\ job'.prev = job.prev
        /\ job'.snapshot = job.snapshot
        /\ cuts' = cuts + IF job'.read = job.hash THEN 0 ELSE 1
    BY <1>1, ParseFacts DEF Core, SameBase
  <2>2. \A q \in Paths : StaleRow(q)' <=> StaleRow(q) BY <2>1 DEF StaleRow
  <2>3. CASE job'.read = job.hash
    <3>1. \A q \in Paths : Suspect(q)' => Suspect(q) BY <2>1, <2>2, <2>3 DEF Suspect
    <3>2. cuts' >= cuts BY <2>1, <2>3 DEF Core, Types
    <3>3. QED BY <3>1, <3>2, FewerSuspects DEF Core
  <2>4. CASE job'.read # job.hash
    <3>1. \A q \in Paths : Suspect(q)' => Suspect(q) \/ q = job.path BY <2>1, <2>2 DEF Suspect
    <3>2. cuts' = cuts + 1 BY <2>1, <2>4
    <3>3. QED BY <3>1, <3>2, OneMoreSuspect DEF Core
  <2>5. QED BY <2>3, <2>4
<1>2. CASE Escape \/ Crash
  <2>1. /\ job' = NoJob /\ UNCHANGED <<rows, text>>
        /\ cuts' = cuts + IF pc = "idle" THEN 0 ELSE 1
    BY <1>2, CutFacts DEF Core
  <2>2. job'.path = None /\ \A q \in Paths : ~StaleDoc(job'.snapshot[q])
    BY <2>1, NoJobFacts, FreshDocument DEF NoFile
  <2>3. \A q \in Paths : Suspect(q)' => StaleRow(q)
    BY <2>1, <2>2, NothingInHandNext DEF StaleRow
  <2>4. \A q \in Paths : Suspect(q)' => Suspect(q) \/ q = job.path BY <2>3 DEF Suspect
  <2>5. CASE pc = "idle"
    <3>1. job.path = None BY <2>5, NoJobFacts DEF Core, Shape, NoFile
    <3>2. \A q \in Paths : Suspect(q)' => Suspect(q) BY <2>3, <3>1, NothingInHand
    <3>3. cuts' >= cuts BY <2>1, <2>5 DEF Core, Types
    <3>4. QED BY <3>2, <3>3, FewerSuspects DEF Core
  <2>6. CASE pc # "idle"
    <3>1. cuts' = cuts + 1 BY <2>1, <2>6
    <3>2. QED BY <2>4, <3>1, OneMoreSuspect DEF Core
  <2>7. QED BY <2>5, <2>6
<1>3. QED BY <1>1, <1>2

LEMMA SuspectsStep ==
  ASSUME Core, Core', SuspectsNeedCut, [Next]_vars
  PROVE  SuspectsNeedCut'
<1>1. CASE NoNewSuspect
  <2>1. cuts' >= cuts BY <1>1 DEF NoNewSuspect, Core, Types
  <2>2. QED BY <1>1, <2>1, FewerSuspects DEF NoNewSuspect, Core
<1>2. CASE UNCHANGED <<rows, text, pc, job, cuts>>
  BY <1>1, <1>2 DEF NoNewSuspect, Suspect, StaleRow
<1>3. CASE UNCHANGED vars BY <1>2, <1>3
<1>4. CASE \E g \in Registrars : RegisterCheck(g) \/ RegisterWrite(g)
  BY <1>2, <1>4 DEF RegisterCheck, RegisterWrite
<1>5. CASE ChangeDisk BY <1>2, <1>5 DEF ChangeDisk
<1>6. CASE Begin \/ Snapshot \/ Clear \/ Delete \/ Undo BY <1>1, <1>6, ClearingSuspects
<1>7. CASE CheckRoot \/ List \/ SkipFile \/ ReadRecord \/ WriteRecord \/ ListRestore
  BY <1>1, <1>7, BatchSuspects
<1>8. CASE ReadHash \/ SaveDocument \/ SaveChunks BY <1>1, <1>8, FileSuspects
<1>9. CASE FileFails \/ RestoreDocument \/ RestoreChunks \/ Drop BY <1>1, <1>9, HandlerSuspects
<1>10. CASE PutDocument \/ PutChunks BY <1>1, <1>10, RestoreSuspects
<1>11. CASE Parse \/ Escape \/ Crash BY <1>11, CutSuspects DEF Core
<1>12. QED BY <1>3, <1>4, <1>5, <1>6, <1>7, <1>8, <1>9, <1>10, <1>11 DEF Next, Sync

LEMMA SuspectsInit == Init => SuspectsNeedCut
<1> SUFFICES ASSUME Init PROVE SuspectsNeedCut OBVIOUS
<1>1. job = NoJob /\ cuts = 0 /\ rows = [p \in Paths |-> None] BY DEF Init
<1>2. \A p \in Paths : ~Suspect(p)
  BY <1>1, NoJobFacts, FreshDocument, NothingInHand DEF NoFile, StaleRow
<1>3. Suspects = {} BY <1>2 DEF Suspects
<1>4. QED BY <1>1, <1>3, FS_EmptySet DEF SuspectsNeedCut

LEMMA SuspectsInvariant == Spec => []SuspectsNeedCut
<1>1. Core /\ SuspectsNeedCut /\ [Next]_vars /\ Core' => SuspectsNeedCut' BY SuspectsStep
<1>2. QED BY <1>1, SuspectsInit, CoreInvariant, PTL DEF Spec

\* Each stale document is due to a sync that ended between two transactions,
\* by a crash or an exception, or to a file that changed between the two reads
\* of it; failures that the handler takes leave none.
THEOREM StaleIsCut == Spec => []StaleNeedsCut
<1>1. Core /\ SuspectsNeedCut => StaleNeedsCut
  <2> SUFFICES ASSUME Core, SuspectsNeedCut PROVE StaleNeedsCut OBVIOUS
  <2>1. Stale \subseteq Suspects BY DEF Stale, Suspects, Suspect, StaleRow
  <2>2. IsFiniteSet(Suspects) BY PathsAssumption, FS_Subset DEF Suspects
  <2>3. /\ Cardinality(Stale) <= Cardinality(Suspects)
        /\ Cardinality(Suspects) \in Nat /\ Cardinality(Stale) \in Nat
    BY <2>1, <2>2, FS_Subset, FS_CardinalityType
  <2>4. QED BY <2>3 DEF StaleNeedsCut, SuspectsNeedCut, Core, Types
<1>2. QED BY <1>1, CoreInvariant, SuspectsInvariant, PTL

-----------------------------------------------------------------------------
(* Success means fresh.                                                    *)

Good(p) == rows[p] = files[p] /\ text[p] = ChunksOf(files[p])

\* A batch that had no error so far and found nothing that an earlier sync
\* left stale.
Batch == {"delete", "file", "readRecord", "writeRecord"} \cup InHand
Clean == ~job.errors /\ ~job.undone /\ (job.op = "reindex" \/ cuts = 0) /\ pc \in Batch

\* What is neither to be deleted nor to be read is indexed as it is on disk.
Current == \A p \in Paths \ Unsupported : p \in job.todo \cup job.dels \/ Good(p)

\* What the sync has read of the disk is still there.
Seen ==
  /\ pc = "list" => root
  /\ pc = "delete" => \A p \in job.dels \ Unsupported : files[p] = None
  /\ pc \in {"parse", "saveDocument", "saveChunks"} => job.hash = files[job.path]
  /\ pc \in {"saveDocument", "saveChunks"} => job.read = files[job.path]

FreshInv == stable => Seen /\ (Clean => Current)
Reported == pc = "writeRecord" /\ job.status = "success" => ~job.errors /\ ~job.undone

LEMMA OffDisk ==
  ASSUME Rows, NEW p \in Paths, rows[p] = None, files[p] = None
  PROVE  Good(p)
BY DEF Rows, Good, ChunksOf

LEMMA SeenElsewhere ==
  ASSUME pc \notin {"list", "delete", "parse", "saveDocument", "saveChunks"}
  PROVE  Seen
BY DEF Seen

\* A step to a place where nothing is claimed.
LEMMA NothingClaimed ==
  ASSUME pc' \notin {"list", "delete", "parse", "saveDocument", "saveChunks"}, ~Clean'
  PROVE  FreshInv'
BY DEF FreshInv, Seen

LEMMA ScanFresh == ASSUME Core, FreshInv, List PROVE FreshInv'
<1>1. /\ pc = "list" /\ UNCHANGED <<root, files, rows, text, stable, cuts>> /\ pc' = NextPC(job')
      /\ job'.todo = (IF root THEN Present(files) ELSE {}) \ Unsupported
      /\ job'.dels = (IF job.op = "reindex" THEN {} ELSE Present(rows) \ job'.todo)
      /\ job'.op = job.op
  BY ListFacts DEF Core, SameBase, Frame
<1>2. pc' \in {"delete", "file", "readRecord"} BY <1>1, NextFacts
<1>3. SUFFICES ASSUME stable PROVE Seen' /\ Current' BY <1>1 DEF FreshInv
<1>4. root BY <1>1, <1>3 DEF FreshInv, Seen
<1>5. job'.todo = Present(files) \ Unsupported BY <1>1, <1>4
<1>6. ASSUME NEW p \in Paths \ Unsupported PROVE p \in job'.todo \/ files[p] = None
  BY <1>5, PresentFacts
<1>7. Seen'
  <2>1. job'.dels \subseteq Paths /\ job'.dels \cap job'.todo = {} BY <1>1, PresentFacts
  <2>2. \A p \in job'.dels \ Unsupported : files[p] = None BY <1>6, <2>1
  <2>3. QED BY <1>1, <1>2, <2>2 DEF Seen
<1>8. ASSUME NEW p \in Paths \ Unsupported, p \notin job'.todo \cup job'.dels PROVE Good(p)
  <2>1. files[p] = None BY <1>6, <1>8
  <2>2. rows[p] = None
    <3>1. CASE job.op = "reindex" BY <1>1, <3>1 DEF Core, Hand
    <3>2. CASE job.op # "reindex" BY <1>1, <1>8, <3>2, PresentFacts
    <3>3. QED BY <3>1, <3>2
  <2>3. QED BY <2>1, <2>2, OffDisk DEF Core
<1>9. \A p \in Paths : Good(p)' <=> Good(p) BY <1>1 DEF Good
<1>10. QED BY <1>7, <1>8, <1>9 DEF Current

LEMMA DeleteFresh == ASSUME Core, FreshInv, Delete PROVE FreshInv'
<1>1. PICK q \in Paths :
        /\ q \in job.dels /\ UNCHANGED <<root, files, stable, cuts>> /\ DeleteDocument(q)
        /\ pc = "delete" /\ pc' = NextPC(job')
        /\ job'.dels = job.dels \ {q} /\ job'.todo = job.todo /\ job'.op = job.op
        /\ job'.errors = job.errors /\ job'.undone = job.undone
  <2>1. ~(pc = "undo" /\ Undo) \/ pc # "delete" OBVIOUS
  <2>2. pc = "delete" BY DEF Delete, Write, Step
  <2>3. QED BY <2>2, DeletionFacts DEF Core, SameBase, SameFlags, Frame
<1>2. kb # None BY <1>1 DEF Core, Shape
<1>3. /\ rows'[q] = None /\ text'[q] = None
      /\ \A p \in Paths : p # q => rows'[p] = rows[p] /\ text'[p] = text[p]
  BY <1>1, <1>2, DeleteFacts DEF Core
<1>4. pc' \in {"delete", "file", "readRecord"} BY <1>1, NextFacts
<1>5. SUFFICES ASSUME stable PROVE Seen' /\ (Clean' => Current') BY <1>1 DEF FreshInv
<1>6. \A p \in job.dels \ Unsupported : files[p] = None BY <1>1, <1>5 DEF FreshInv, Seen
<1>7. Seen'
  <2>1. \A p \in job'.dels \ Unsupported : files[p] = None BY <1>1, <1>6
  <2>2. QED BY <1>1, <1>4, <2>1 DEF Seen
<1>8. ASSUME Clean', NEW p \in Paths \ Unsupported, p \notin job'.todo \cup job'.dels PROVE Good(p)'
  <2>1. Clean BY <1>1, <1>8 DEF Clean, Batch
  <2>2. CASE p = q
    <3>1. files[p] = None BY <1>1, <1>6, <2>2
    <3>2. QED BY <1>1, <1>3, <2>2, <3>1 DEF Good, ChunksOf
  <2>3. CASE p # q
    <3>1. Good(p) BY <1>1, <1>5, <1>8, <2>1, <2>3 DEF FreshInv, Current
    <3>2. QED BY <1>1, <1>3, <2>3, <3>1 DEF Good
  <2>4. QED BY <2>2, <2>3
<1>9. QED BY <1>7, <1>8 DEF Current

\* A skipped file has its document, and without a cut the document is not stale.
LEMMA SkipFresh == ASSUME Core, SuspectsNeedCut, FreshInv, SkipFile PROVE FreshInv'
<1>1. PICK q \in Paths :
        /\ q \in job.todo /\ Skips(q) /\ pc = "file" /\ pc' = NextPC(job')
        /\ UNCHANGED <<root, files, rows, text, stable, cuts>>
        /\ job'.todo = job.todo \ {q} /\ job'.dels = job.dels /\ job'.op = job.op
        /\ job'.errors = job.errors /\ job'.undone = job.undone
  BY SkipFileFacts DEF Core, Released, SameBase, Frame
<1>2. job.path = None /\ job.dels = {} /\ rows[q] = job.existing[q]
  BY <1>1, ContentsAssumption DEF Core, Shape, Hand, InHand
<1>3. pc' \in {"file", "readRecord"} BY <1>1, <1>2, NextFacts
<1>4. SUFFICES ASSUME stable, Clean' PROVE Current' BY <1>1, <1>3 DEF FreshInv, Seen
<1>5. Clean BY <1>1, <1>4 DEF Clean, Batch
<1>6. Good(q)
  <2>1. job.op = "ingest" /\ rows[q] = files[q] BY <1>1, <1>2 DEF Skips
  <2>2. cuts = 0 BY <1>5, <2>1 DEF Clean
  <2>3. Suspects = {}
    <3>1. Suspects \subseteq Paths /\ IsFiniteSet(Suspects) BY PathsAssumption, FS_Subset DEF Suspects
    <3>2. Cardinality(Suspects) \in Nat /\ Cardinality(Suspects) <= 0
      BY <2>2, <3>1, FS_CardinalityType DEF SuspectsNeedCut
    <3>3. QED BY <3>1, <3>2, FS_EmptySet
  <2>4. ~StaleRow(q) BY <1>2, <2>3, NothingInHand DEF Suspects
  <2>5. CASE rows[q] = None BY <2>1, <2>5, OffDisk DEF Core
  <2>6. CASE rows[q] # None BY <2>1, <2>4, <2>6 DEF StaleRow, Good
  <2>7. QED BY <2>5, <2>6
<1>7. ASSUME NEW p \in Paths \ Unsupported PROVE p \in job'.todo \cup job'.dels \/ Good(p)'
  <2>1. p \in job.todo \cup job.dels \/ Good(p) BY <1>1, <1>4, <1>5 DEF FreshInv, Current
  <2>2. Good(p)' <=> Good(p) BY <1>1 DEF Good
  <2>3. QED BY <1>1, <1>6, <2>1, <2>2
<1>8. QED BY <1>7 DEF Current

\* The steps of a file that is saved: until its chunks are, it is to be done.
LEMMA SavingFresh ==
  ASSUME Core, Core', FreshInv, ReadHash \/ Parse \/ SaveDocument
  PROVE  FreshInv'
<1>1. /\ pc \in {"file", "parse", "saveDocument"} /\ pc' \in {"parse", "saveDocument", "saveChunks"}
      /\ UNCHANGED <<root, files, text, stable>>
      /\ (cuts' = 0 => cuts = 0) /\ job'.todo = job.todo /\ job'.dels = job.dels /\ job'.op = job.op
      /\ job'.errors = job.errors /\ job'.undone = job.undone
      /\ \A p \in Paths : p \in job.todo \/ rows'[p] = rows[p]
      /\ stable => /\ job'.hash = files[job'.path]
                   /\ pc' \in {"saveDocument", "saveChunks"} => job'.read = files[job'.path]
  <2>1. CASE ReadHash BY <2>1, ReadHashFacts DEF Core, Frame, SameBase, SameFlags
  <2>2. CASE Parse
    <3>1. cuts \in Nat BY DEF Core, Types
    <3>2. pc = "parse" /\ cuts' = cuts + IF job'.read = job.hash THEN 0 ELSE 1
      BY <2>2, ParseFacts DEF Core
    <3>3. cuts' = 0 => cuts = 0 BY <3>1, <3>2
    <3>4. /\ pc' = "saveDocument" /\ UNCHANGED <<root, files, rows, text, stable>>
          /\ job'.todo = job.todo /\ job'.dels = job.dels /\ job'.op = job.op
          /\ job'.errors = job.errors /\ job'.undone = job.undone
          /\ job'.path = job.path /\ job'.hash = job.hash /\ job'.read = files[job.path]
      BY <2>2, ParseFacts DEF Core, Frame, SameBase, SameFlags
    <3>5. stable => job.hash = files[job.path] BY <3>2 DEF FreshInv, Seen
    <3>6. QED BY <3>2, <3>3, <3>4, <3>5
  <2>3. CASE SaveDocument
    <3>1. /\ pc = "saveDocument" /\ pc' = "saveChunks" /\ UNCHANGED <<root, files, job, stable, cuts>>
          /\ UpsertDocument(job.path, job.hash)
      BY <2>3, SaveDocumentFacts DEF Frame
    <3>2. kb # None /\ job.path \in job.todo /\ job.path \in Paths /\ job.hash \in Contents
      BY <3>1, JobFacts DEF Core, Shape, Types, InHand
    <3>3. text' = text /\ \A q \in Paths : q # job.path => rows'[q] = rows[q]
      BY <3>1, <3>2, UpsertFacts DEF Core
    <3>4. stable => job.hash = files[job.path] /\ job.read = files[job.path]
      BY <3>1 DEF FreshInv, Seen
    <3>5. QED BY <3>1, <3>2, <3>3, <3>4
  <2>4. QED BY <2>1, <2>2, <2>3
<1>2. SUFFICES ASSUME stable, Clean' PROVE Current' BY <1>1 DEF FreshInv, Seen
<1>3. Clean BY <1>1, <1>2 DEF Clean, Batch, InHand
<1>4. ASSUME NEW p \in Paths \ Unsupported PROVE p \in job'.todo \cup job'.dels \/ Good(p)'
  <2>1. p \in job.todo \cup job.dels \/ Good(p) BY <1>2, <1>3 DEF FreshInv, Current
  <2>2. CASE p \in job.todo BY <1>1, <2>2
  <2>3. CASE p \notin job.todo
    <3>1. Good(p)' <=> Good(p) BY <1>1, <2>3 DEF Good
    <3>2. QED BY <1>1, <2>1, <3>1
  <2>4. QED BY <2>2, <2>3
<1>5. QED BY <1>4 DEF Current

LEMMA SavedFresh == ASSUME Core, FreshInv, SaveChunks PROVE FreshInv'
<1>1. /\ pc = "saveChunks" /\ pc' = NextPC(job') /\ UNCHANGED <<root, files, stable, cuts>>
      /\ ReplaceChunks(job.path, ChunksOf(job.read))
      /\ job'.todo = job.todo \ {job.path} /\ job'.dels = job.dels /\ job'.op = job.op
      /\ job'.errors = job.errors /\ job'.undone = job.undone
  BY SaveChunksFacts DEF Core, Released, SameBase, Frame
<1>2. /\ kb # None /\ job.path \in Paths /\ job.dels = {} /\ rows[job.path] = job.hash
      /\ ChunksOf(job.read) \in Contents \cup {None}
  BY <1>1, JobFacts DEF Core, Shape, Hand, Types, InHand, ChunksOf
<1>3. /\ rows' = rows /\ text'[job.path] = ChunksOf(job.read)
      /\ \A q \in Paths : q # job.path => text'[q] = text[q]
  BY <1>1, <1>2, ReplaceFacts DEF Core
<1>4. pc' \in {"file", "readRecord"} BY <1>1, <1>2, NextFacts
<1>5. SUFFICES ASSUME stable, Clean' PROVE Current' BY <1>1, <1>4 DEF FreshInv, Seen
<1>6. Clean BY <1>1, <1>5 DEF Clean, Batch, InHand
<1>7. job.hash = files[job.path] /\ job.read = files[job.path] BY <1>1, <1>5 DEF FreshInv, Seen
<1>8. ASSUME NEW p \in Paths \ Unsupported PROVE p \in job'.todo \cup job'.dels \/ Good(p)'
  <2>1. CASE p = job.path BY <1>1, <1>2, <1>3, <1>7, <2>1 DEF Good
  <2>2. CASE p # job.path
    <3>1. p \in job.todo \cup job.dels \/ Good(p) BY <1>5, <1>6 DEF FreshInv, Current
    <3>2. Good(p)' <=> Good(p) BY <1>1, <1>3, <2>2 DEF Good
    <3>3. QED BY <1>1, <2>2, <3>1, <3>2
  <2>3. QED BY <2>1, <2>2
<1>9. QED BY <1>8 DEF Current

LEMMA HandlerFresh ==
  ASSUME Core, Core', FreshInv, FileFails \/ RestoreDocument \/ RestoreChunks \/ Drop
  PROVE  FreshInv'
<1>1. CASE FileFails /\ UNCHANGED job
  <2>1. /\ pc \in {"parse", "saveDocument", "saveChunks"} /\ pc' \in {"restoreDocument", "drop"}
        /\ UNCHANGED <<files, rows, text, stable, cuts>>
    <3>1. Released(job.path) => job'.path = None BY DEF Released, NoFile
    <3>2. pc \in {"parse", "saveDocument", "saveChunks"} => job.path # None
      BY JobFacts, ContentsAssumption DEF Core, Shape, Types, InHand
    <3>3. QED BY <1>1, <3>1, <3>2, FileFailsFacts DEF Core, Frame
  <2>2. Clean' => Clean BY <1>1, <2>1 DEF Clean, Batch, InHand
  <2>3. Current' <=> Current BY <1>1, <2>1 DEF Current, Good
  <2>4. QED BY <2>1, <2>2, <2>3 DEF FreshInv, Seen
<1>2. CASE RestoreDocument
  <2>1. /\ pc = "restoreDocument" /\ pc' = "restoreChunks" /\ UNCHANGED <<job, files, stable, cuts>>
        /\ UpsertDocument(job.path, job.prev.hash)
    BY <1>2, RestoreDocumentFacts DEF Frame
  <2>2. kb # None /\ job.path \in job.todo /\ job.path \in Paths /\ job.prev.hash \in Contents
    BY <2>1, JobFacts, DocumentFacts DEF Core, Shape, Hand, Types, InHand, HasText
  <2>3. text' = text /\ \A q \in Paths : q # job.path => rows'[q] = rows[q]
    BY <2>1, <2>2, UpsertFacts DEF Core
  <2>4. Clean' => Clean BY <2>1 DEF Clean, Batch, InHand
  <2>5. Current => Current'
    <3>1. \A p \in Paths : p = job.path \/ (Good(p)' <=> Good(p)) BY <2>1, <2>3 DEF Good
    <3>2. QED BY <2>1, <2>2, <3>1 DEF Current
  <2>6. QED BY <2>1, <2>4, <2>5 DEF FreshInv, Seen
<1>3. CASE Failed /\ pc' = NextPC(job') /\ job'.dels = {}
  <2>1. ~Clean' BY <1>3 DEF Failed, Clean
  <2>2. pc' \in {"file", "readRecord"} BY <1>3, NextFacts
  <2>3. QED BY <2>1, <2>2, NothingClaimed
<1>4. CASE FileFails /\ ~UNCHANGED job
  <2>1. pc = "parse" /\ pc' = NextPC(job') /\ Released(job.path) /\ Failed
    BY <1>4, FileFailsFacts DEF Core
  <2>2. job'.dels = {} BY <2>1 DEF Released, Core, Hand, InHand
  <2>3. QED BY <1>3, <2>1, <2>2
<1>5. CASE RestoreChunks \/ Drop
  <2>1. pc \in {"restoreChunks", "drop"} /\ pc' = NextPC(job') /\ Released(job.path) /\ Failed
    BY <1>5, HandlerFacts DEF Core
  <2>2. job'.dels = {} BY <2>1 DEF Released, Core, Hand, InHand
  <2>3. QED BY <1>3, <2>1, <2>2
<1>6. QED BY <1>1, <1>2, <1>4, <1>5

LEMMA ReadRecordFresh == ASSUME Core, FreshInv, ReadRecord PROVE FreshInv' /\ Reported'
<1>1. /\ pc = "readRecord" /\ pc' = "writeRecord" /\ UNCHANGED <<root, files, rows, text, stable, cuts>>
      /\ job'.status = (IF job.status = None THEN BatchStatus ELSE "failed")
      /\ job'.todo = job.todo /\ job'.dels = job.dels /\ job'.op = job.op
      /\ job'.errors = job.errors /\ job'.undone = job.undone
  BY ReadRecordFacts DEF Core, SameFlags, Frame
<1>2. Clean' => Clean BY <1>1 DEF Clean, Batch
<1>3. Current' <=> Current BY <1>1 DEF Current, Good
<1>4. FreshInv' BY <1>1, <1>2, <1>3 DEF FreshInv, Seen
<1>5. Reported'
  <2>1. SUFFICES ASSUME job'.status = "success" PROVE ~job.errors /\ ~job.undone BY <1>1 DEF Reported
  <2>2. job.status = None /\ BatchStatus = "success" BY <1>1, <2>1
  <2>3. ~job.errors BY <2>2 DEF BatchStatus
  <2>4. ~job.undone BY <2>2 DEF Core, Shape
  <2>5. QED BY <2>3, <2>4
<1>6. QED BY <1>4, <1>5

LEMMA UndoingFresh ==
  ASSUME Core, Core', ListRestore \/ Undo \/ PutDocument \/ PutChunks
  PROVE  FreshInv'
<1>1. /\ pc \in {"listRestore", "undo", "putDocument", "putChunks"}
      /\ pc' \in {"undo", "putDocument", "putChunks", "readRecord"}
      /\ job'.undone = job.undone
  <2>1. CASE ListRestore BY <2>1, ListRestoreFacts, UndoFacts DEF Core, SameFlags
  <2>2. CASE Undo
    <3>1. pc = "undo" BY <2>2 DEF Undo, Write, Step
    <3>2. QED BY <2>2, <3>1, DeletionFacts, UndoFacts DEF Core, SameFlags
  <2>3. CASE PutDocument BY <2>3, PutDocumentFacts DEF Core, SameFlags
  <2>4. CASE PutChunks BY <2>4, PutChunksFacts, UndoFacts DEF Core, Released
  <2>5. QED BY <2>1, <2>2, <2>3, <2>4
<1>2. ~Clean' BY <1>1 DEF Core, Shape, Undoing, Clean
<1>3. QED BY <1>1, <1>2, NothingClaimed

LEMMA FreshStep ==
  ASSUME Core, Core', SuspectsNeedCut, FreshInv, Reported, [Next]_vars
  PROVE  FreshInv' /\ Reported'
<1> DEFINE Elsewhere == pc' # "writeRecord" /\ FreshInv'
<1>1. CASE UNCHANGED <<root, files, rows, text, pc, job, stable, cuts>>
  <2>1. (Seen' <=> Seen) /\ (Clean' <=> Clean) /\ (Current' <=> Current)
    BY <1>1 DEF Seen, Clean, Current, Good
  <2>2. QED BY <1>1, <2>1 DEF FreshInv, Reported
<1>2. CASE UNCHANGED vars BY <1>1, <1>2
<1>3. CASE \E g \in Registrars : RegisterCheck(g) \/ RegisterWrite(g)
  BY <1>1, <1>3 DEF RegisterCheck, RegisterWrite
<1>4. CASE ChangeDisk BY <1>4 DEF ChangeDisk, FreshInv, Reported
<1>5. CASE Elsewhere BY <1>5 DEF Reported
<1>6. CASE Begin \/ Snapshot \/ Clear \/ Escape \/ Crash
  <2>1. pc' \in {"idle", "snapshot", "clear", "root"}
    BY <1>6, BeginFacts, SnapshotFacts, ClearFacts, CutFacts DEF Core
  <2>2. ~Clean' BY <2>1 DEF Clean, Batch, InHand
  <2>3. QED BY <1>5, <2>1, <2>2, NothingClaimed
<1>7. CASE CheckRoot
  <2>1. /\ pc' = (IF root THEN "list" ELSE "readRecord") /\ job'.errors = ~root /\ root' = root
    BY <1>7, CheckRootFacts DEF Core, Frame
  <2>2. FreshInv' BY <2>1 DEF FreshInv, Seen, Clean, Batch, InHand
  <2>3. QED BY <1>5, <2>1, <2>2
<1>8. CASE List
  <2>1. pc' # "writeRecord" BY <1>8, ListFacts, NextFacts DEF Core
  <2>2. QED BY <1>5, <1>8, <2>1, ScanFresh
<1>9. CASE Delete
  <2>1. pc = "delete" BY <1>9 DEF Delete, Write, Step
  <2>2. pc' # "writeRecord" BY <1>9, <2>1, DeletionFacts, NextFacts DEF Core
  <2>3. QED BY <1>5, <1>9, <2>2, DeleteFresh
<1>10. CASE SkipFile
  <2>1. pc' # "writeRecord" BY <1>10, SkipFileFacts, NextFacts DEF Core
  <2>2. QED BY <1>5, <1>10, <2>1, SkipFresh
<1>11. CASE ReadHash \/ Parse \/ SaveDocument
  <2>1. pc' # "writeRecord" BY <1>11, ReadHashFacts, ParseFacts, SaveDocumentFacts DEF Core
  <2>2. QED BY <1>5, <1>11, <2>1, SavingFresh
<1>12. CASE SaveChunks
  <2>1. pc' # "writeRecord" BY <1>12, SaveChunksFacts, NextFacts DEF Core
  <2>2. QED BY <1>5, <1>12, <2>1, SavedFresh
<1>13. CASE FileFails \/ RestoreDocument \/ RestoreChunks \/ Drop
  <2>1. pc' # "writeRecord" BY <1>13, FileFailsFacts, RestoreDocumentFacts, HandlerFacts, NextFacts DEF Core
  <2>2. QED BY <1>5, <1>13, <2>1, HandlerFresh
<1>14. CASE ReadRecord BY <1>14, ReadRecordFresh
<1>15. CASE WriteRecord
  <2>1. \/ pc' = "idle"
        \/ pc' \in {"listRestore", "readRecord"} /\ job'.undone = TRUE
    BY <1>15, WriteRecordFacts DEF Core
  <2>2. ~Clean' BY <2>1 DEF Clean, Batch, InHand
  <2>3. QED BY <1>5, <2>1, <2>2, NothingClaimed
<1>16. CASE ListRestore \/ Undo \/ PutDocument \/ PutChunks
  <2>1. FreshInv' BY <1>16, UndoingFresh
  <2>2. pc' # "writeRecord"
    <3>1. CASE ListRestore BY <3>1, ListRestoreFacts, UndoFacts DEF Core
    <3>2. CASE Undo
      <4>1. pc = "undo" BY <3>2 DEF Undo, Write, Step
      <4>2. QED BY <3>2, <4>1, DeletionFacts, UndoFacts DEF Core
    <3>3. CASE PutDocument BY <3>3, PutDocumentFacts DEF Core
    <3>4. CASE PutChunks BY <3>4, PutChunksFacts, UndoFacts DEF Core
    <3>5. QED BY <1>16, <3>1, <3>2, <3>3, <3>4
  <2>3. QED BY <1>5, <2>1, <2>2
<1>17. QED
  BY <1>2, <1>3, <1>4, <1>6, <1>7, <1>8, <1>9, <1>10, <1>11, <1>12, <1>13, <1>14, <1>15, <1>16 DEF Next, Sync

LEMMA FreshInvariant == Spec => [](FreshInv /\ Reported)
<1>1. Init => FreshInv /\ Reported
  BY DEF Init, FreshInv, Reported, Seen, Clean, Batch, InHand
<1>2. Core /\ SuspectsNeedCut /\ FreshInv /\ Reported /\ [Next]_vars /\ Core' => FreshInv' /\ Reported'
  BY FreshStep
<1>3. QED BY <1>1, <1>2, CoreInvariant, SuspectsInvariant, PTL DEF Spec

\* Only the last step of a sync ends it without a cut.
LEMMA ReturnsByRecord ==
  ASSUME Core, [Next]_vars, SyncReturned
  PROVE  WriteRecord /\ UNCHANGED <<files, rows, text>> /\ ~Unsuccessful
<1>1. pc # "idle" /\ pc' = "idle" /\ cuts' = cuts /\ cuts \in Nat BY DEF SyncReturned, Core, Types
<1>2. CASE UNCHANGED pc BY <1>1, <1>2
<1>3. CASE Begin \/ ChangeDisk \/ \E g \in Registrars : RegisterCheck(g) \/ RegisterWrite(g)
  BY <1>1, <1>3 DEF Begin, ChangeDisk, RegisterCheck, RegisterWrite
<1>4. CASE Escape \/ Crash
  <2>1. cuts' = cuts + 1 BY <1>1, <1>4, CutFacts DEF Core
  <2>2. QED BY <1>1, <2>1
<1>5. CASE Snapshot \/ Clear \/ CheckRoot
  BY <1>1, <1>5, SnapshotFacts, ClearFacts, CheckRootFacts DEF Core
<1>6. CASE List \/ SkipFile \/ SaveChunks \/ FileFails \/ RestoreChunks \/ Drop
  BY <1>1, <1>6, ListFacts, SkipFileFacts, SaveChunksFacts, FileFailsFacts, HandlerFacts, NextFacts DEF Core
<1>7. CASE ReadHash \/ Parse \/ SaveDocument \/ RestoreDocument \/ ReadRecord \/ PutDocument
  BY <1>1, <1>7 DEF ReadHash, Parse, SaveDocument, RestoreDocument, ReadRecord, PutDocument, Read, Write, Step
<1>8. CASE Delete \/ Undo \/ ListRestore \/ PutChunks
  BY <1>1, <1>8, DeletionFacts, ListRestoreFacts, PutChunksFacts, NextFacts, UndoFacts DEF Core
<1>9. CASE WriteRecord BY <1>1, <1>9, WriteRecordFacts DEF Core, Frame
<1>10. QED BY <1>2, <1>3, <1>4, <1>5, <1>6, <1>7, <1>8, <1>9 DEF Next, Sync

\* When ingest or reindex reports success and no file changed meanwhile, the
\* index is the files: an ingest unless an earlier sync was cut short, a
\* reindex whatever happened before it.
THEOREM SuccessTellsTheTruth == Spec => SuccessIsFresh
<1>1. ASSUME Core, FreshInv, Reported, [Next]_vars, SyncReturned, job.status = "success", stable,
             job.op = "reindex" \/ cuts = 0
      PROVE  Fresh'
  <2>1. pc = "writeRecord" /\ UNCHANGED <<files, rows, text>>
    BY <1>1, ReturnsByRecord DEF WriteRecord, Write, Step
  <2>2. ~job.errors /\ ~job.undone BY <1>1, <2>1 DEF Reported
  <2>3. job.todo = {} /\ job.dels = {} BY <1>1, <2>1, <2>2 DEF Core, Shape
  <2>4. Current BY <1>1, <2>1, <2>2 DEF FreshInv, Clean, Batch
  <2>5. Fresh BY <2>3, <2>4 DEF Current, Good, Fresh
  <2>6. QED BY <2>1, <2>5 DEF Fresh
<1>2. Core /\ FreshInv /\ Reported /\ [Next]_vars =>
        [SyncReturned /\ job.status = "success" /\ stable /\ (job.op = "reindex" \/ cuts = 0)
           => Fresh']_vars
  BY <1>1
<1>3. QED BY <1>2, CoreInvariant, FreshInvariant, PTL DEF Spec, SuccessIsFresh

-----------------------------------------------------------------------------
(* A failed reindex.                                                       *)

\* The index is emptied, then the snapshot is put back document by document.
RestoreInv ==
  job.undone =>
    /\ pc = "undo" => /\ job.todo = {p \in Paths : job.snapshot[p] # NoDocument}
                      /\ \A p \in Paths : p \in job.dels \/ Document(p) = NoDocument
    /\ pc \in {"putDocument", "putChunks"} =>
         /\ job.dels = {}
         /\ \A p \in Paths : p \in job.todo \/ Document(p) = job.snapshot[p]
    /\ pc \in {"readRecord", "writeRecord"} /\ HasSnapshot => Index = job.snapshot

\* Where the deletions and then the documents to put back run out.
LEMMA RestoreNext ==
  ASSUME job'.todo \subseteq Paths, job'.snapshot = job.snapshot, pc' = AfterUndo(job'),
         job'.todo = {p \in Paths : job.snapshot[p] # NoDocument},
         \A p \in Paths : p \in job'.dels \/ Document(p)' = NoDocument
  PROVE  RestoreInv'
<1>1. pc' \in {"undo", "putDocument", "readRecord"} /\ (pc' # "undo" => job'.dels = {})
      /\ (pc' = "readRecord" => job'.todo = {})
  BY UndoFacts
<1>2. CASE pc' = "undo" BY <1>2 DEF RestoreInv
<1>3. CASE pc' = "putDocument"
  <2>1. \A p \in Paths : p \in job'.todo \/ Document(p)' = job'.snapshot[p] BY <1>1, <1>3
  <2>2. QED BY <1>1, <1>3, <2>1 DEF RestoreInv
<1>4. CASE pc' = "readRecord"
  <2>1. ~HasSnapshot' BY <1>1, <1>4 DEF HasSnapshot
  <2>2. QED BY <1>4, <2>1 DEF RestoreInv
<1>5. QED BY <1>1, <1>2, <1>3, <1>4

LEMMA ListRestoreKept == ASSUME Core, ListRestore PROVE RestoreInv'
<1>1. /\ pc' = AfterUndo(job') /\ UNCHANGED <<rows, text>> /\ job'.dels = Present(rows)
      /\ job'.todo = {p \in Paths : job.snapshot[p] # NoDocument} /\ job'.snapshot = job.snapshot
  BY ListRestoreFacts DEF Core, SameBase
<1>2. ASSUME NEW p \in Paths PROVE p \in job'.dels \/ Document(p)' = NoDocument
  <2>1. CASE rows[p] = None
    <3>1. text[p] = None BY <2>1 DEF Core, Rows
    <3>2. QED BY <1>1, <2>1, <3>1 DEF Document, NoDocument
  <2>2. CASE rows[p] # None BY <1>1, <2>2, PresentFacts
  <2>3. QED BY <2>1, <2>2
<1>3. job'.todo \subseteq Paths BY <1>1
<1>4. QED BY <1>1, <1>2, <1>3, RestoreNext

LEMMA UndoKept == ASSUME Core, RestoreInv, Undo PROVE RestoreInv'
<1>1. pc = "undo" BY DEF Undo, Write, Step
<1>2. PICK q \in Paths :
        /\ DeleteDocument(q) /\ pc' = AfterUndo(job') /\ job'.dels = job.dels \ {q}
        /\ job'.todo = job.todo /\ job'.snapshot = job.snapshot
  BY <1>1, DeletionFacts DEF Core, SameBase
<1>3. kb # None /\ job.undone BY <1>1 DEF Core, Shape, Undoing
<1>4. /\ rows'[q] = None /\ text'[q] = None
      /\ \A p \in Paths : p # q => rows'[p] = rows[p] /\ text'[p] = text[p]
  BY <1>2, <1>3, DeleteFacts DEF Core
<1>5. /\ job.todo = {p \in Paths : job.snapshot[p] # NoDocument}
      /\ \A p \in Paths : p \in job.dels \/ Document(p) = NoDocument
  BY <1>1, <1>3 DEF RestoreInv
<1>6. ASSUME NEW p \in Paths PROVE p \in job'.dels \/ Document(p)' = NoDocument
  <2>1. CASE p = q BY <1>4, <2>1 DEF Document, NoDocument
  <2>2. CASE p # q
    <3>1. Document(p)' = Document(p) BY <1>4, <2>2 DEF Document
    <3>2. QED BY <1>2, <1>5, <2>2, <3>1
  <2>3. QED BY <2>1, <2>2
<1>7. job'.todo \subseteq Paths BY <1>2, <1>5
<1>8. QED BY <1>2, <1>5, <1>6, <1>7, RestoreNext

LEMMA PutDocumentKept == ASSUME Core, RestoreInv, PutDocument PROVE RestoreInv'
<1>1. PICK q \in job.todo :
        /\ q \in Paths /\ pc = "putDocument" /\ pc' = "putChunks"
        /\ UpsertDocument(q, job.snapshot[q].hash)
        /\ job'.todo = job.todo /\ job'.dels = job.dels /\ job'.snapshot = job.snapshot
  BY PutDocumentFacts DEF Core, SameBase
<1>2. /\ kb # None /\ job.undone /\ job.snapshot[q] \in DocumentType
      /\ job.snapshot[q] # NoDocument /\ HasText(job.snapshot[q])
  BY <1>1, JobFacts DEF Core, Types, Shape, Undoing
<1>3. job.snapshot[q].hash \in Contents BY <1>2, DocumentFacts DEF HasText
<1>4. text' = text /\ \A p \in Paths : p # q => rows'[p] = rows[p]
  BY <1>1, <1>2, <1>3, UpsertFacts DEF Core
<1>5. job.dels = {} /\ \A p \in Paths : p \in job.todo \/ Document(p) = job.snapshot[p]
  BY <1>1, <1>2 DEF RestoreInv
<1>6. ASSUME NEW p \in Paths PROVE p \in job.todo \/ Document(p)' = job.snapshot[p]
  <2>1. p # q => Document(p)' = Document(p) BY <1>4 DEF Document
  <2>2. QED BY <1>1, <1>5, <2>1
<1>7. QED BY <1>1, <1>5, <1>6 DEF RestoreInv

LEMMA PutChunksKept == ASSUME Core, RestoreInv, PutChunks PROVE RestoreInv'
<1> DEFINE q == job.path
<1>1. /\ pc = "putChunks" /\ pc' = AfterUndo(job')
      /\ ReplaceChunks(q, job.snapshot[q].text)
      /\ job'.todo = job.todo \ {q} /\ job'.dels = job.dels /\ job'.snapshot = job.snapshot
  BY PutChunksFacts DEF Core, Released, SameBase
<1>2. /\ kb # None /\ job.undone /\ q \in Paths /\ rows[q] = job.snapshot[q].hash
      /\ job.snapshot[q] \in DocumentType /\ job.snapshot \in [Paths -> DocumentType]
  BY <1>1, JobFacts DEF Core, Types, Shape, Hand, InHand, Undoing
<1>3. job.snapshot[q].text \in Contents \cup {None} BY <1>2, DocumentFacts
<1> HIDE DEF q
<1>4. /\ rows' = rows /\ text'[q] = job.snapshot[q].text
      /\ \A p \in Paths : p # q => text'[p] = text[p]
  BY <1>1, <1>2, <1>3, ReplaceFacts DEF Core
<1>5. job.dels = {} /\ \A p \in Paths : p \in job.todo \/ Document(p) = job.snapshot[p]
  BY <1>1, <1>2 DEF RestoreInv
<1>6. ASSUME NEW p \in Paths PROVE p \in job'.todo \/ Document(p)' = job.snapshot[p]
  <2>1. CASE p = q
    <3>1. Document(p)' = [hash |-> job.snapshot[q].hash, text |-> job.snapshot[q].text]
      BY <1>2, <1>4, <2>1 DEF Document
    <3>2. QED BY <1>2, <2>1, <3>1 DEF DocumentType
  <2>2. CASE p # q
    <3>1. Document(p)' = Document(p) BY <1>4, <2>2 DEF Document
    <3>2. QED BY <1>1, <1>5, <2>2, <3>1
  <2>3. QED BY <2>1, <2>2
<1>7. pc' \in {"putDocument", "readRecord"} /\ (pc' = "readRecord" => job'.todo = {})
  BY <1>1, <1>5, UndoFacts DEF AfterUndo
<1>8. CASE pc' = "putDocument" BY <1>1, <1>5, <1>6, <1>8 DEF RestoreInv
<1>9. CASE pc' = "readRecord"
  <2>1. \A p \in Paths : Index'[p] = job'.snapshot[p] BY <1>1, <1>6, <1>7, <1>9 DEF Index
  <2>2. Index' = job'.snapshot BY <1>1, <1>2, <2>1 DEF Index
  <2>3. QED BY <1>9, <2>2 DEF RestoreInv
<1>10. QED BY <1>7, <1>8, <1>9

LEMMA RestoreStep ==
  ASSUME Core, Core', RestoreInv, [Next]_vars
  PROVE  RestoreInv'
<1>1. CASE UNCHANGED <<rows, text, pc, job>>
  <2>1. Index' = Index /\ \A p \in Paths : Document(p)' = Document(p) BY <1>1 DEF Index, Document
  <2>2. QED BY <1>1, <2>1 DEF RestoreInv, HasSnapshot
<1>2. CASE UNCHANGED vars BY <1>1, <1>2
<1>3. CASE ChangeDisk \/ \E g \in Registrars : RegisterCheck(g) \/ RegisterWrite(g)
  BY <1>1, <1>3 DEF ChangeDisk, RegisterCheck, RegisterWrite
<1>4. CASE ~job'.undone BY <1>4 DEF RestoreInv
<1>5. CASE Begin \/ Escape \/ Crash
  BY <1>4, <1>5, BeginFacts, CutFacts, NoJobFacts DEF Core
<1>6. CASE Sync /\ ~job.undone /\ ~WriteRecord
  <2>1. job'.undone = job.undone \/ job' = NoJob
    <3>1. CASE Snapshot \/ Clear \/ CheckRoot \/ List
      BY <3>1, SnapshotFacts, ClearFacts, CheckRootFacts, ListFacts DEF Core, SameFlags
    <3>2. CASE Delete \/ Undo \/ ListRestore \/ PutDocument \/ PutChunks
      BY <3>2, DeletionFacts, ListRestoreFacts, PutDocumentFacts, PutChunksFacts DEF Core, SameFlags, Released
    <3>3. CASE SkipFile \/ ReadHash \/ Parse \/ SaveChunks
      BY <3>3, SkipFileFacts, ReadHashFacts, ParseFacts, SaveChunksFacts DEF Core, SameFlags, Released
    <3>4. CASE SaveDocument \/ RestoreDocument
      BY <3>4, SaveDocumentFacts, RestoreDocumentFacts
    <3>5. CASE FileFails \/ RestoreChunks \/ Drop
      BY <3>5, FileFailsFacts, HandlerFacts DEF Core, Released
    <3>6. CASE ReadRecord BY <3>6, ReadRecordFacts DEF Core, SameFlags
    <3>7. CASE Escape BY <3>7, CutFacts DEF Core
    <3>8. QED BY <1>6, <3>1, <3>2, <3>3, <3>4, <3>5, <3>6, <3>7 DEF Sync
  <2>2. QED BY <1>4, <1>6, <2>1, NoJobFacts
<1>7. CASE Sync /\ job.undone /\ ~WriteRecord
  <2>1. pc \in Undoing \cup {"readRecord", "writeRecord"} BY <1>7 DEF Core, Shape
  <2>2. CASE ListRestore BY <2>2, ListRestoreKept
  <2>3. CASE Undo BY <2>3, UndoKept
  <2>4. CASE PutDocument BY <2>4, PutDocumentKept
  <2>5. CASE PutChunks BY <2>5, PutChunksKept
  <2>6. CASE ReadRecord
    <3>1. /\ pc = "readRecord" /\ pc' = "writeRecord" /\ UNCHANGED <<rows, text>>
          /\ job'.snapshot = job.snapshot
      BY <2>6, ReadRecordFacts DEF Core
    <3>2. Index' = Index /\ (HasSnapshot' <=> HasSnapshot) BY <3>1 DEF Index, Document, HasSnapshot
    <3>3. QED BY <1>7, <3>1, <3>2 DEF RestoreInv
  <2>7. CASE Escape BY <1>5, <2>7
  <2>8. QED
    <3>1. pc \in {"listRestore", "undo", "putDocument", "putChunks", "readRecord", "writeRecord"}
      BY <2>1 DEF Undoing
    <3>2. CASE Snapshot \/ Clear \/ CheckRoot \/ List \/ Delete
      BY <3>1, <3>2 DEF Snapshot, Clear, CheckRoot, List, Delete, Read, Write, Step
    <3>3. CASE SkipFile \/ ReadHash \/ Parse \/ SaveDocument \/ SaveChunks
      BY <3>1, <3>3 DEF SkipFile, ReadHash, Parse, SaveDocument, SaveChunks, Read, Write, Step
    <3>4. CASE FileFails \/ RestoreDocument \/ RestoreChunks \/ Drop
      BY <3>1, <3>4 DEF FileFails, RestoreDocument, RestoreChunks, Drop, Write, Step
    <3>5. QED BY <1>7, <2>2, <2>3, <2>4, <2>5, <2>6, <2>7, <3>2, <3>3, <3>4 DEF Sync
<1>8. CASE WriteRecord
  <2>1. CASE job' = NoJob BY <1>4, <2>1, NoJobFacts
  <2>2. CASE Unsuccessful
    <3>1. /\ pc' = (IF HasSnapshot THEN "listRestore" ELSE "readRecord") /\ job'.snapshot = job.snapshot
      BY <1>8, <2>2, WriteRecordFacts DEF Core, SameBase
    <3>2. HasSnapshot' <=> HasSnapshot BY <3>1 DEF HasSnapshot
    <3>3. QED BY <3>1, <3>2 DEF RestoreInv
  <2>3. QED BY <1>8, <2>1, <2>2, WriteRecordFacts DEF Core
<1>9. QED BY <1>2, <1>3, <1>5, <1>6, <1>7, <1>8 DEF Next

LEMMA RestoreInvariant == Spec => []RestoreInv
<1>1. Init => RestoreInv BY NoJobFacts DEF Init, RestoreInv
<1>2. Core /\ RestoreInv /\ [Next]_vars /\ Core' => RestoreInv' BY RestoreStep
<1>3. QED BY <1>1, <1>2, CoreInvariant, PTL DEF Spec

\* A reindex that reports a failure has put every document and its chunks back
\* as they were, and left none of its own.
THEOREM FailureIsUndone == Spec => FailedReindexRestores
<1>1. ASSUME Core, RestoreInv, [Next]_vars, SyncReturned,
             job.op = "reindex", job.status # "success", HasSnapshot
      PROVE  Index' = job.snapshot
  <2>1. pc = "writeRecord" /\ UNCHANGED <<rows, text>> /\ ~Unsuccessful
    BY <1>1, ReturnsByRecord DEF WriteRecord, Write, Step
  <2>2. job.undone BY <1>1, <2>1 DEF Unsuccessful
  <2>3. Index = job.snapshot BY <1>1, <2>1, <2>2 DEF RestoreInv
  <2>4. QED BY <2>1, <2>3 DEF Index, Document
<1>2. Core /\ RestoreInv /\ [Next]_vars =>
        [SyncReturned /\ job.op = "reindex" /\ job.status # "success" /\ HasSnapshot
           => Index' = job.snapshot]_vars
  BY <1>1
<1>3. QED BY <1>2, CoreInvariant, RestoreInvariant, PTL DEF Spec, FailedReindexRestores

=============================================================================
