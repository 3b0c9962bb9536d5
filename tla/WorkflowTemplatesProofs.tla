---------------------- MODULE WorkflowTemplatesProofs ----------------------
(* Theorems about WorkflowTemplates, for all sets of requests, tools,      *)
(* knowledge bases and definitions, every number of versions and launches. *)
EXTENDS WorkflowTemplates, WellFoundedInduction, TLAPS

-----------------------------------------------------------------------------
(* Newest.                                                                 *)

LEMMA NewestExists ==
  ASSUME NEW S \in SUBSET Numbers, S # {}
  PROVE  Newest(S) \in S /\ \A w \in S : w <= Newest(S)
<1> USE BoundsAssumption DEF Numbers
<1> DEFINE T == {MaxVersion - v : v \in S}
<1>1. T \subseteq Nat /\ T # {}
  <2>1. \A v \in S : MaxVersion - v \in Nat OBVIOUS
  <2>2. T \subseteq Nat BY <2>1
  <2>3. PICK s \in S : TRUE OBVIOUS
  <2>4. MaxVersion - s \in T BY <2>3
  <2>5. QED BY <2>2, <2>4
<1>2. PICK x \in T : \A y \in T : ~(<<y, x>> \in OpToRel(<, Nat))
  <2> HIDE DEF T
  <2>1. QED BY <1>1, NatLessThanWellFounded, WFMin
<1>3. \A y \in T : x <= y
  <2>1. \A y \in T : ~(y < x)
    BY <1>1, <1>2 DEF OpToRel
  <2>2. QED BY <1>1, <2>1
<1>4. PICK v \in S : x = MaxVersion - v
  OBVIOUS
<1>5. \A w \in S : w <= v
  <2>1. ASSUME NEW w \in S PROVE w <= v
    <3>1. MaxVersion - w \in T OBVIOUS
    <3>2. x <= MaxVersion - w BY <1>3, <3>1
    <3>3. QED BY <1>4, <3>2
  <2>2. QED BY <2>1
<1>6. QED BY <1>5 DEF Newest

LEMMA NewestIs ==
  ASSUME NEW S \in SUBSET Numbers, NEW v \in S, \A w \in S : w <= v
  PROVE  Newest(S) = v
<1>1. Newest(S) \in S /\ \A w \in S : w <= Newest(S)
  BY NewestExists
<1>2. Newest(S) \in Int /\ v \in Int
  <2>1. Newest(S) \in Numbers /\ v \in Numbers BY <1>1
  <2>2. QED BY <2>1, BoundsAssumption DEF Numbers
<1>3. v <= Newest(S) /\ Newest(S) <= v BY <1>1
<1>4. QED BY <1>2, <1>3

LEMMA NewestType ==
  ASSUME NEW S \in SUBSET Numbers
  PROVE  Newest(S) \in 0..MaxVersion /\ (Newest(S) = 0 <=> S = {})
<1>1. CASE S = {} BY <1>1, BoundsAssumption DEF Newest
<1>2. CASE S # {}
  <2>1. Newest(S) \in Numbers BY <1>2, NewestExists
  <2>2. Newest(S) \in 1..MaxVersion BY <2>1 DEF Numbers
  <2>3. Newest(S) \in 0..MaxVersion /\ Newest(S) # 0 BY <2>2, BoundsAssumption
  <2>4. QED BY <1>2, <2>3
<1>3. QED BY <1>1, <1>2

-----------------------------------------------------------------------------
(* Type correctness: first what the shapes of steps keep.                  *)

LEMMA NoJobType == NoJob \in Jobs /\ Loaded("idle", NoJob) /\ NoJob.hdr = None
BY BoundsAssumption DEF Job, NoJob, Jobs, Loaded

LEMMA ReadsType ==
  ASSUME TypeOK, NEW q \in Requests, NEW from, NEW to \in PCs, NEW locals \in Jobs,
         Loaded(to, locals), locals.hdr # None => header # None,
         to = "archive.header" => header # None, Reads(q, from, to, locals)
  PROVE  TypeOK'
<1> USE DEF TypeOK, Reads, rows, world
<1>1. pc' \in [Requests -> PCs] /\ job' \in [Requests -> Jobs] OBVIOUS
<1>2. \A r \in Requests : Loaded(pc'[r], job'[r]) OBVIOUS
<1>3. header' = None =>
        Present' = {} /\ \A r \in Requests : job'[r].hdr = None /\ pc'[r] # "archive.header"
  BY DEF Present, L!Present
<1>4. QED BY <1>1, <1>2, <1>3

LEMMA EndsType ==
  ASSUME TypeOK, NEW q \in Requests, Ends(q)
  PROVE  /\ pc' \in [Requests -> PCs] /\ job' \in [Requests -> Jobs]
         /\ \A r \in Requests : Loaded(pc'[r], job'[r])
         /\ \A r \in Requests : job'[r].hdr # None => job[r].hdr # None
         /\ \A r \in Requests : pc'[r] = "archive.header" => pc[r] = "archive.header"
BY NoJobType DEF TypeOK, Ends, PCs

LEMMA RefusedType ==
  ASSUME TypeOK, NEW q \in Requests, NEW from, Refused(q, from)
  PROVE  TypeOK'
<1>1. /\ pc' \in [Requests -> PCs] /\ job' \in [Requests -> Jobs]
      /\ \A r \in Requests : Loaded(pc'[r], job'[r])
      /\ \A r \in Requests : job'[r].hdr # None => job[r].hdr # None
      /\ \A r \in Requests : pc'[r] = "archive.header" => pc[r] = "archive.header"
  BY EndsType DEF Refused
<1>2. header' = None =>
        Present' = {} /\ \A r \in Requests : job'[r].hdr = None /\ pc'[r] # "archive.header"
  BY <1>1 DEF TypeOK, Refused, rows, Present, L!Present
<1>3. QED BY <1>1, <1>2 DEF TypeOK, Refused, rows, world

LEMMA CommitsType ==
  ASSUME TypeOK, NEW q \in Requests, NEW from, NEW ops \in SUBSET Ops, Commits(q, from, ops),
         header' \in Headers, versions' \in [Numbers -> {None} \cup Rows]
  PROVE  TypeOK'
<1>1. /\ pc' \in [Requests -> PCs] /\ job' \in [Requests -> Jobs]
      /\ \A r \in Requests : Loaded(pc'[r], job'[r])
  BY EndsType DEF Commits
<1>2. header' # None BY RowsAssumption
<1>3. overtaken' \in [Requests -> BOOLEAN] /\ skewed' \subseteq Ops
  BY DEF TypeOK, Commits
<1>4. QED BY <1>1, <1>2, <1>3 DEF TypeOK, Commits, world

LEMMA RowType ==
  ASSUME TypeOK, NEW v \in Present
  PROVE  v \in Numbers /\ versions[v] \in Rows
BY DEF TypeOK, Present, L!Present

LEMMA PresentType == Present \subseteq Numbers /\ Drafts \subseteq Present /\ Published \subseteq Present
BY DEF Present, Drafts, Published, L!Present, L!Drafts, L!Published

LEMMA FlushType ==
  ASSUME header \in Headers, NEW loaded \in Headers, NEW new \in Headers
  PROVE  Flush(loaded, new) \in Headers
BY DEF Flush, Headers

LEMMA TypeCreate ==
  ASSUME TypeOK, NEW q \in Requests, CreateCheck(q) \/ CreateWrite(q)
  PROVE  TypeOK'
<1> USE BoundsAssumption
<1>1. ASSUME NEW d \in Definitions,
             Reads(q, "idle", "create.write", Job(0, d, None))
      PROVE  TypeOK'
  <2>1. Job(0, d, None) \in Jobs /\ Job(0, d, None).hdr = None
    BY <1>1 DEF Job, NoJob, Jobs
  <2>2. Loaded("create.write", Job(0, d, None)) BY <1>1 DEF Job, NoJob, Loaded
  <2>3. QED BY <1>1, <2>1, <2>2, ReadsType DEF PCs, Writing
<1>2. CASE Refused(q, "create.write") BY <1>2, RefusedType
<1>3. CASE CreateCommit(q)
  <2>1. job[q].def \in Definitions BY <1>3 DEF CreateCommit, Commits, TypeOK, Loaded
  <2>2. versions' \in [Numbers -> {None} \cup Rows]
    BY <1>3, <2>1 DEF CreateCommit, TypeOK, Draft, L!Draft, Rows
  <2>3. header' \in Headers BY <1>3 DEF CreateCommit, Headers, Statuses, Numbers
  <2>4. QED BY <1>3, <2>2, <2>3, CommitsType DEF CreateCommit
<1>4. QED BY <1>1, <1>2, <1>3 DEF CreateCheck, CreateWrite

LEMMA TypeDraft ==
  ASSUME TypeOK, NEW q \in Requests,
         DraftHeader(q) \/ DraftLatest(q) \/ DraftSource(q) \/ DraftWrite(q)
  PROVE  TypeOK'
<1> USE BoundsAssumption
<1>1. CASE DraftHeader(q)
  <2> DEFINE j == Job(0, {}, header)
  <2>1. header \in Headers /\ header # None /\ header.latest < MaxVersion
    BY <1>1 DEF DraftHeader, TypeOK
  <2>2. j \in Jobs /\ j.hdr = header BY <2>1 DEF Job, NoJob, Jobs
  <2>3. Loaded("draft.draft", j) BY <2>1, <2>2 DEF Loaded
  <2>4. Reads(q, "idle", "draft.draft", j) BY <1>1 DEF DraftHeader
  <2> HIDE DEF j
  <2>5. QED BY <2>1, <2>2, <2>3, <2>4, ReadsType DEF PCs, Writing
<1>2. CASE DraftLatest(q)
  <2>1. CASE Refused(q, "draft.draft") BY <2>1, RefusedType
  <2>2. CASE Reads(q, "draft.draft", "draft.source", job[q])
    <3>1. job[q] \in Jobs /\ Loaded("draft.source", job[q]) /\ (job[q].hdr # None => header # None)
      BY <2>2 DEF Reads, TypeOK, Loaded
    <3>2. QED BY <2>2, <3>1, ReadsType DEF PCs, Writing
  <2>3. QED BY <1>2, <2>1, <2>2 DEF DraftLatest
<1>3. CASE DraftSource(q)
  <2>1. CASE Refused(q, "draft.source") BY <2>1, RefusedType
  <2>2. ASSUME NEW s \in Present,
               Reads(q, "draft.source", "draft.write", [job[q] EXCEPT !.def = versions[s].def])
        PROVE  TypeOK'
    <3> DEFINE j == [job[q] EXCEPT !.def = versions[s].def]
    <3>1. versions[s].def \in Definitions BY RowType DEF Rows
    <3>2. job[q] \in Jobs /\ Loaded("draft.source", job[q]) /\ (job[q].hdr # None => header # None)
      BY <2>2 DEF Reads, TypeOK
    <3>3. j \in Jobs /\ j.hdr = job[q].hdr /\ j.def \in Definitions BY <3>1, <3>2 DEF Jobs
    <3>4. Loaded("draft.write", j) BY <3>2, <3>3 DEF Loaded
    <3>5. Reads(q, "draft.source", "draft.write", j) BY <2>2
    <3> HIDE DEF j
    <3>6. QED BY <3>2, <3>3, <3>4, <3>5, ReadsType DEF PCs, Writing
  <2>3. QED BY <1>3, <2>1, <2>2 DEF DraftSource
<1>4. CASE DraftWrite(q)
  <2>1. CASE Refused(q, "draft.write") BY <2>1, RefusedType
  <2>2. CASE DraftCommit(q)
    <3>1. /\ job[q].hdr \in Headers /\ job[q].hdr.latest < MaxVersion /\ header \in Headers
          /\ job[q].def \in Definitions
      BY <2>2 DEF DraftCommit, Commits, TypeOK, Loaded, Jobs
    <3>2. NextVersion(q) \in Numbers BY <2>2, <3>1 DEF NextVersion, Headers, Numbers
    <3>3. Advanced(q) \in Headers BY <3>1, <3>2 DEF Advanced, Headers, Statuses
    <3>4. header' \in Headers BY <2>2, <3>1, <3>3, FlushType DEF DraftCommit
    <3>5. versions' \in [Numbers -> {None} \cup Rows]
      BY <2>2, <3>1 DEF DraftCommit, TypeOK, Draft, L!Draft, Rows
    <3>6. QED BY <2>2, <3>4, <3>5, CommitsType DEF DraftCommit, Ops
  <2>3. QED BY <1>4, <2>1, <2>2 DEF DraftWrite
<1>5. QED BY <1>1, <1>2, <1>3, <1>4

LEMMA TypeReplace ==
  ASSUME TypeOK, NEW q \in Requests, ReplaceRead(q) \/ ReplaceWrite(q)
  PROVE  TypeOK'
<1>1. CASE ReplaceRead(q)
  <2>1. PICK v \in Drafts, d \in Definitions :
          Reads(q, "idle", "replace.write", Job(v, d, None))
    BY <1>1 DEF ReplaceRead, Replaceable
  <2> DEFINE j == Job(v, d, None)
  <2>2. v \in Numbers BY PresentType
  <2>3. j \in Jobs /\ j.hdr = None /\ j.v = v /\ j.def = d
    <3>1. v \in 0..MaxVersion BY <2>2, BoundsAssumption DEF Numbers
    <3>2. QED BY <2>1, <3>1 DEF Job, Jobs
  <2>4. Loaded("replace.write", j) BY <2>2, <2>3, BoundsAssumption DEF Loaded, Numbers
  <2> HIDE DEF j
  <2>5. QED BY <2>1, <2>3, <2>4, ReadsType DEF PCs, Writing, j
<1>2. CASE ReplaceWrite(q)
  <2>1. CASE Refused(q, "replace.write") BY <2>1, RefusedType
  <2>2. CASE ReplaceCommit(q)
    <3>1. job[q].def \in Definitions BY <2>2 DEF ReplaceCommit, Commits, TypeOK, Loaded
    <3>2. versions[job[q].v] \in Rows BY <2>2, RowType DEF ReplaceCommit
    <3>3. versions' \in [Numbers -> {None} \cup Rows]
      BY <2>2, <3>1, <3>2 DEF ReplaceCommit, TypeOK, Rows
    <3>4. header' \in Headers BY <2>2 DEF ReplaceCommit, TypeOK
    <3>5. QED BY <2>2, <3>3, <3>4, CommitsType DEF ReplaceCommit, Ops
  <2>3. QED BY <1>2, <2>1, <2>2 DEF ReplaceWrite
<1>3. QED BY <1>1, <1>2

LEMMA TypeDelete ==
  ASSUME TypeOK, NEW q \in Requests, DeleteHeader(q) \/ DeleteVersion(q) \/ DeleteWrite(q)
  PROVE  TypeOK'
<1>1. CASE DeleteHeader(q)
  <2>1. PICK v \in Drafts : Reads(q, "idle", "delete.version", Job(v, {}, header))
    BY <1>1 DEF DeleteHeader
  <2> DEFINE j == Job(v, {}, header)
  <2>2. v \in Numbers /\ header \in Headers /\ header # None
    BY <1>1, PresentType DEF DeleteHeader, TypeOK
  <2>3. j \in Jobs /\ j.hdr = header /\ j.v = v
    BY <2>2, BoundsAssumption DEF Job, Jobs, Numbers
  <2>4. Loaded("delete.version", j) BY <2>2, <2>3, BoundsAssumption DEF Loaded, Numbers
  <2> HIDE DEF j
  <2>5. QED BY <2>1, <2>2, <2>3, <2>4, ReadsType DEF PCs, Writing, j
<1>2. CASE DeleteVersion(q)
  <2>1. CASE Refused(q, "delete.version") BY <2>1, RefusedType
  <2>2. CASE Reads(q, "delete.version", "delete.write", job[q])
    <3>1. job[q] \in Jobs /\ Loaded("delete.write", job[q]) /\ (job[q].hdr # None => header # None)
      BY <2>2 DEF Reads, TypeOK, Loaded
    <3>2. QED BY <2>2, <3>1, ReadsType DEF PCs, Writing
  <2>3. QED BY <1>2, <2>1, <2>2 DEF DeleteVersion
<1>3. CASE DeleteWrite(q)
  <2>1. CASE Refused(q, "delete.write") BY <2>1, RefusedType
  <2>2. CASE DeleteCommit(q)
    <3>1. job[q].hdr \in Headers /\ header \in Headers
      BY <2>2 DEF DeleteCommit, Commits, TypeOK, Loaded, Jobs
    <3>2. Newest(Remaining(q)) \in Numbers
      BY <2>2, NewestExists, PresentType DEF DeleteCommit, Remaining
    <3>3. Newest(Published \ {job[q].v}) \in 0..MaxVersion BY NewestType, PresentType
    <3>4. Recomputed(q) \in Headers BY <3>1, <3>2, <3>3 DEF Recomputed, Headers, Statuses
    <3>5. header' \in Headers BY <2>2, <3>1, <3>4, FlushType DEF DeleteCommit
    <3>6. versions' \in [Numbers -> {None} \cup Rows] BY <2>2 DEF DeleteCommit, TypeOK
    <3>7. QED BY <2>2, <3>5, <3>6, CommitsType DEF DeleteCommit, Ops
  <2>3. QED BY <1>3, <2>1, <2>2 DEF DeleteWrite
<1>4. QED BY <1>1, <1>2, <1>3

LEMMA TypePublish ==
  ASSUME TypeOK, NEW q \in Requests,
         PublishVersion(q) \/ PublishPolicy(q) \/ PublishBases(q) \/ PublishWrite(q)
  PROVE  TypeOK'
<1>1. CASE PublishVersion(q)
  <2>1. PICK v \in Drafts : Reads(q, "idle", "publish.policy", Job(v, versions[v].def, None))
    BY <1>1 DEF PublishVersion
  <2> DEFINE j == Job(v, versions[v].def, None)
  <2>2. v \in Numbers /\ versions[v].def \in Definitions BY PresentType, RowType DEF Rows
  <2>3. j \in Jobs /\ j.hdr = None /\ j.v = v /\ j.def \in Definitions
    BY <2>2, BoundsAssumption DEF Job, Jobs, Numbers
  <2>4. Loaded("publish.policy", j) BY <2>2, <2>3, BoundsAssumption DEF Loaded, Numbers
  <2> HIDE DEF j
  <2>5. QED BY <2>1, <2>3, <2>4, ReadsType DEF PCs, Writing, j
<1>2. CASE PublishPolicy(q)
  <2>1. CASE Refused(q, "publish.policy") BY <2>1, RefusedType
  <2>2. CASE Reads(q, "publish.policy", "publish.bases", job[q])
    <3>1. job[q] \in Jobs /\ Loaded("publish.bases", job[q]) /\ (job[q].hdr # None => header # None)
      BY <2>2 DEF Reads, TypeOK, Loaded
    <3>2. QED BY <2>2, <3>1, ReadsType DEF PCs, Writing
  <2>3. QED BY <1>2, <2>1, <2>2 DEF PublishPolicy
<1>3. CASE PublishBases(q)
  <2>1. CASE Refused(q, "publish.bases") BY <2>1, RefusedType
  <2>2. CASE Reads(q, "publish.bases", "publish.write", [job[q] EXCEPT !.def = {}])
    <3> DEFINE j == [job[q] EXCEPT !.def = {}]
    <3>1. job[q] \in Jobs /\ job[q].v # 0 /\ (job[q].hdr # None => header # None)
      BY <2>2 DEF Reads, TypeOK, Loaded
    <3>2. j \in Jobs /\ j.hdr = job[q].hdr /\ j.v = job[q].v BY <3>1 DEF Jobs
    <3>3. Loaded("publish.write", j) BY <3>1, <3>2 DEF Loaded
    <3>4. Reads(q, "publish.bases", "publish.write", j) BY <2>2
    <3> HIDE DEF j
    <3>5. QED BY <3>1, <3>2, <3>3, <3>4, ReadsType DEF PCs, Writing
  <2>3. QED BY <1>3, <2>1, <2>2 DEF PublishBases
<1>4. CASE PublishWrite(q)
  <2>1. CASE Refused(q, "publish.write") BY <2>1, RefusedType
  <2>2. CASE PublishCommit(q)
    <3>1. job[q].v \in Numbers /\ versions[job[q].v] \in Rows BY <2>2, RowType DEF PublishCommit
    <3>2. header \in Headers BY <2>2 DEF PublishCommit, TypeOK
    <3>3. Pointer(job[q].v) \in 0..MaxVersion BY <3>1, NewestType, PresentType DEF Pointer
    <3>4. header' \in Headers
      BY <2>2, <3>2, <3>3 DEF PublishCommit, PublishedStatus, Headers, Statuses
    <3>5. versions' \in [Numbers -> {None} \cup Rows] BY <2>2, <3>1 DEF PublishCommit, TypeOK, Rows
    <3>6. QED BY <2>2, <3>4, <3>5, CommitsType DEF PublishCommit, Ops
  <2>3. QED BY <1>4, <2>1, <2>2 DEF PublishWrite
<1>5. QED BY <1>1, <1>2, <1>3, <1>4

LEMMA TypeArchive ==
  ASSUME TypeOK, NEW q \in Requests, ArchiveCheck(q) \/ ArchiveHeader(q) \/ ArchiveWrite(q)
  PROVE  TypeOK'
<1>1. CASE ArchiveCheck(q)
  <2>1. Loaded("archive.header", NoJob) BY DEF Loaded, NoJob, Job
  <2>2. QED BY <1>1, <2>1, NoJobType, ReadsType DEF ArchiveCheck, PCs, Writing
<1>2. CASE ArchiveHeader(q)
  <2>1. CASE Reads(q, "archive.header", "archive.write", [job[q] EXCEPT !.hdr = header])
    <3> DEFINE j == [job[q] EXCEPT !.hdr = header]
    <3>1. job[q] \in Jobs /\ header \in Headers /\ header # None
      BY <1>2 DEF ArchiveHeader, Reads, TypeOK
    <3>2. j \in Jobs /\ j.hdr = header BY <3>1 DEF Jobs
    <3>3. Loaded("archive.write", j) BY <3>1, <3>2 DEF Loaded
    <3> HIDE DEF j
    <3>4. QED BY <2>1, <3>1, <3>2, <3>3, ReadsType DEF PCs, Writing, j
  <2>2. QED BY <1>2, <2>1 DEF ArchiveHeader
<1>3. CASE ArchiveWrite(q)
  <2>1. job[q].hdr \in Headers /\ header \in Headers
    BY <1>3 DEF ArchiveWrite, Commits, TypeOK, Loaded, Jobs
  <2>2. [job[q].hdr EXCEPT !.status = "archived"] \in Headers BY <2>1 DEF Headers, Statuses
  <2>3. header' \in Headers BY <1>3, <2>1, <2>2, FlushType DEF ArchiveWrite
  <2>4. QED BY <1>3, <2>3, CommitsType DEF ArchiveWrite, TypeOK
<1>4. QED BY <1>1, <1>2, <1>3

LEMMA TypeLaunch ==
  ASSUME TypeOK, NEW q \in Requests,
         LaunchVersion(q) \/ LaunchPolicy(q) \/ LaunchBases(q) \/ LaunchLink(q)
  PROVE  TypeOK'
<1>1. CASE LaunchVersion(q)
  <2>1. PICK v \in Published : Reads(q, "idle", "launch.policy", Job(v, versions[v].def, None))
    BY <1>1 DEF LaunchVersion
  <2> DEFINE j == Job(v, versions[v].def, None)
  <2>2. v \in Numbers /\ versions[v].def \in Definitions BY PresentType, RowType DEF Rows
  <2>3. j \in Jobs /\ j.hdr = None /\ j.v = v /\ j.def \in Definitions
    BY <2>2, BoundsAssumption DEF Job, Jobs, Numbers
  <2>4. Loaded("launch.policy", j) BY <2>2, <2>3, BoundsAssumption DEF Loaded, Numbers
  <2>5. Reads(q, "idle", "launch.policy", j) BY <2>1
  <2> HIDE DEF j
  <2>6. QED BY <2>3, <2>4, <2>5, ReadsType DEF PCs
<1>2. CASE LaunchPolicy(q)
  <2> DEFINE j == [job[q] EXCEPT !.policy = policy]
  <2>1. /\ job[q] \in Jobs /\ Loaded("launch.policy", job[q]) /\ (job[q].hdr # None => header # None)
        /\ policy # None /\ policy \in SUBSET Tools
    BY <1>2 DEF LaunchPolicy, Reads, TypeOK
  <2>2. j \in Jobs /\ j.hdr = job[q].hdr /\ j.v = job[q].v /\ j.def = job[q].def /\ j.policy = policy
    BY <2>1 DEF Jobs
  <2>3. Loaded("launch.bases", j) BY <2>1, <2>2 DEF Loaded
  <2>4. Reads(q, "launch.policy", "launch.bases", j) BY <1>2 DEF LaunchPolicy
  <2> HIDE DEF j
  <2>5. QED BY <2>1, <2>2, <2>3, <2>4, ReadsType DEF PCs
<1>3. CASE LaunchBases(q)
  <2>1. CASE Refused(q, "launch.bases") BY <2>1, RefusedType
  <2>2. CASE Reads(q, "launch.bases", "launch.link", job[q])
    <3>1. job[q] \in Jobs /\ Loaded("launch.link", job[q]) /\ (job[q].hdr # None => header # None)
      BY <2>2 DEF Reads, TypeOK, Loaded
    <3>2. QED BY <2>2, <3>1, ReadsType DEF PCs
  <2>3. QED BY <1>3, <2>1, <2>2 DEF LaunchBases
<1>4. CASE LaunchLink(q)
  <2>1. /\ pc' \in [Requests -> PCs] /\ job' \in [Requests -> Jobs]
        /\ \A r \in Requests : Loaded(pc'[r], job'[r])
        /\ \A r \in Requests : job'[r].hdr # None => job[r].hdr # None
        /\ \A r \in Requests : pc'[r] = "archive.header" => pc[r] = "archive.header"
    BY <1>4, EndsType DEF LaunchLink
  <2>2. job[q].v \in Numbers /\ job[q].def \in Definitions
    <3>1. job[q].v \in 0..MaxVersion /\ job[q].v # 0 /\ job[q].def \in Definitions
      BY <1>4 DEF LaunchLink, TypeOK, Loaded, Jobs
    <3>2. QED BY <3>1, BoundsAssumption DEF Numbers
  <2>3. Effective(q) \in SUBSET Tools BY DEF Effective, ToolsOf
  <2>4. links' \subseteq [v : Numbers, def : Definitions, tools : SUBSET Tools]
    BY <1>4, <2>2, <2>3 DEF LaunchLink, TypeOK
  <2>5. header' = None =>
          Present' = {} /\ \A r \in Requests : job'[r].hdr = None /\ pc'[r] # "archive.header"
    BY <1>4, <2>1 DEF LaunchLink, TypeOK, rows, Present, L!Present
  <2>6. QED BY <1>4, <2>1, <2>4, <2>5 DEF LaunchLink, TypeOK, rows, world
<1>5. QED BY <1>1, <1>2, <1>3, <1>4

LEMMA TypeWorld == TypeOK /\ (PutPolicy \/ AddBase) => TypeOK'
BY DEF TypeOK, PutPolicy, AddBase, rows, Present, L!Present

LEMMA TypeStutters == TypeOK /\ UNCHANGED vars => TypeOK'
BY DEF TypeOK, vars, rows, world, Present, L!Present

LEMMA TypeInit == Init => TypeOK
BY NoJobType, BoundsAssumption DEF Init, TypeOK, PCs, Present, L!Present

LEMMA TypeNext == TypeOK /\ [Next]_vars => TypeOK'
<1> SUFFICES ASSUME TypeOK, [Next]_vars PROVE TypeOK' OBVIOUS
<1>1. ASSUME NEW q \in Requests, Request(q) PROVE TypeOK'
  <2>1. CASE Fails(q) BY <2>1, RefusedType DEF Fails
  <2>2. QED
    BY <1>1, <2>1, TypeCreate, TypeDraft, TypeReplace, TypeDelete, TypePublish, TypeArchive, TypeLaunch
    DEF Request
<1>2. CASE PutPolicy \/ AddBase BY <1>2, TypeWorld
<1>3. CASE UNCHANGED vars BY <1>3, TypeStutters
<1>4. QED BY <1>1, <1>2, <1>3 DEF Next

\* Every variable keeps its type, and no step of a request finds its locals
\* missing: no code path reads a row that its request has not loaded.
THEOREM TypeCorrect == Spec => []TypeOK
<1>1. QED BY TypeInit, TypeNext, PTL DEF Spec

-----------------------------------------------------------------------------
(* What the writes do to the sets of versions.                             *)

LEMMA SetsStay == UNCHANGED versions =>
  Present' = Present /\ Drafts' = Drafts /\ Published' = Published
BY DEF Present, Drafts, Published, L!Present, L!Drafts, L!Published

LEMMA RowIsNotNone == \A r \in Rows : r # None
BY RowsAssumption

LEMMA SetsDraft ==
  ASSUME TypeOK, NEW v \in Numbers, v \notin Present, NEW d \in Definitions,
         versions' = [versions EXCEPT ![v] = Draft(d)]
  PROVE  Present' = Present \cup {v} /\ Drafts' = Drafts \cup {v} /\ Published' = Published
<1>1. Draft(d) \in Rows /\ ~Draft(d).published BY DEF Draft, L!Draft, Rows
<1>2. versions'[v] = Draft(d) /\ Draft(d) # None BY <1>1, RowIsNotNone DEF TypeOK
<1>3. \A w \in Numbers \ {v} : versions'[w] = versions[w] BY DEF TypeOK
<1>4. versions[v] = None BY DEF Present, L!Present
<1>5. Present' = Present \cup {v} BY <1>2, <1>3 DEF Present, L!Present
<1>6. QED BY <1>1, <1>2, <1>3, <1>4, <1>5 DEF Present, Drafts, Published, L!Present, L!Drafts, L!Published

LEMMA SetsReplace ==
  ASSUME TypeOK, NEW v \in Present, NEW d \in Definitions,
         versions' = [versions EXCEPT ![v].def = d]
  PROVE  Present' = Present /\ Drafts' = Drafts /\ Published' = Published
<1>1. v \in Numbers /\ versions[v] \in Rows BY RowType
<1>2. versions'[v] = [versions[v] EXCEPT !.def = d] /\ \A w \in Numbers \ {v} : versions'[w] = versions[w]
  BY <1>1 DEF TypeOK
<1>3. versions'[v] \in Rows /\ versions'[v].published = versions[v].published
  BY <1>1, <1>2 DEF Rows
<1>4. versions'[v] # None BY <1>3, RowIsNotNone
<1>5. Present' = Present BY <1>2, <1>4 DEF Present, L!Present
<1>6. QED BY <1>2, <1>3, <1>5 DEF Present, Drafts, Published, L!Present, L!Drafts, L!Published

LEMMA SetsDelete ==
  ASSUME TypeOK, NEW v, versions' = [versions EXCEPT ![v] = None]
  PROVE  Present' = Present \ {v} /\ Drafts' = Drafts \ {v} /\ Published' = Published \ {v}
<1>1. Present' = Present \ {v} BY DEF TypeOK, Present, L!Present
<1>2. \A w \in Numbers \ {v} : versions'[w] = versions[w] BY DEF TypeOK
<1>3. QED BY <1>1, <1>2 DEF Present, Drafts, Published, L!Present, L!Drafts, L!Published

LEMMA SetsPublish ==
  ASSUME TypeOK, NEW v \in Present, versions' = [versions EXCEPT ![v].published = TRUE]
  PROVE  Present' = Present /\ Drafts' = Drafts \ {v} /\ Published' = Published \cup {v}
<1>1. v \in Numbers /\ versions[v] \in Rows BY RowType
<1>2. versions'[v] = [versions[v] EXCEPT !.published = TRUE] /\ \A w \in Numbers \ {v} : versions'[w] = versions[w]
  BY <1>1 DEF TypeOK
<1>3. versions'[v] \in Rows /\ versions'[v].published
  <2>1. versions'[v].published BY <1>1, <1>2 DEF Rows
  <2>2. [versions[v] EXCEPT !.published = TRUE] \in Rows BY <1>1 DEF Rows
  <2>3. QED BY <1>2, <2>1, <2>2
<1>4. versions'[v] # None BY <1>3, RowIsNotNone
<1>5. Present' = Present BY <1>2, <1>4 DEF Present, L!Present
<1>6. QED BY <1>2, <1>3, <1>5 DEF Present, Drafts, Published, L!Present, L!Drafts, L!Published

-----------------------------------------------------------------------------
(* The last version.                                                       *)

\* A step that leaves the rows alone.
Quiet(q) ==
  \/ CreateCheck(q) \/ Refused(q, pc[q])
  \/ DraftHeader(q) \/ DraftLatest(q) \/ DraftSource(q)
  \/ ReplaceRead(q) \/ DeleteHeader(q) \/ DeleteVersion(q)
  \/ PublishVersion(q) \/ PublishPolicy(q) \/ PublishBases(q)
  \/ ArchiveCheck(q) \/ ArchiveHeader(q)
  \/ LaunchVersion(q) \/ LaunchPolicy(q) \/ LaunchBases(q) \/ LaunchLink(q)

LEMMA QuietRows == ASSUME NEW q \in Requests, Quiet(q) PROVE UNCHANGED rows
BY DEF Quiet, CreateCheck, DraftHeader, DraftLatest, DraftSource, ReplaceRead, DeleteHeader,
   DeleteVersion, PublishVersion, PublishPolicy, PublishBases, ArchiveCheck, ArchiveHeader,
   LaunchVersion, LaunchPolicy, LaunchBases, LaunchLink, Reads, Refused

LEMMA NextCases ==
  ASSUME Next
  PROVE  \/ \E q \in Requests :
              \/ Quiet(q) \/ CreateCommit(q) \/ DraftCommit(q) \/ ReplaceCommit(q)
              \/ DeleteCommit(q) \/ PublishCommit(q) \/ ArchiveWrite(q)
         \/ PutPolicy \/ AddBase
<1>1. ASSUME NEW q \in Requests, Request(q)
      PROVE  \/ Quiet(q) \/ CreateCommit(q) \/ DraftCommit(q) \/ ReplaceCommit(q)
             \/ DeleteCommit(q) \/ PublishCommit(q) \/ ArchiveWrite(q)
             \/ \E from : Refused(q, from)
  BY <1>1 DEF Request, Quiet, CreateWrite, DraftWrite, ReplaceWrite, DeleteWrite, PublishWrite, Fails
<1>2. ASSUME NEW q \in Requests, NEW from, Refused(q, from) PROVE Quiet(q)
  BY <1>2 DEF Quiet, Refused
<1>3. QED BY <1>1, <1>2 DEF Next

\* The rows change only in these ways.
LEMMA CommitSets ==
  ASSUME TypeOK, NEW q \in Requests
  PROVE  /\ CreateCommit(q) =>
               Present = {} /\ Present' = {1} /\ Drafts' = {1} /\ Published' = {}
         /\ DraftCommit(q) =>
               /\ NextVersion(q) \in Numbers /\ Present' = Present \cup {NextVersion(q)}
               /\ Drafts' = Drafts \cup {NextVersion(q)} /\ Published' = Published
         /\ ReplaceCommit(q) => Present' = Present /\ Drafts' = Drafts /\ Published' = Published
         /\ DeleteCommit(q) =>
               /\ Present' = Present \ {job[q].v} /\ Drafts' = Drafts \ {job[q].v}
               /\ Published' = Published \ {job[q].v}
         /\ PublishCommit(q) =>
               /\ Present' = Present /\ Drafts' = Drafts \ {job[q].v}
               /\ Published' = Published \cup {job[q].v}
<1>1. ASSUME CreateCommit(q)
      PROVE  Present = {} /\ Present' = {1} /\ Drafts' = {1} /\ Published' = {}
  <2>1. Present = {} /\ Drafts = {} /\ Published = {}
    BY <1>1, PresentType DEF CreateCommit, TypeOK
  <2>2. 1 \in Numbers BY BoundsAssumption DEF Numbers
  <2>3. job[q].def \in Definitions BY <1>1 DEF CreateCommit, Commits, TypeOK, Loaded
  <2>4. QED BY <1>1, <2>1, <2>2, <2>3, SetsDraft DEF CreateCommit
<1>2. ASSUME DraftCommit(q)
      PROVE  /\ NextVersion(q) \in Numbers /\ Present' = Present \cup {NextVersion(q)}
             /\ Drafts' = Drafts \cup {NextVersion(q)} /\ Published' = Published
  <2>1. /\ job[q].hdr \in Headers /\ job[q].hdr.latest < MaxVersion
        /\ job[q].def \in Definitions
    BY <1>2 DEF DraftCommit, Commits, TypeOK, Loaded, Jobs
  <2>2. NextVersion(q) \in Numbers BY <2>1, BoundsAssumption DEF NextVersion, Headers, Numbers
  <2>3. QED BY <1>2, <2>1, <2>2, SetsDraft DEF DraftCommit
<1>3. ASSUME ReplaceCommit(q)
      PROVE  Present' = Present /\ Drafts' = Drafts /\ Published' = Published
  <2>1. job[q].def \in Definitions BY <1>3 DEF ReplaceCommit, Commits, TypeOK, Loaded
  <2>2. QED BY <1>3, <2>1, SetsReplace DEF ReplaceCommit
<1>4. DeleteCommit(q) =>
        /\ Present' = Present \ {job[q].v} /\ Drafts' = Drafts \ {job[q].v}
        /\ Published' = Published \ {job[q].v}
  BY SetsDelete DEF DeleteCommit
<1>5. PublishCommit(q) =>
        /\ Present' = Present /\ Drafts' = Drafts \ {job[q].v}
        /\ Published' = Published \cup {job[q].v}
  BY SetsPublish DEF PublishCommit
<1>6. QED BY <1>1, <1>2, <1>3, <1>4, <1>5

LEMMA OthersKeepRows ==
  ASSUME NEW q \in Requests,
         Quiet(q) \/ PutPolicy \/ AddBase \/ UNCHANGED vars
  PROVE  /\ UNCHANGED rows
         /\ Present' = Present /\ Drafts' = Drafts /\ Published' = Published
<1>1. UNCHANGED rows BY QuietRows DEF PutPolicy, AddBase, vars
<1>2. QED BY <1>1, SetsStay DEF rows

-----------------------------------------------------------------------------
(* The last version.                                                       *)

LEMMA NeverEmptyNext == TypeOK /\ NeverEmpty /\ [Next]_vars => NeverEmpty'
<1> SUFFICES ASSUME TypeOK, NeverEmpty, [Next]_vars PROVE NeverEmpty' OBVIOUS
<1>1. ASSUME UNCHANGED <<header, versions>> PROVE NeverEmpty'
  BY <1>1, SetsStay DEF NeverEmpty
<1>2. ASSUME NEW q \in Requests, Quiet(q) PROVE NeverEmpty'
  BY <1>1, <1>2, QuietRows DEF rows
<1>3. ASSUME NEW q \in Requests, CreateCommit(q) \/ DraftCommit(q)
      PROVE  NeverEmpty'
  BY <1>3, CommitSets DEF NeverEmpty
<1>4. ASSUME NEW q \in Requests, ReplaceCommit(q) PROVE NeverEmpty'
  BY <1>4, CommitSets DEF NeverEmpty, ReplaceCommit
<1>5. ASSUME NEW q \in Requests, DeleteCommit(q) PROVE NeverEmpty'
  BY <1>5, CommitSets DEF NeverEmpty, DeleteCommit, Remaining
<1>6. ASSUME NEW q \in Requests, PublishCommit(q) PROVE NeverEmpty'
  BY <1>6, CommitSets DEF NeverEmpty, PublishCommit
<1>7. ASSUME NEW q \in Requests, ArchiveWrite(q) PROVE NeverEmpty'
  <2>1. header # None
    BY <1>7 DEF ArchiveWrite, Commits, TypeOK, Loaded
  <2>2. QED BY <1>7, <2>1, SetsStay DEF NeverEmpty, ArchiveWrite
<1>8. CASE PutPolicy \/ AddBase BY <1>1, <1>8 DEF PutPolicy, AddBase, rows
<1>9. CASE UNCHANGED vars BY <1>1, <1>9 DEF vars, rows
<1>10. QED BY <1>2, <1>3, <1>4, <1>5, <1>6, <1>7, <1>8, <1>9, NextCases

\* However deletions, publications and failures interleave, a template that
\* exists has a version: the repository looks at what remains in the
\* transaction that deletes.
THEOREM LastVersionStays == Spec => []NeverEmpty
<1>1. Init => NeverEmpty BY DEF Init, NeverEmpty
<1>2. QED BY <1>1, TypeCorrect, NeverEmptyNext, PTL DEF Spec

-----------------------------------------------------------------------------
(* What a request has read is still so as long as nothing overtakes it.    *)

Fresh(q) == ~overtaken[q] =>
  /\ pc[q] \in {"draft.draft", "draft.source", "draft.write", "delete.version", "delete.write"} =>
       job[q].hdr = header
  /\ pc[q] \in {"draft.source", "draft.write"} => Drafts = {} \/ Initial(q)
  /\ pc[q] = "draft.write" =>
       job[q].hdr.latest \in Present /\ job[q].def = versions[job[q].hdr.latest].def
  /\ pc[q] \in {"replace.write", "delete.version", "delete.write", "publish.policy",
                "publish.bases", "publish.write"} => job[q].v \in Drafts
  /\ pc[q] = "delete.write" => Deletable(q)
  /\ pc[q] \in {"publish.policy", "publish.bases"} => versions[job[q].v].def = job[q].def
AllFresh == \A q \in Requests : Fresh(q)

\* A read leaves the rest alone, so only the request itself can lose it.
LEMMA FreshReads ==
  ASSUME TypeOK, AllFresh, NEW q \in Requests, NEW from, NEW to, NEW locals,
         Reads(q, from, to, locals), Fresh(q)'
  PROVE  AllFresh'
<1>1. ASSUME NEW r \in Requests, r # q PROVE Fresh(r)'
  <2>1. pc'[r] = pc[r] /\ job'[r] = job[r] BY <1>1 DEF Reads, TypeOK
  <2>2. /\ overtaken'[r] = overtaken[r] /\ header' = header /\ versions' = versions
        /\ Present' = Present /\ Drafts' = Drafts /\ Published' = Published
    BY SetsStay DEF Reads, rows
  <2>3. Fresh(r) BY DEF AllFresh
  <2>4. QED BY <2>1, <2>2, <2>3 DEF Fresh, Initial, Deletable
<1>2. QED BY <1>1 DEF AllFresh

\* A step that ends a request either changes no row or overtakes the others.
LEMMA FreshEnds ==
  ASSUME TypeOK, AllFresh, NEW q \in Requests, Ends(q),
         \/ UNCHANGED rows /\ \A r \in Requests \ {q} : overtaken'[r] = overtaken[r]
         \/ \A r \in Requests \ {q} : pc[r] \in Writing => overtaken'[r]
  PROVE  AllFresh'
<1>1. pc'[q] = "idle" BY DEF Ends, TypeOK
<1>2. Fresh(q)' BY <1>1 DEF Fresh
<1>3. ASSUME NEW r \in Requests, r # q PROVE Fresh(r)'
  <2>1. pc'[r] = pc[r] /\ job'[r] = job[r] BY <1>3 DEF Ends, TypeOK
  <2>2. Fresh(r) BY DEF AllFresh
  <2>3. CASE UNCHANGED rows /\ overtaken'[r] = overtaken[r]
    <3>1. /\ header' = header /\ versions' = versions
          /\ Present' = Present /\ Drafts' = Drafts /\ Published' = Published
      BY <2>3, SetsStay DEF rows
    <3>2. QED BY <2>1, <2>2, <2>3, <3>1 DEF Fresh, Initial, Deletable
  <2>4. CASE pc[r] \notin Writing BY <2>1, <2>4 DEF Fresh, Writing
  <2>5. CASE overtaken'[r] BY <2>5 DEF Fresh
  <2>6. QED BY <1>3, <2>3, <2>4, <2>5
<1>4. QED BY <1>2, <1>3 DEF AllFresh

LEMMA FreshRefused ==
  ASSUME TypeOK, AllFresh, NEW q \in Requests, NEW from, Refused(q, from) PROVE AllFresh'
<1>1. Ends(q) /\ UNCHANGED rows /\ \A r \in Requests \ {q} : overtaken'[r] = overtaken[r]
  BY DEF Refused, TypeOK
<1>2. QED BY <1>1, FreshEnds

LEMMA FreshCommits ==
  ASSUME TypeOK, AllFresh, NEW q \in Requests, NEW from, NEW ops, Commits(q, from, ops)
  PROVE  AllFresh'
<1>1. Ends(q) /\ \A r \in Requests \ {q} : pc[r] \in Writing => overtaken'[r]
  BY DEF Commits
<1>2. QED BY <1>1, FreshEnds

\* What a read shows its own request.
LEMMA ReadsOwn ==
  ASSUME TypeOK, NEW q \in Requests, NEW from, NEW to, NEW locals, Reads(q, from, to, locals)
  PROVE  /\ pc[q] = from /\ pc'[q] = to /\ job'[q] = locals /\ overtaken'[q] = overtaken[q]
         /\ header' = header /\ versions' = versions
         /\ Present' = Present /\ Drafts' = Drafts /\ Published' = Published
BY SetsStay DEF Reads, TypeOK, rows

LEMMA FreshDraft ==
  ASSUME TypeOK, AllFresh, NEW q \in Requests,
         DraftHeader(q) \/ DraftLatest(q) \/ DraftSource(q)
  PROVE  AllFresh'
<1>1. CASE DraftHeader(q)
  <2> DEFINE j == Job(0, {}, header)
  <2>1. j.hdr = header BY DEF Job
  <2>2. Reads(q, "idle", "draft.draft", j) BY <1>1 DEF DraftHeader
  <2> HIDE DEF j
  <2>3. Fresh(q)' BY <2>1, <2>2, ReadsOwn DEF Fresh
  <2>4. QED BY <2>2, <2>3, FreshReads
<1>2. CASE DraftLatest(q)
  <2>1. CASE Refused(q, "draft.draft") BY <2>1, FreshRefused
  <2>2. CASE Reads(q, "draft.draft", "draft.source", job[q]) /\ ~DraftExists(q)
    <3>1. Fresh(q)'
      BY <2>2, ReadsOwn DEF AllFresh, Fresh, DraftExists, Initial
    <3>2. QED BY <2>2, <3>1, FreshReads
  <2>3. QED BY <1>2, <2>1, <2>2 DEF DraftLatest
<1>3. CASE DraftSource(q)
  <2> DEFINE j == [job[q] EXCEPT !.def = versions[job[q].hdr.latest].def]
  <2>1. CASE Refused(q, "draft.source") BY <2>1, FreshRefused
  <2>2. CASE job[q].hdr.latest \in Present /\ Reads(q, "draft.source", "draft.write", j)
    <3>1. j.hdr = job[q].hdr /\ j.def = versions[j.hdr.latest].def BY DEF TypeOK, Jobs
    <3> HIDE DEF j
    <3>2. Fresh(q)'
      BY <2>2, <3>1, ReadsOwn DEF AllFresh, Fresh, Initial
    <3>3. QED BY <2>2, <3>2, FreshReads
  <2>3. QED BY <1>3, <2>1, <2>2 DEF DraftSource
<1>4. QED BY <1>1, <1>2, <1>3

LEMMA FreshReplace ==
  ASSUME TypeOK, AllFresh, NEW q \in Requests, ReplaceRead(q) PROVE AllFresh'
<1>1. PICK v \in Drafts, d \in Definitions : Reads(q, "idle", "replace.write", Job(v, d, None))
  BY DEF ReplaceRead, Replaceable
<1>2. Job(v, d, None).v = v BY DEF Job
<1>3. Fresh(q)' BY <1>1, <1>2, ReadsOwn DEF Fresh
<1>4. QED BY <1>1, <1>3, FreshReads

LEMMA FreshDelete ==
  ASSUME TypeOK, AllFresh, NEW q \in Requests, DeleteHeader(q) \/ DeleteVersion(q)
  PROVE  AllFresh'
<1>1. CASE DeleteHeader(q)
  <2>1. PICK v \in Drafts : Reads(q, "idle", "delete.version", Job(v, {}, header))
    BY <1>1 DEF DeleteHeader
  <2>2. Job(v, {}, header).v = v /\ Job(v, {}, header).hdr = header BY DEF Job
  <2>3. Fresh(q)' BY <2>1, <2>2, ReadsOwn DEF Fresh
  <2>4. QED BY <2>1, <2>3, FreshReads
<1>2. CASE DeleteVersion(q)
  <2>1. CASE Refused(q, "delete.version") BY <2>1, FreshRefused
  <2>2. CASE Reads(q, "delete.version", "delete.write", job[q]) /\ Deletable(q)
    <3>1. Fresh(q)' BY <2>2, ReadsOwn DEF AllFresh, Fresh, Deletable
    <3>2. QED BY <2>2, <3>1, FreshReads
  <2>3. QED BY <1>2, <2>1, <2>2 DEF DeleteVersion
<1>3. QED BY <1>1, <1>2

LEMMA FreshPublish ==
  ASSUME TypeOK, AllFresh, NEW q \in Requests,
         PublishVersion(q) \/ PublishPolicy(q) \/ PublishBases(q)
  PROVE  AllFresh'
<1>1. CASE PublishVersion(q)
  <2>1. PICK v \in Drafts : Reads(q, "idle", "publish.policy", Job(v, versions[v].def, None))
    BY <1>1 DEF PublishVersion
  <2>2. Job(v, versions[v].def, None).v = v /\ Job(v, versions[v].def, None).def = versions[v].def
    BY DEF Job
  <2>3. Fresh(q)' BY <2>1, <2>2, ReadsOwn DEF Fresh
  <2>4. QED BY <2>1, <2>3, FreshReads
<1>2. CASE PublishPolicy(q)
  <2>1. CASE Refused(q, "publish.policy") BY <2>1, FreshRefused
  <2>2. CASE Reads(q, "publish.policy", "publish.bases", job[q])
    <3>1. Fresh(q)' BY <2>2, ReadsOwn DEF AllFresh, Fresh
    <3>2. QED BY <2>2, <3>1, FreshReads
  <2>3. QED BY <1>2, <2>1, <2>2 DEF PublishPolicy
<1>3. CASE PublishBases(q)
  <2>1. CASE Refused(q, "publish.bases") BY <2>1, FreshRefused
  <2> DEFINE j == [job[q] EXCEPT !.def = {}]
  <2>2. CASE Reads(q, "publish.bases", "publish.write", j)
    <3>1. j.v = job[q].v BY DEF TypeOK, Jobs
    <3> HIDE DEF j
    <3>2. Fresh(q)' BY <2>2, <3>1, ReadsOwn DEF AllFresh, Fresh
    <3>3. QED BY <2>2, <3>2, FreshReads
  <2>3. QED BY <1>3, <2>1, <2>2 DEF PublishBases
<1>4. QED BY <1>1, <1>2, <1>3

\* Archiving and launching rest on nothing of this.
LEMMA FreshOthers ==
  ASSUME TypeOK, AllFresh, NEW q \in Requests, NEW from, NEW locals,
         NEW to \in {"create.write", "archive.header", "archive.write", "launch.policy",
                     "launch.bases", "launch.link"},
         Reads(q, from, to, locals)
  PROVE  AllFresh'
<1>1. Fresh(q)' BY ReadsOwn DEF Fresh
<1>2. QED BY <1>1, FreshReads

LEMMA FreshNext == TypeOK /\ AllFresh /\ [Next]_vars => AllFresh'
<1> SUFFICES ASSUME TypeOK, AllFresh, [Next]_vars PROVE AllFresh' OBVIOUS
<1>1. ASSUME NEW q \in Requests, Quiet(q) PROVE AllFresh'
  <2>1. CASE Refused(q, pc[q]) BY <2>1, FreshRefused
  <2>2. CASE CreateCheck(q) \/ ArchiveCheck(q) \/ ArchiveHeader(q)
    BY <2>2, FreshOthers DEF CreateCheck, ArchiveCheck, ArchiveHeader
  <2>3. CASE LaunchVersion(q) \/ LaunchPolicy(q) \/ LaunchBases(q)
    BY <2>3, FreshOthers, FreshRefused DEF LaunchVersion, LaunchPolicy, LaunchBases
  <2>4. CASE LaunchLink(q)
    <3>1. Ends(q) /\ UNCHANGED rows /\ \A r \in Requests \ {q} : overtaken'[r] = overtaken[r]
      BY <2>4 DEF LaunchLink, TypeOK
    <3>2. QED BY <3>1, FreshEnds
  <2>5. QED BY <1>1, <2>1, <2>2, <2>3, <2>4, FreshDraft, FreshReplace, FreshDelete, FreshPublish DEF Quiet
<1>2. ASSUME NEW q \in Requests,
             \/ CreateCommit(q) \/ DraftCommit(q) \/ ReplaceCommit(q)
             \/ DeleteCommit(q) \/ PublishCommit(q) \/ ArchiveWrite(q)
      PROVE  AllFresh'
  BY <1>2, FreshCommits
  DEF CreateCommit, DraftCommit, ReplaceCommit, DeleteCommit, PublishCommit, ArchiveWrite
<1>3. CASE PutPolicy \/ AddBase \/ UNCHANGED vars
  <2>1. /\ UNCHANGED <<pc, job, overtaken>> /\ header' = header /\ versions' = versions
        /\ Present' = Present /\ Drafts' = Drafts /\ Published' = Published
    BY <1>3, SetsStay DEF PutPolicy, AddBase, vars, rows
  <2>2. QED BY <2>1 DEF AllFresh, Fresh, Initial, Deletable
<1>4. QED BY <1>1, <1>2, <1>3, NextCases

LEMMA FreshInvariant == Spec => []AllFresh
<1>1. Init => AllFresh BY DEF Init, AllFresh, Fresh
<1>2. QED BY <1>1, TypeCorrect, FreshNext, PTL DEF Spec

-----------------------------------------------------------------------------
(* The links.                                                              *)

Row(d) == [def |-> d, published |-> TRUE]
Launching == {"launch.policy", "launch.bases", "launch.link"}

\* A link, and a launch before it has one, names a version that is published
\* and says what was read.
Linked == skewed \cap {"replace", "delete"} = {} =>
  /\ \A l \in links : versions[l.v] = Row(l.def)
  /\ \A q \in Requests : pc[q] \in Launching => versions[job[q].v] = Row(job[q].def)

LEMMA RowOf ==
  ASSUME NEW r \in Rows, r.published
  PROVE  r = Row(r.def)
BY DEF Row, Rows

LEMMA DraftOf ==
  ASSUME NEW r \in Rows, ~r.published
  PROVE  r = Draft(r.def)
BY DEF Draft, L!Draft, Rows

\* A published version that a launch reads.
LEMMA PublishedRow ==
  ASSUME TypeOK, NEW v \in Published
  PROVE  v \in Numbers /\ versions[v] = Row(versions[v].def)
<1>1. v \in Numbers /\ versions[v] \in Rows BY RowType, PresentType
<1>2. versions[v].published BY DEF Published, L!Published
<1>3. QED BY <1>1, <1>2, RowOf

\* No commit on what was read in time touches a published version.
LEMMA PublishedStays ==
  ASSUME TypeOK, AllFresh, NEW q \in Requests, NEW v \in Numbers, NEW d \in Definitions,
         versions[v] = Row(d), skewed' \cap {"replace", "delete"} = {},
         \/ CreateCommit(q) \/ DraftCommit(q) \/ ReplaceCommit(q)
         \/ DeleteCommit(q) \/ PublishCommit(q) \/ ArchiveWrite(q)
  PROVE  versions'[v] = Row(d)
<1>1. v \in Present /\ v \notin Drafts
  <2>1. Row(d) \in Rows /\ Row(d).published BY DEF Row, Rows
  <2>2. QED BY <2>1, RowIsNotNone DEF Present, Drafts, L!Present, L!Drafts
<1>2. CASE CreateCommit(q)
  BY <1>1, <1>2, CommitSets
<1>3. CASE DraftCommit(q)
  <2>1. v # NextVersion(q) BY <1>1, <1>3 DEF DraftCommit
  <2>2. QED BY <1>3, <2>1 DEF DraftCommit, TypeOK
<1>4. CASE ReplaceCommit(q)
  <2>1. ~overtaken[q] BY <1>4 DEF ReplaceCommit, Commits
  <2>2. job[q].v \in Drafts BY <1>4, <2>1 DEF ReplaceCommit, Commits, AllFresh, Fresh
  <2>3. QED BY <1>1, <1>4, <2>2 DEF ReplaceCommit, TypeOK
<1>5. CASE DeleteCommit(q)
  <2>1. ~overtaken[q] BY <1>5 DEF DeleteCommit, Commits
  <2>2. job[q].v \in Drafts BY <1>5, <2>1 DEF DeleteCommit, Commits, AllFresh, Fresh
  <2>3. QED BY <1>1, <1>5, <2>2 DEF DeleteCommit, TypeOK
<1>6. CASE PublishCommit(q)
  <2>1. CASE job[q].v = v
    <3>1. versions'[v] = [versions[v] EXCEPT !.published = TRUE] BY <1>6, <2>1 DEF PublishCommit, TypeOK
    <3>2. versions[v] \in Rows /\ versions[v].def = d BY <1>1, RowType DEF Row
    <3>3. versions'[v] \in Rows /\ versions'[v].published /\ versions'[v].def = d
      BY <3>1, <3>2 DEF Rows
    <3>4. QED BY <3>3, RowOf
  <2>2. CASE job[q].v # v BY <1>6, <2>2 DEF PublishCommit, TypeOK
  <2>3. QED BY <2>1, <2>2
<1>7. CASE ArchiveWrite(q) BY <1>7 DEF ArchiveWrite
<1>8. QED BY <1>2, <1>3, <1>4, <1>5, <1>6, <1>7

LEMMA LinkedNext == TypeOK /\ AllFresh /\ Linked /\ [Next]_vars => Linked'
<1> SUFFICES ASSUME TypeOK, AllFresh, Linked, [Next]_vars,
                    skewed' \cap {"replace", "delete"} = {}
             PROVE  /\ \A l \in links' : versions'[l.v] = Row(l.def)
                    /\ \A q \in Requests : pc'[q] \in Launching => versions'[job'[q].v] = Row(job'[q].def)
  BY DEF Linked
<1>1. ASSUME NEW q \in Requests,
             \/ CreateCommit(q) \/ DraftCommit(q) \/ ReplaceCommit(q)
             \/ DeleteCommit(q) \/ PublishCommit(q) \/ ArchiveWrite(q)
      PROVE  /\ \A l \in links' : versions'[l.v] = Row(l.def)
             /\ \A r \in Requests : pc'[r] \in Launching => versions'[job'[r].v] = Row(job'[r].def)
  <2>1. links' = links /\ skewed \subseteq skewed' /\ Ends(q)
    BY <1>1 DEF CreateCommit, DraftCommit, ReplaceCommit, DeleteCommit, PublishCommit, ArchiveWrite, Commits
  <2>2. skewed \cap {"replace", "delete"} = {} BY <2>1
  <2>3. ASSUME NEW l \in links' PROVE versions'[l.v] = Row(l.def)
    <3>1. l.v \in Numbers /\ l.def \in Definitions /\ versions[l.v] = Row(l.def)
      BY <2>1, <2>2, <2>3 DEF TypeOK, Linked
    <3>2. QED BY <1>1, <3>1, PublishedStays
  <2>4. ASSUME NEW r \in Requests, pc'[r] \in Launching
        PROVE  versions'[job'[r].v] = Row(job'[r].def)
    <3>1. r # q /\ pc[r] = pc'[r] /\ job'[r] = job[r] BY <2>1, <2>4 DEF Ends, TypeOK, Launching
    <3>2. versions[job[r].v] = Row(job[r].def) BY <2>2, <2>4, <3>1 DEF Linked
    <3>3. job[r].v \in Numbers /\ job[r].def \in Definitions
      <4>1. job[r].v \in 0..MaxVersion /\ job[r].v # 0 /\ job[r].def \in Definitions
        BY <2>4, <3>1 DEF TypeOK, Jobs, Loaded, Launching
      <4>2. QED BY <4>1, BoundsAssumption DEF Numbers
    <3>4. QED BY <1>1, <3>1, <3>2, <3>3, PublishedStays
  <2>5. QED BY <2>3, <2>4
<1>2. ASSUME UNCHANGED <<header, versions, skewed>>,
             NEW q \in Requests,
             \A r \in Requests \ {q} : pc'[r] = pc[r] /\ job'[r] = job[r],
             pc'[q] \in Launching => versions[job'[q].v] = Row(job'[q].def),
             \A l \in links' \ links : versions[l.v] = Row(l.def)
      PROVE  /\ \A l \in links' : versions'[l.v] = Row(l.def)
             /\ \A r \in Requests : pc'[r] \in Launching => versions'[job'[r].v] = Row(job'[r].def)
  BY <1>2 DEF Linked
<1>3. ASSUME NEW q \in Requests, Quiet(q)
      PROVE  /\ \A l \in links' : versions'[l.v] = Row(l.def)
             /\ \A r \in Requests : pc'[r] \in Launching => versions'[job'[r].v] = Row(job'[r].def)
  <2>1. ASSUME NEW from, Refused(q, from)
        PROVE  /\ UNCHANGED <<header, versions, skewed, links>> /\ pc'[q] = "idle"
               /\ \A r \in Requests \ {q} : pc'[r] = pc[r] /\ job'[r] = job[r]
    BY <2>1 DEF Refused, Ends, TypeOK, rows
  <2>2. ASSUME NEW from, NEW to, NEW locals, Reads(q, from, to, locals)
        PROVE  /\ UNCHANGED <<header, versions, skewed, links>>
               /\ pc[q] = from /\ pc'[q] = to /\ job'[q] = locals
               /\ \A r \in Requests \ {q} : pc'[r] = pc[r] /\ job'[r] = job[r]
    BY <2>2 DEF Reads, TypeOK, rows
  <2>3. CASE \E from : Refused(q, from) BY <1>2, <2>1, <2>3 DEF Launching
  <2>4. CASE \E from, to, locals : Reads(q, from, to, locals) /\ to \notin Launching
    BY <1>2, <2>2, <2>4
  <2>5. CASE LaunchVersion(q)
    <3>1. PICK v \in Published : Reads(q, "idle", "launch.policy", Job(v, versions[v].def, None))
      BY <2>5 DEF LaunchVersion
    <3>2. Job(v, versions[v].def, None).v = v /\ Job(v, versions[v].def, None).def = versions[v].def
      BY DEF Job
    <3>3. versions[v] = Row(versions[v].def) BY PublishedRow
    <3>4. QED BY <1>2, <2>2, <3>1, <3>2, <3>3
  <2>6. CASE LaunchPolicy(q)
    <3> DEFINE j == [job[q] EXCEPT !.policy = policy]
    <3>1. Reads(q, "launch.policy", "launch.bases", j) BY <2>6 DEF LaunchPolicy
    <3>2. j.v = job[q].v /\ j.def = job[q].def BY DEF TypeOK, Jobs
    <3> HIDE DEF j
    <3>3. UNCHANGED <<header, versions, skewed, links>> /\ pc[q] \in Launching /\ job'[q] = j
      BY <2>2, <3>1 DEF Launching
    <3>4. versions[j.v] = Row(j.def) BY <3>2, <3>3 DEF Linked
    <3>5. QED BY <1>2, <2>2, <3>1, <3>3, <3>4
  <2>7. CASE Reads(q, "launch.bases", "launch.link", job[q])
    <3>1. UNCHANGED <<header, versions, skewed, links>> /\ pc[q] \in Launching /\ job'[q] = job[q]
      BY <2>2, <2>7 DEF Launching
    <3>2. versions[job[q].v] = Row(job[q].def) BY <3>1 DEF Linked
    <3>3. QED BY <1>2, <2>2, <2>7, <3>1, <3>2
  <2>8. CASE LaunchLink(q)
    <3>1. /\ UNCHANGED <<header, versions, skewed>> /\ pc[q] \in Launching /\ pc'[q] = "idle"
          /\ \A r \in Requests \ {q} : pc'[r] = pc[r] /\ job'[r] = job[r]
          /\ \A l \in links' \ links : l.v = job[q].v /\ l.def = job[q].def
      BY <2>8 DEF LaunchLink, Ends, TypeOK, rows, Launching
    <3>2. versions[job[q].v] = Row(job[q].def) BY <3>1 DEF Linked
    <3>3. QED BY <1>2, <3>1, <3>2 DEF Launching
  <2>9. QED
    <3>1. ASSUME CreateCheck(q) \/ DraftHeader(q) \/ ReplaceRead(q) \/ DeleteHeader(q)
                 \/ PublishVersion(q) \/ ArchiveCheck(q) \/ ArchiveHeader(q)
          PROVE  \E from, to, locals : Reads(q, from, to, locals) /\ to \notin Launching
      BY <3>1 DEF CreateCheck, DraftHeader, ReplaceRead, DeleteHeader, PublishVersion,
                  ArchiveCheck, ArchiveHeader, Launching
    <3>2. ASSUME DraftLatest(q) \/ DraftSource(q) \/ DeleteVersion(q) \/ PublishPolicy(q)
                 \/ PublishBases(q)
          PROVE  \/ \E from, to, locals : Reads(q, from, to, locals) /\ to \notin Launching
                 \/ \E from : Refused(q, from)
      BY <3>2 DEF DraftLatest, DraftSource, DeleteVersion, PublishPolicy, PublishBases, Launching
    <3>3. LaunchBases(q) => Reads(q, "launch.bases", "launch.link", job[q]) \/ \E from : Refused(q, from)
      BY DEF LaunchBases
    <3>4. QED BY <1>3, <2>3, <2>4, <2>5, <2>6, <2>7, <2>8, <3>1, <3>2, <3>3 DEF Quiet
<1>4. CASE PutPolicy \/ AddBase \/ UNCHANGED vars
  <2>1. UNCHANGED <<header, versions, skewed, pc, job, links>>
    BY <1>4 DEF PutPolicy, AddBase, vars, rows
  <2>2. QED BY <2>1 DEF Linked
<1>5. QED BY <1>1, <1>3, <1>4, NextCases

\* The run of a launch always leads back to the version it was launched from,
\* published and saying what the run was given, whatever else happens to the
\* template: unless a replacement or a deletion commits after somebody else
\* wrote the template it had read.
THEOREM LinksLead == Spec => []LinksResolve
<1>1. Init => Linked BY DEF Init, Linked, Launching
<1>2. Linked => LinksResolve BY DEF Linked, LinksResolve, Row
<1>3. QED BY <1>1, <1>2, TypeCorrect, FreshInvariant, LinkedNext, PTL DEF Spec

-----------------------------------------------------------------------------
(* The header.                                                             *)

\* The header says what the versions are; there are two drafts only when the
\* template has nothing else.
Matches ==
  /\ header.latest = Newest(Present) /\ header.published = Newest(Published)
  /\ header.status = "archived" => header.published # 0
  /\ header.status # "archived" => (header.status = "draft" <=> header.latest > header.published)
TwoDrafts == \A v, w \in Drafts : v # w => Present = {1, 2}
Archiving == {"archive.header", "archive.write"}
ArchivesPublished ==
  \A q \in Requests : pc[q] \in Archiving => header.published # 0

Pointers == header # None /\ skewed \cap {"draft", "delete"} = {} =>
  Matches /\ TwoDrafts /\ ArchivesPublished

LEMMA NewestMonotone ==
  ASSUME NEW T \in SUBSET Numbers, NEW S \in SUBSET T
  PROVE  Newest(S) <= Newest(T)
<1>1. Newest(T) \in 0..MaxVersion BY NewestType
<1>2. CASE S = {} BY <1>1, <1>2, BoundsAssumption DEF Newest
<1>3. CASE S # {} BY <1>3, NewestExists
<1>4. QED BY <1>2, <1>3

LEMMA FlushFresh ==
  ASSUME header \in Headers, NEW new \in Headers
  PROVE  Flush(header, new) = new
BY DEF Flush, Headers

\* A commit neither takes a request to the archiving nor lets one leave it.
LEMMA CommitsArchiving ==
  ASSUME TypeOK, NEW q \in Requests, NEW from, NEW ops, Commits(q, from, ops), NEW r \in Requests,
         pc'[r] \in Archiving
  PROVE  pc[r] \in Archiving /\ pc[r] = pc'[r]
BY DEF Commits, Ends, TypeOK, Archiving

LEMMA PointersCreate ==
  ASSUME TypeOK, NEW q \in Requests, CreateCommit(q)
  PROVE  (Matches /\ TwoDrafts /\ ArchivesPublished)'
<1>1. Present' = {1} /\ Drafts' = {1} /\ Published' = {} BY CommitSets
<1>2. header' = [status |-> "draft", latest |-> 1, published |-> 0] BY DEF CreateCommit
<1>3. Newest({1}) = 1 /\ Newest({}) = 0
  <2>1. {1} \in SUBSET Numbers BY BoundsAssumption DEF Numbers
  <2>2. QED BY <2>1, NewestIs DEF Newest
<1>4. Matches' BY <1>1, <1>2, <1>3 DEF Matches
<1>5. TwoDrafts' BY <1>1 DEF TwoDrafts
<1>6. ASSUME NEW r \in Requests, pc'[r] \in Archiving PROVE FALSE
  <2>1. pc[r] \in Archiving BY <1>6, CommitsArchiving DEF CreateCommit
  <2>2. QED BY <2>1 DEF CreateCommit, TypeOK, Loaded, Archiving
<1>7. ArchivesPublished' BY <1>6 DEF ArchivesPublished
<1>8. QED BY <1>4, <1>5, <1>7

LEMMA PointersDraft ==
  ASSUME TypeOK, AllFresh, Matches, TwoDrafts, ArchivesPublished, NEW q \in Requests,
         DraftCommit(q), ~overtaken[q]
  PROVE  (Matches /\ TwoDrafts /\ ArchivesPublished)'
<1> DEFINE n == NextVersion(q)
<1>1. job[q].hdr = header /\ (Drafts = {} \/ Initial(q))
  BY DEF DraftCommit, Commits, AllFresh, Fresh
<1>2. header \in Headers /\ header.latest < MaxVersion
  BY <1>1 DEF DraftCommit, Commits, TypeOK, Loaded, Jobs
<1>3. n = header.latest + 1 /\ n \in Numbers /\ header.latest \in Numbers
  BY <1>1, <1>2, BoundsAssumption DEF NextVersion, Headers, Numbers
<1>4. header' = Advanced(q) /\ Advanced(q) = [header EXCEPT !.latest = n, !.status = "draft"]
  <2>1. Advanced(q) = [header EXCEPT !.latest = n, !.status = "draft"] BY <1>1 DEF Advanced
  <2>2. Advanced(q) \in Headers BY <1>2, <1>3, <2>1 DEF Headers, Statuses
  <2>3. QED BY <1>1, <1>2, <2>1, <2>2, FlushFresh DEF DraftCommit
<1>5. header'.latest = n /\ header'.status = "draft" /\ header'.published = header.published
  BY <1>2, <1>4 DEF Headers
<1>6. Present' = Present \cup {n} /\ Drafts' = Drafts \cup {n} /\ Published' = Published
  BY CommitSets
<1> HIDE DEF n
<1>7. Present \subseteq Numbers /\ \A w \in Present : w <= header.latest
  BY PresentType, NewestExists DEF Matches
<1>8. Newest(Present') = n
  <2>1. \A w \in Present \cup {n} : w <= n BY <1>3, <1>7 DEF Numbers
  <2>2. QED BY <1>3, <1>6, <1>7, <2>1, NewestIs
<1>9. n > header.published
  <2>1. header.published <= header.latest BY PresentType, NewestMonotone DEF Matches
  <2>2. header.published \in Int BY <1>2, BoundsAssumption DEF Headers
  <2>3. QED BY <1>3, <2>1, <2>2, BoundsAssumption DEF Numbers
<1>10. Matches' BY <1>5, <1>6, <1>8, <1>9 DEF Matches
<1>11. TwoDrafts'
  <2>1. CASE Drafts = {} BY <1>6, <2>1 DEF TwoDrafts
  <2>2. CASE Initial(q)
    <3>1. header.latest = 1 /\ n = 2 BY <1>1, <1>3, <2>2 DEF Initial
    <3>2. Present = {1}
      <4>1. Present # {}
        <5>1. Newest(Present) = 1 BY <3>1 DEF Matches
        <5>2. Newest({}) = 0 BY DEF Newest
        <5>3. QED BY <5>1, <5>2
      <4>2. \A w \in Present : w = 1 BY <1>7, <3>1 DEF Numbers
      <4>3. QED BY <4>1, <4>2
    <3>3. QED BY <1>6, <3>1, <3>2 DEF TwoDrafts
  <2>3. QED BY <1>1, <2>1, <2>2
<1>12. ArchivesPublished'
  BY <1>5, CommitsArchiving DEF ArchivesPublished, DraftCommit
<1>13. QED BY <1>10, <1>11, <1>12

LEMMA PointersReplace ==
  ASSUME TypeOK, Matches, TwoDrafts, ArchivesPublished, NEW q \in Requests, ReplaceCommit(q)
  PROVE  (Matches /\ TwoDrafts /\ ArchivesPublished)'
<1>1. header' = header /\ Present' = Present /\ Drafts' = Drafts /\ Published' = Published
  BY CommitSets DEF ReplaceCommit
<1>2. ArchivesPublished'
  BY <1>1, CommitsArchiving DEF ArchivesPublished, ReplaceCommit
<1>3. QED BY <1>1, <1>2 DEF Matches, TwoDrafts

LEMMA PointersDelete ==
  ASSUME TypeOK, AllFresh, Matches, TwoDrafts, ArchivesPublished, NEW q \in Requests,
         DeleteCommit(q), ~overtaken[q]
  PROVE  (Matches /\ TwoDrafts /\ ArchivesPublished)'
<1> DEFINE v == job[q].v
<1>1. job[q].hdr = header /\ v \in Drafts
  BY DEF DeleteCommit, Commits, AllFresh, Fresh
<1>2. header \in Headers BY <1>1 DEF DeleteCommit, Commits, TypeOK, Loaded, Jobs
<1>3. Published \ {v} = Published
  BY <1>1 DEF Drafts, Published, L!Drafts, L!Published
<1>4. Present' = Present \ {v} /\ Drafts' = Drafts \ {v} /\ Published' = Published
  BY <1>3, CommitSets
<1>5. Present' \in SUBSET Numbers /\ Present' # {}
  BY <1>4, PresentType DEF DeleteCommit, Remaining
<1>6. Newest(Present') \in Numbers /\ Newest(Published) \in 0..MaxVersion
  BY <1>5, NewestExists, NewestType, PresentType
<1>7. header' = [header EXCEPT !.latest = Newest(Present'), !.published = Newest(Published),
                               !.status = IF Newest(Published) # 0 THEN "published" ELSE "draft"]
  <2>1. Recomputed(q) =
          [header EXCEPT !.latest = Newest(Present'), !.published = Newest(Published),
                         !.status = IF Newest(Published) # 0 THEN "published" ELSE "draft"]
    BY <1>1, <1>3, <1>4 DEF Recomputed, Remaining
  <2>2. Recomputed(q) \in Headers BY <1>2, <1>6, <2>1 DEF Headers, Statuses
  <2>3. QED BY <1>1, <1>2, <2>1, <2>2, FlushFresh DEF DeleteCommit
<1>8. /\ header'.latest = Newest(Present') /\ header'.published = Newest(Published)
      /\ header'.status = IF Newest(Published) # 0 THEN "published" ELSE "draft"
  BY <1>2, <1>7 DEF Headers
<1> HIDE DEF v
<1>9. CASE Newest(Published) = 0
  <2>1. Newest(Present') > 0 BY <1>6 DEF Numbers
  <2>2. header'.latest > header'.published /\ header'.status = "draft"
    BY <1>8, <1>9, <2>1
  <2>3. Matches' BY <1>4, <1>8, <2>2 DEF Matches
  <2>4. ArchivesPublished'
    BY <1>9, CommitsArchiving DEF ArchivesPublished, Matches, DeleteCommit
  <2>5. TwoDrafts'
    BY <1>1, <1>4, PresentType DEF TwoDrafts
  <2>6. QED BY <2>3, <2>4, <2>5
<1>10. CASE Newest(Published) # 0
  <2>1. Drafts = {v}
    <3>1. PICK p \in Published : TRUE BY <1>10 DEF Newest
    <3>2. ASSUME NEW w \in Drafts, w # v PROVE FALSE
      <4>1. p \in {1, 2} /\ w \in {1, 2} /\ v \in {1, 2}
        BY <1>1, <3>1, <3>2, PresentType DEF TwoDrafts
      <4>2. p # w /\ p # v BY <1>1, <3>1, <3>2 DEF Drafts, Published, L!Drafts, L!Published
      <4>3. QED BY <3>2, <4>1, <4>2
    <3>3. QED BY <1>1, <3>2
  <2>2. Present' = Published
    BY <1>3, <1>4, <2>1 DEF Drafts, Published, L!Drafts, L!Published, Present
  <2>3. Matches'
    <3>1. header'.latest = header'.published /\ header'.published = Newest(Published')
      BY <1>4, <1>8, <2>2
    <3>2. header'.status = "published" BY <1>8, <1>10
    <3>3. ~(header'.latest > header'.published) BY <1>6, <1>8, <3>1
    <3>4. QED BY <1>8, <1>10, <3>1, <3>2, <3>3 DEF Matches
  <2>4. ArchivesPublished' BY <1>8, <1>10 DEF ArchivesPublished
  <2>5. TwoDrafts' BY <1>4, <2>1 DEF TwoDrafts
  <2>6. QED BY <2>3, <2>4, <2>5
<1>11. QED BY <1>9, <1>10

LEMMA PointersPublish ==
  ASSUME TypeOK, Matches, TwoDrafts, ArchivesPublished, NEW q \in Requests, PublishCommit(q)
  PROVE  (Matches /\ TwoDrafts /\ ArchivesPublished)'
<1> DEFINE v == job[q].v
<1> DEFINE p == Pointer(v)
<1>1. v \in Present /\ header' = [header EXCEPT !.published = p, !.status = PublishedStatus(v)]
  BY DEF PublishCommit
<1>2. Present' = Present /\ Drafts' = Drafts \ {v} /\ Published' = Published \cup {v}
  BY CommitSets
<1>3. Present \subseteq Numbers /\ Published' \subseteq Present /\ Present \ Published' = Drafts \ {v}
  BY <1>1, <1>2, PresentType DEF Drafts, Published, L!Drafts, L!Published, Present
<1>4. p = Newest(Published') /\ p \in Published' /\ \A w \in Published' : w <= p
  <2>1. Published' \in SUBSET Numbers /\ Published' # {} BY <1>2, <1>3
  <2>2. p = Newest(Published') BY <1>2 DEF Pointer
  <2>3. QED BY <2>1, <2>2, NewestExists
<1>5. p \in Numbers /\ p # 0
  <2> HIDE DEF p
  <2>1. p \in Numbers BY <1>3, <1>4
  <2>2. QED BY <2>1, BoundsAssumption DEF Numbers
<1>6. header \in Headers BY DEF PublishCommit, TypeOK
<1>7. header'.latest = header.latest /\ header'.published = p /\ header'.status = PublishedStatus(v)
  BY <1>1, <1>6 DEF Headers
<1>8. header.latest \in Present /\ \A w \in Present : w <= header.latest
  BY <1>1, <1>3, NewestExists DEF Matches
<1> HIDE DEF p, v
<1>9. header'.status = "draft" <=> header'.latest > header'.published
  <2>1. CASE \E w \in Drafts \ {v} : w > p
    <3>1. PICK w \in Drafts \ {v} : w > p BY <2>1
    <3>2. w \in Numbers /\ header.latest \in Numbers /\ w <= header.latest
      BY <1>3, <1>8, <3>1
    <3>3. header.latest > p BY <1>5, <3>1, <3>2, BoundsAssumption DEF Numbers
    <3>4. PublishedStatus(v) = "draft" BY <2>1 DEF PublishedStatus, p
    <3>5. QED BY <1>7, <3>3, <3>4
  <2>2. CASE ~\E w \in Drafts \ {v} : w > p
    <3>1. PublishedStatus(v) = "published" BY <2>2 DEF PublishedStatus, p
    <3>2. ~(header.latest > p)
      <4>1. CASE header.latest \in Drafts \ {v} BY <2>2, <4>1
      <4>2. CASE header.latest \in Published'
        <5>1. header.latest <= p /\ header.latest \in Numbers BY <1>3, <1>4, <4>2
        <5>2. QED BY <1>5, <5>1, BoundsAssumption DEF Numbers
      <4>3. QED BY <1>3, <1>8, <4>1, <4>2
    <3>3. QED BY <1>7, <3>1, <3>2
  <2>3. QED BY <2>1, <2>2
<1>10. header'.status # "archived" BY <1>7 DEF PublishedStatus
<1>11. Matches' BY <1>2, <1>4, <1>7, <1>9, <1>10 DEF Matches
<1>12. TwoDrafts' BY <1>2 DEF TwoDrafts
<1>13. ArchivesPublished' BY <1>5, <1>7 DEF ArchivesPublished
<1>14. QED BY <1>11, <1>12, <1>13

LEMMA PointersArchive ==
  ASSUME TypeOK, Matches, TwoDrafts, ArchivesPublished, NEW q \in Requests, ArchiveWrite(q)
  PROVE  (Matches /\ TwoDrafts /\ ArchivesPublished)'
<1>1. job[q].hdr \in Headers /\ header \in Headers /\ header.published # 0
  BY DEF ArchiveWrite, Commits, TypeOK, Loaded, Jobs, ArchivesPublished, Archiving
<1>2. Present' = Present /\ Drafts' = Drafts /\ Published' = Published
  BY SetsStay DEF ArchiveWrite
<1>3. /\ header'.latest = header.latest /\ header'.published = header.published
      /\ header'.status \in {header.status, "archived"}
  BY <1>1 DEF ArchiveWrite, Flush, Headers
<1>4. Matches'
  <2>1. CASE header'.status = "archived" BY <1>1, <1>2, <1>3, <2>1 DEF Matches
  <2>2. CASE header'.status = header.status BY <1>2, <1>3, <2>2 DEF Matches
  <2>3. QED BY <1>3, <2>1, <2>2
<1>5. TwoDrafts' BY <1>2 DEF TwoDrafts
<1>6. ArchivesPublished' BY <1>1, <1>3 DEF ArchivesPublished
<1>7. QED BY <1>4, <1>5, <1>6

LEMMA PointersQuiet ==
  ASSUME TypeOK, Matches, TwoDrafts, ArchivesPublished, NEW q \in Requests, Quiet(q)
  PROVE  (Matches /\ TwoDrafts /\ ArchivesPublished)'
<1>1. header' = header /\ Present' = Present /\ Drafts' = Drafts /\ Published' = Published
  BY QuietRows, SetsStay DEF rows
<1>2. pc'[q] \in Archiving => header.published # 0
  <2>1. CASE ArchiveCheck(q) BY <2>1 DEF ArchiveCheck
  <2>2. CASE ArchiveHeader(q) BY <2>2 DEF ArchiveHeader, Reads, ArchivesPublished, Archiving
  <2>3. CASE ~ArchiveCheck(q) /\ ~ArchiveHeader(q)
    <3>1. CASE CreateCheck(q) \/ Refused(q, pc[q]) \/ LaunchLink(q)
      BY <3>1 DEF CreateCheck, Refused, LaunchLink, Reads, Ends, TypeOK, Archiving
    <3>2. CASE DraftHeader(q) \/ DraftLatest(q) \/ DraftSource(q)
      BY <3>2 DEF DraftHeader, DraftLatest, DraftSource, Refused, Reads, Ends, TypeOK, Archiving
    <3>3. CASE ReplaceRead(q) \/ DeleteHeader(q) \/ DeleteVersion(q)
      BY <3>3 DEF ReplaceRead, DeleteHeader, DeleteVersion, Refused, Reads, Ends, TypeOK, Archiving
    <3>4. CASE PublishVersion(q) \/ PublishPolicy(q) \/ PublishBases(q)
      BY <3>4 DEF PublishVersion, PublishPolicy, PublishBases, Refused, Reads, Ends, TypeOK, Archiving
    <3>5. CASE LaunchVersion(q) \/ LaunchPolicy(q) \/ LaunchBases(q)
      BY <3>5 DEF LaunchVersion, LaunchPolicy, LaunchBases, Refused, Reads, Ends, TypeOK, Archiving
    <3>6. QED BY <2>3, <3>1, <3>2, <3>3, <3>4, <3>5 DEF Quiet
  <2>4. QED BY <2>1, <2>2, <2>3
<1>3. \A r \in Requests \ {q} : pc'[r] = pc[r]
  BY DEF Quiet, CreateCheck, DraftHeader, DraftLatest, DraftSource, ReplaceRead, DeleteHeader,
     DeleteVersion, PublishVersion, PublishPolicy, PublishBases, ArchiveCheck, ArchiveHeader,
     LaunchVersion, LaunchPolicy, LaunchBases, LaunchLink, Reads, Refused, Ends, TypeOK
<1>4. ArchivesPublished' BY <1>1, <1>2, <1>3 DEF ArchivesPublished
<1>5. QED BY <1>1, <1>4 DEF Matches, TwoDrafts

LEMMA PointersNext == TypeOK /\ AllFresh /\ Pointers /\ [Next]_vars => Pointers'
<1> SUFFICES ASSUME TypeOK, AllFresh, Pointers, [Next]_vars,
                    header' # None, skewed' \cap {"draft", "delete"} = {}
             PROVE  (Matches /\ TwoDrafts /\ ArchivesPublished)'
  BY DEF Pointers
<1>1. CASE header = None
  <2>1. ASSUME NEW q \in Requests, CreateCommit(q)
        PROVE  (Matches /\ TwoDrafts /\ ArchivesPublished)'
    BY <2>1, PointersCreate
  <2>2. ASSUME NEW q \in Requests, Quiet(q) PROVE FALSE BY <1>1, <2>2, QuietRows DEF rows
  <2>3. ASSUME PutPolicy \/ AddBase \/ UNCHANGED vars PROVE FALSE
    BY <1>1, <2>3 DEF PutPolicy, AddBase, vars, rows
  <2>4. ASSUME NEW q \in Requests, DraftCommit(q) \/ DeleteCommit(q) \/ ArchiveWrite(q) PROVE FALSE
    BY <1>1, <2>4 DEF DraftCommit, DeleteCommit, ArchiveWrite, Commits, TypeOK, Loaded
  <2>5. ASSUME NEW q \in Requests, ReplaceCommit(q) \/ PublishCommit(q) PROVE FALSE
    BY <1>1, <2>5 DEF ReplaceCommit, PublishCommit, TypeOK
  <2>6. QED BY <2>1, <2>2, <2>3, <2>4, <2>5, NextCases
<1>2. CASE header # None
  <2>1. skewed \subseteq skewed' =>  Matches /\ TwoDrafts /\ ArchivesPublished
    BY <1>2 DEF Pointers
  <2>2. ASSUME NEW q \in Requests, DraftCommit(q)
        PROVE  (Matches /\ TwoDrafts /\ ArchivesPublished)'
    <3>1. ~overtaken[q] /\ skewed \subseteq skewed' BY <2>2 DEF DraftCommit, Commits
    <3>2. QED BY <2>1, <2>2, <3>1, PointersDraft
  <2>3. ASSUME NEW q \in Requests, DeleteCommit(q)
        PROVE  (Matches /\ TwoDrafts /\ ArchivesPublished)'
    <3>1. ~overtaken[q] /\ skewed \subseteq skewed' BY <2>3 DEF DeleteCommit, Commits
    <3>2. QED BY <2>1, <2>3, <3>1, PointersDelete
  <2>4. ASSUME NEW q \in Requests,
               CreateCommit(q) \/ ReplaceCommit(q) \/ PublishCommit(q) \/ ArchiveWrite(q)
        PROVE  (Matches /\ TwoDrafts /\ ArchivesPublished)'
    <3>1. skewed \subseteq skewed'
      BY <2>4 DEF CreateCommit, ReplaceCommit, PublishCommit, ArchiveWrite, Commits
    <3>2. QED BY <2>1, <2>4, <3>1, PointersCreate, PointersReplace, PointersPublish, PointersArchive
  <2>5. ASSUME NEW q \in Requests, Quiet(q)
        PROVE  (Matches /\ TwoDrafts /\ ArchivesPublished)'
    <3>1. skewed' = skewed
      BY <2>5 DEF Quiet, CreateCheck, DraftHeader, DraftLatest, DraftSource, ReplaceRead, DeleteHeader,
         DeleteVersion, PublishVersion, PublishPolicy, PublishBases, ArchiveCheck, ArchiveHeader,
         LaunchVersion, LaunchPolicy, LaunchBases, LaunchLink, Reads, Refused
    <3>2. QED BY <2>1, <2>5, <3>1, PointersQuiet
  <2>6. CASE PutPolicy \/ AddBase \/ UNCHANGED vars
    <3>1. header' = header /\ versions' = versions /\ pc' = pc /\ skewed' = skewed
      BY <2>6 DEF PutPolicy, AddBase, vars, rows
    <3>2. Present' = Present /\ Drafts' = Drafts /\ Published' = Published BY <3>1, SetsStay
    <3>3. QED BY <2>1, <3>1, <3>2 DEF Matches, TwoDrafts, ArchivesPublished
  <2>7. QED BY <2>2, <2>3, <2>4, <2>5, <2>6, NextCases
<1>3. QED BY <1>1, <1>2

LEMMA PointersInvariant == Spec => []Pointers
<1>1. Init => Pointers BY DEF Init, Pointers
<1>2. QED BY <1>1, TypeCorrect, FreshInvariant, PointersNext, PTL DEF Spec

\* What a client reads from the header is true of the version rows, however
\* requests interleave, unless a draft or a deletion commits after somebody
\* else wrote the template it had read.
THEOREM HeaderTrue == Spec => []HeaderMatches
<1>1. Pointers => HeaderMatches BY DEF Pointers, Matches, HeaderMatches
<1>2. QED BY <1>1, PointersInvariant, PTL

-----------------------------------------------------------------------------
(* The lifecycle.                                                          *)

\* The writes of a step without outdated reads are those of the lifecycle.
LEMMA LifecycleDraft ==
  ASSUME TypeOK, AllFresh, Matches, NEW q \in Requests, DraftCommit(q), ~overtaken[q]
  PROVE  L!Next
<1> DEFINE v == header.latest
<1>1. job[q].hdr = header /\ (Drafts = {} \/ Initial(q)) /\ v \in Present /\ job[q].def = versions[v].def
  BY DEF DraftCommit, Commits, AllFresh, Fresh
<1>2. v + 1 \in Numbers /\ versions' = [versions EXCEPT ![v + 1] = Draft(versions[v].def)]
  BY <1>1, CommitSets DEF DraftCommit, NextVersion
<1>3. v \in Numbers /\ \A w \in Present : w <= v
  BY <1>1, PresentType, NewestExists DEF Matches
<1>4. Drafts = {} \/ Present = {1}
  <2>1. CASE Initial(q)
    <3>1. v = 1 BY <1>1, <2>1 DEF Initial
    <3>2. \A w \in Present : w = 1 BY <1>3, <3>1, PresentType DEF Numbers
    <3>3. QED BY <1>1, <3>1, <3>2
  <2>2. QED BY <1>1, <2>1
<1> HIDE DEF v
<1>5. L!Copy(v) BY <1>1, <1>2, <1>3, <1>4 DEF L!Copy, Present, Drafts, Draft
<1>6. QED BY <1>3, <1>5 DEF L!Next

LEMMA LifecycleStep ==
  ASSUME TypeOK, AllFresh, Pointers, Next, skewed' \cap {"draft", "replace", "delete"} = {}
  PROVE  L!Next \/ UNCHANGED versions
<1>1. ASSUME NEW q \in Requests, CreateCommit(q) PROVE L!Next
  <2>1. Present = {} /\ 1 \in Numbers /\ job[q].def \in Definitions
    BY <1>1, CommitSets, BoundsAssumption DEF CreateCommit, Commits, TypeOK, Loaded, Numbers
  <2>2. L!Create(job[q].def) BY <1>1, <2>1 DEF CreateCommit, L!Create, Present, Draft
  <2>3. QED BY <2>1, <2>2 DEF L!Next
<1>2. ASSUME NEW q \in Requests, DraftCommit(q) PROVE L!Next
  <2>1. ~overtaken[q] /\ skewed \subseteq skewed' BY <1>2 DEF DraftCommit, Commits
  <2>2. header # None BY <1>2 DEF DraftCommit, Commits, TypeOK, Loaded
  <2>3. Matches BY <2>1, <2>2 DEF Pointers
  <2>4. QED BY <1>2, <2>1, <2>3, LifecycleDraft
<1>3. ASSUME NEW q \in Requests, ReplaceCommit(q) PROVE L!Next
  <2> DEFINE v == job[q].v
  <2>1. ~overtaken[q] /\ job[q].def \in Definitions BY <1>3 DEF ReplaceCommit, Commits, TypeOK, Loaded
  <2>2. v \in Drafts BY <1>3, <2>1 DEF ReplaceCommit, Commits, AllFresh, Fresh
  <2>3. v \in Numbers /\ versions[v] \in Rows /\ ~versions[v].published
    BY <2>2, PresentType, RowType DEF Drafts, L!Drafts
  <2>4. versions' = [versions EXCEPT ![v].def = job[q].def] BY <1>3 DEF ReplaceCommit
  <2> HIDE DEF v
  <2>5. [versions[v] EXCEPT !.def = job[q].def] = Draft(job[q].def)
    <3> DEFINE r == [versions[v] EXCEPT !.def = job[q].def]
    <3>1. r \in Rows /\ ~r.published /\ r.def = job[q].def BY <2>1, <2>3 DEF Rows
    <3> HIDE DEF r
    <3>2. QED BY <3>1, DraftOf DEF r
  <2>6. versions' = [versions EXCEPT ![v] = Draft(job[q].def)] BY <2>4, <2>5
  <2>7. L!Edit(v, job[q].def) BY <2>2, <2>6 DEF L!Edit, Drafts, Draft
  <2>8. QED BY <2>1, <2>3, <2>7 DEF L!Next
<1>4. ASSUME NEW q \in Requests, DeleteCommit(q) PROVE L!Next
  <2> DEFINE v == job[q].v
  <2>1. ~overtaken[q] /\ skewed \subseteq skewed' BY <1>4 DEF DeleteCommit, Commits
  <2>2. job[q].hdr = header /\ Deletable(q) BY <1>4, <2>1 DEF DeleteCommit, Commits, AllFresh, Fresh
  <2>3. Matches
    <3>1. header # None BY <1>4, <2>2 DEF DeleteCommit, Commits, TypeOK, Loaded
    <3>2. QED BY <2>1, <3>1 DEF Pointers
  <2>4. v \in Drafts /\ v \in Present /\ Present \subseteq Numbers BY <2>2, PresentType DEF Deletable
  <2>5. Published # {} \/ \E w \in Present : w > v
    <3>1. CASE header.published # 0 BY <2>3, <3>1 DEF Matches, Newest
    <3>2. CASE header.latest # v
      <4>1. header.latest \in Present /\ v <= header.latest
        BY <2>3, <2>4, NewestExists DEF Matches
      <4>2. header.latest > v
        <5> HIDE DEF v
        <5>1. header.latest \in Numbers /\ v \in Numbers BY <2>4, <4>1
        <5>2. QED BY <3>2, <4>1, <5>1, BoundsAssumption DEF Numbers
      <4>3. QED BY <4>1, <4>2
    <3>3. QED BY <2>2, <3>1, <3>2 DEF Deletable
  <2>6. versions' = [versions EXCEPT ![v] = None] BY <1>4 DEF DeleteCommit
  <2> HIDE DEF v
  <2>7. L!Drop(v) BY <2>4, <2>5, <2>6 DEF L!Drop, Present, Drafts, Published
  <2>8. QED BY <2>4, <2>7 DEF L!Next
<1>5. ASSUME NEW q \in Requests, PublishCommit(q) PROVE L!Next \/ UNCHANGED versions
  <2> DEFINE v == job[q].v
  <2>1. v \in Present /\ versions' = [versions EXCEPT ![v].published = TRUE] BY <1>5 DEF PublishCommit
  <2> HIDE DEF v
  <2>2. v \in Numbers /\ versions[v] \in Rows BY <2>1, RowType
  <2>3. CASE versions[v].published
    <3>1. versions[v] = Row(versions[v].def) BY <2>2, <2>3, RowOf
    <3>2. [versions[v] EXCEPT !.published = TRUE] = versions[v]
      <4> DEFINE r == [versions[v] EXCEPT !.published = TRUE]
      <4>1. r \in Rows /\ r.published /\ r.def = versions[v].def BY <2>2 DEF Rows
      <4>2. r = Row(r.def) BY <4>1, RowOf
      <4>3. QED BY <3>1, <4>1, <4>2
    <3>3. versions' = [versions EXCEPT ![v] = versions[v]] BY <2>1, <3>2
    <3>4. QED BY <3>3 DEF TypeOK
  <2>4. CASE ~versions[v].published
    <3>1. v \in Drafts BY <2>1, <2>4 DEF Drafts, L!Drafts, Present
    <3>2. L!Publish(v) BY <2>1, <3>1 DEF L!Publish, Drafts
    <3>3. QED BY <2>2, <3>2 DEF L!Next
  <2>5. QED BY <2>3, <2>4
<1>6. ASSUME NEW q \in Requests, Quiet(q) \/ ArchiveWrite(q) PROVE UNCHANGED versions
  BY <1>6, QuietRows DEF ArchiveWrite, rows
<1>7. CASE PutPolicy \/ AddBase BY <1>7 DEF PutPolicy, AddBase, rows
<1>8. QED BY <1>1, <1>2, <1>3, <1>4, <1>5, <1>6, <1>7, NextCases

\* The interleaved requests implement the lifecycle step by step, as long as
\* no draft, replacement or deletion commits after somebody else wrote the
\* template it had read.
THEOREM LifecycleKept == Spec => KeepsLifecycle
<1>1. Init => L!Init BY DEF Init, L!Init
<1>2. TypeOK /\ AllFresh /\ Pointers /\ [Next]_vars
        => [skewed' \cap {"draft", "replace", "delete"} = {} => L!Next]_versions
  <2>1. UNCHANGED vars => UNCHANGED versions BY DEF vars, rows
  <2>2. QED BY <2>1, LifecycleStep
<1>3. QED BY <1>1, <1>2, TypeCorrect, FreshInvariant, PointersInvariant, PTL DEF Spec, KeepsLifecycle

-----------------------------------------------------------------------------
(* The preflight.                                                          *)

\* A definition whose tools the tenant had, and whose knowledge bases exist.
Covered(d) == policy # None /\ ToolsOf(d) \subseteq policy \cup withdrawn
Preflighted(d) == Covered(d) /\ BasesOf(d) \subseteq bases

\* What a request at p that has not been overtaken relies on.
Relies(q) ==
  /\ pc[q] = "publish.bases" => Covered(job[q].def)
  /\ pc[q] = "publish.write" /\ ~overtaken[q] => Preflighted(versions[job[q].v].def)
  /\ pc[q] \in {"launch.policy", "launch.bases"} => Preflighted(job[q].def)
  /\ pc[q] = "launch.bases" => ToolsOf(job[q].def) \subseteq job[q].policy \cup withdrawn

Checked == skewed \cap {"publish", "replace"} = {} =>
  /\ \A v \in Published : Preflighted(versions[v].def)
  /\ \A q \in Requests : Relies(q)

\* The policy only loses what is withdrawn, and no knowledge base goes away.
LEMMA WorldGrows ==
  ASSUME PutPolicy \/ AddBase
  PROVE  /\ \A d : Preflighted(d) => Preflighted(d)'
         /\ \A d : Covered(d) => Covered(d)'
         /\ withdrawn \subseteq withdrawn'
BY NoneAssumption DEF PutPolicy, AddBase, Preflighted, Covered, ToolsOf, BasesOf

LEMMA WorldStays ==
  ASSUME UNCHANGED <<policy, bases, withdrawn>>
  PROVE  /\ \A d : Preflighted(d)' <=> Preflighted(d)
         /\ \A d : Covered(d)' <=> Covered(d)
BY DEF Preflighted, Covered, ToolsOf, BasesOf

LEMMA CheckedCommit ==
  ASSUME TypeOK, AllFresh, Checked, NEW q \in Requests,
         skewed' \cap {"publish", "replace"} = {},
         \/ CreateCommit(q) \/ DraftCommit(q) \/ ReplaceCommit(q)
         \/ DeleteCommit(q) \/ PublishCommit(q) \/ ArchiveWrite(q)
  PROVE  /\ \A v \in Published' : Preflighted(versions[v].def)'
         /\ \A r \in Requests : Relies(r)'
<1>1. /\ Ends(q) /\ skewed \subseteq skewed' /\ UNCHANGED <<policy, bases, withdrawn>>
      /\ \A r \in Requests : overtaken'[r] = (r # q /\ pc[r] \in Writing)
  BY DEF CreateCommit, DraftCommit, ReplaceCommit, DeleteCommit, PublishCommit, ArchiveWrite, Commits, world
<1>2. /\ \A v \in Published : Preflighted(versions[v].def)
      /\ \A r \in Requests : Relies(r)
  BY <1>1 DEF Checked
<1>3. ASSUME NEW r \in Requests PROVE Relies(r)'
  <2>1. CASE r = q
    <3>1. pc'[r] = "idle" BY <1>1, <2>1 DEF Ends, TypeOK
    <3>2. QED BY <3>1 DEF Relies
  <2>2. CASE r # q
    <3>1. pc'[r] = pc[r] /\ job'[r] = job[r] BY <1>1, <2>2 DEF Ends, TypeOK
    <3>2. pc[r] = "publish.write" => overtaken'[r] BY <1>1, <2>2 DEF Writing
    <3>3. QED BY <1>1, <1>2, <3>1, <3>2, WorldStays DEF Relies
  <2>3. QED BY <2>1, <2>2
<1>4. ASSUME NEW v \in Published' PROVE Preflighted(versions[v].def)'
  <2>1. CASE CreateCommit(q) BY <1>4, <2>1, CommitSets
  <2>2. CASE DraftCommit(q)
    <3>1. v \in Published /\ v # NextVersion(q)
      BY <1>4, <2>2, CommitSets, PresentType DEF DraftCommit
    <3>2. versions'[v] = versions[v] BY <2>2, <3>1, PresentType DEF DraftCommit, TypeOK
    <3>3. QED BY <1>1, <1>2, <3>1, <3>2, WorldStays
  <2>3. CASE ReplaceCommit(q)
    <3>1. ~overtaken[q] BY <2>3 DEF ReplaceCommit, Commits
    <3>2. job[q].v \in Drafts BY <2>3, <3>1 DEF ReplaceCommit, Commits, AllFresh, Fresh
    <3>3. v \in Published /\ v # job[q].v
      BY <1>4, <2>3, <3>2, CommitSets DEF Drafts, Published, L!Drafts, L!Published
    <3>4. versions'[v] = versions[v] BY <2>3, <3>3, PresentType DEF ReplaceCommit, TypeOK
    <3>5. QED BY <1>1, <1>2, <3>3, <3>4, WorldStays
  <2>4. CASE DeleteCommit(q)
    <3>1. v \in Published /\ v # job[q].v BY <1>4, <2>4, CommitSets
    <3>2. versions'[v] = versions[v] BY <2>4, <3>1, PresentType DEF DeleteCommit, TypeOK
    <3>3. QED BY <1>1, <1>2, <3>1, <3>2, WorldStays
  <2>5. CASE PublishCommit(q)
    <3>1. CASE v = job[q].v
      <4>1. ~overtaken[q] BY <2>5 DEF PublishCommit, Commits
      <4>2. Preflighted(versions[v].def)
        BY <1>2, <2>5, <3>1, <4>1 DEF PublishCommit, Commits, Relies
      <4>3. versions[v] \in Rows /\ v \in Numbers BY <2>5, <3>1, RowType DEF PublishCommit
      <4>4. versions'[v] = [versions[v] EXCEPT !.published = TRUE]
        BY <2>5, <3>1, <4>3 DEF PublishCommit, TypeOK
      <4>5. versions'[v].def = versions[v].def BY <4>3, <4>4 DEF Rows
      <4>6. QED BY <1>1, <4>2, <4>5, WorldStays
    <3>2. CASE v # job[q].v
      <4>1. v \in Published BY <1>4, <2>5, <3>2, CommitSets
      <4>2. versions'[v] = versions[v] BY <2>5, <3>2, <4>1, PresentType DEF PublishCommit, TypeOK
      <4>3. QED BY <1>1, <1>2, <4>1, <4>2, WorldStays
    <3>3. QED BY <3>1, <3>2
  <2>6. CASE ArchiveWrite(q)
    <3>1. versions' = versions /\ v \in Published BY <1>4, <2>6, SetsStay DEF ArchiveWrite
    <3>2. QED BY <1>1, <1>2, <3>1, WorldStays
  <2>7. QED BY <2>1, <2>2, <2>3, <2>4, <2>5, <2>6
<1>5. QED BY <1>3, <1>4

\* A step of q that leaves the rows and the world alone and goes on to rely on
\* no more than it may.
LEMMA CheckedReads ==
  ASSUME TypeOK, Checked, NEW q \in Requests, UNCHANGED <<rows, world, skewed, withdrawn>>,
         skewed \cap {"publish", "replace"} = {} => Relies(q)',
         \A r \in Requests \ {q} : pc'[r] = pc[r] /\ job'[r] = job[r] /\ overtaken'[r] = overtaken[r]
  PROVE  Checked'
<1> SUFFICES ASSUME skewed' \cap {"publish", "replace"} = {}
             PROVE  /\ \A v \in Published' : Preflighted(versions[v].def)'
                    /\ \A r \in Requests : Relies(r)'
  BY DEF Checked
<1>1. /\ \A v \in Published : Preflighted(versions[v].def)
      /\ \A r \in Requests : Relies(r)
  BY DEF Checked
<1>2. versions' = versions /\ Published' = Published /\ UNCHANGED <<policy, bases, withdrawn>>
  BY SetsStay DEF rows, world
<1>3. \A v \in Published' : Preflighted(versions[v].def)' BY <1>1, <1>2, WorldStays
<1>4. ASSUME NEW r \in Requests, r # q PROVE Relies(r)'
  <2>1. pc'[r] = pc[r] /\ job'[r] = job[r] /\ overtaken'[r] = overtaken[r] BY <1>4
  <2>2. QED BY <1>1, <1>2, <2>1, WorldStays DEF Relies
<1>5. QED BY <1>3, <1>4

LEMMA CheckedQuiet ==
  ASSUME TypeOK, AllFresh, Checked, NEW q \in Requests, Quiet(q)
  PROVE  Checked'
<1>1. ASSUME NEW from, NEW to, NEW locals, Reads(q, from, to, locals)
      PROVE  /\ UNCHANGED <<rows, world, skewed, withdrawn>> /\ versions' = versions
             /\ UNCHANGED <<policy, bases, withdrawn>>
             /\ pc[q] = from /\ pc'[q] = to /\ job'[q] = locals /\ overtaken'[q] = overtaken[q]
             /\ \A r \in Requests \ {q} :
                  pc'[r] = pc[r] /\ job'[r] = job[r] /\ overtaken'[r] = overtaken[r]
  BY <1>1 DEF Reads, TypeOK, rows, world
<1>2. ASSUME UNCHANGED <<rows, world, skewed, withdrawn>>, Ends(q),
             \A r \in Requests \ {q} : overtaken'[r] = overtaken[r]
      PROVE  Checked'
  <2>1. pc'[q] = "idle" /\ \A r \in Requests \ {q} : pc'[r] = pc[r] /\ job'[r] = job[r]
    BY <1>2 DEF Ends, TypeOK
  <2>2. Relies(q)' BY <2>1 DEF Relies
  <2>3. QED BY <1>2, <2>1, <2>2, CheckedReads
<1>3. ASSUME NEW from, Refused(q, from) PROVE Checked'
  BY <1>2, <1>3 DEF Refused, TypeOK
<1>4. CASE LaunchLink(q) BY <1>2, <1>4 DEF LaunchLink, TypeOK
<1>5. ASSUME NEW from, NEW to, NEW locals, Reads(q, from, to, locals),
             to \notin {"publish.bases", "publish.write", "launch.policy", "launch.bases"}
      PROVE  Checked'
  <2>1. Relies(q)' BY <1>1, <1>5 DEF Relies
  <2>2. QED BY <1>1, <1>5, <2>1, CheckedReads
<1>6. CASE PublishPolicy(q)
  <2>1. CASE Reads(q, "publish.policy", "publish.bases", job[q]) /\ Permitted(q)
    <3>1. Covered(job[q].def) BY <2>1 DEF Permitted, Covered
    <3>2. Relies(q)' BY <1>1, <2>1, <3>1, WorldStays DEF Relies
    <3>3. QED BY <1>1, <2>1, <3>2, CheckedReads
  <2>2. QED BY <1>3, <1>6, <2>1 DEF PublishPolicy
<1>7. CASE PublishBases(q)
  <2> DEFINE j == [job[q] EXCEPT !.def = {}]
  <2>1. CASE Reads(q, "publish.bases", "publish.write", j) /\ Known(q)
    <3>1. j.v = job[q].v BY DEF TypeOK, Jobs
    <3> HIDE DEF j
    <3>2. /\ pc[q] = "publish.bases" /\ pc'[q] = "publish.write" /\ job'[q] = j
          /\ overtaken'[q] = overtaken[q] /\ versions' = versions
          /\ UNCHANGED <<policy, bases, withdrawn>>
      BY <1>1, <2>1
    <3>3. ASSUME skewed \cap {"publish", "replace"} = {}, ~overtaken[q]
          PROVE  Preflighted(versions[job[q].v].def)
      <4>1. Covered(job[q].def) /\ BasesOf(job[q].def) \subseteq bases
        BY <2>1, <3>2, <3>3 DEF Checked, Relies, Known
      <4>2. versions[job[q].v].def = job[q].def BY <3>2, <3>3 DEF AllFresh, Fresh
      <4>3. QED BY <4>1, <4>2 DEF Preflighted
    <3>4. skewed \cap {"publish", "replace"} = {} => Relies(q)'
      BY <3>1, <3>2, <3>3, WorldStays DEF Relies
    <3>5. QED BY <1>1, <2>1, <3>4, CheckedReads
  <2>2. QED BY <1>3, <1>7, <2>1 DEF PublishBases
<1>8. CASE LaunchVersion(q)
  <2>1. PICK v \in Published : Reads(q, "idle", "launch.policy", Job(v, versions[v].def, None))
    BY <1>8 DEF LaunchVersion
  <2>2. Job(v, versions[v].def, None).def = versions[v].def BY DEF Job
  <2>3. skewed \cap {"publish", "replace"} = {} => Preflighted(versions[v].def) BY DEF Checked
  <2>4. pc'[q] = "launch.policy" /\ job'[q].def = versions[v].def /\ UNCHANGED <<policy, bases, withdrawn>>
    BY <1>1, <2>1, <2>2
  <2>5. skewed \cap {"publish", "replace"} = {} => Relies(q)'
    BY <2>3, <2>4, WorldStays DEF Relies
  <2>6. QED BY <1>1, <2>1, <2>5, CheckedReads
<1>9. CASE LaunchPolicy(q)
  <2> DEFINE j == [job[q] EXCEPT !.policy = policy]
  <2>1. j.def = job[q].def /\ j.policy = policy BY DEF TypeOK, Jobs
  <2>2. Reads(q, "launch.policy", "launch.bases", j) BY <1>9 DEF LaunchPolicy
  <2> HIDE DEF j
  <2>3. pc[q] = "launch.policy" /\ pc'[q] = "launch.bases" /\ job'[q] = j /\ UNCHANGED <<policy, bases, withdrawn>>
    BY <1>1, <2>2
  <2>4. skewed \cap {"publish", "replace"} = {} => Preflighted(job[q].def)
    BY <2>3 DEF Checked, Relies
  <2>5. skewed \cap {"publish", "replace"} = {} => Relies(q)'
    BY <2>1, <2>3, <2>4, WorldStays DEF Relies, Preflighted, Covered
  <2>6. QED BY <1>1, <2>2, <2>5, CheckedReads
<1>10. CASE LaunchBases(q)
  <2>1. CASE Reads(q, "launch.bases", "launch.link", job[q]) BY <1>5, <2>1
  <2>2. QED BY <1>3, <1>10, <2>1 DEF LaunchBases
<1>11. CASE CreateCheck(q) \/ DraftHeader(q) \/ ReplaceRead(q) \/ DeleteHeader(q)
            \/ PublishVersion(q) \/ ArchiveCheck(q) \/ ArchiveHeader(q)
  BY <1>5, <1>11
  DEF CreateCheck, DraftHeader, ReplaceRead, DeleteHeader, PublishVersion, ArchiveCheck, ArchiveHeader
<1>12. CASE DraftLatest(q) \/ DraftSource(q) \/ DeleteVersion(q)
  BY <1>3, <1>5, <1>12 DEF DraftLatest, DraftSource, DeleteVersion
<1>13. QED
  BY <1>3, <1>4, <1>6, <1>7, <1>8, <1>9, <1>10, <1>11, <1>12 DEF Quiet

LEMMA CheckedNext == TypeOK /\ AllFresh /\ Checked /\ [Next]_vars => Checked'
<1> SUFFICES ASSUME TypeOK, AllFresh, Checked, [Next]_vars PROVE Checked' OBVIOUS
<1>1. ASSUME NEW q \in Requests,
             \/ CreateCommit(q) \/ DraftCommit(q) \/ ReplaceCommit(q)
             \/ DeleteCommit(q) \/ PublishCommit(q) \/ ArchiveWrite(q)
      PROVE  Checked'
  BY <1>1, CheckedCommit DEF Checked
<1>2. CASE PutPolicy \/ AddBase
  <2>1. UNCHANGED <<rows, pc, job, overtaken, skewed>> BY <1>2 DEF PutPolicy, AddBase
  <2>2. versions' = versions /\ Published' = Published BY <2>1, SetsStay DEF rows
  <2>3. QED BY <1>2, <2>1, <2>2, WorldGrows DEF Checked, Relies
<1>3. CASE UNCHANGED vars
  <2>1. /\ UNCHANGED <<pc, job, overtaken, skewed, policy, bases, withdrawn>>
        /\ versions' = versions /\ Published' = Published
    BY <1>3, SetsStay DEF vars, rows, world
  <2>2. QED BY <2>1, WorldStays DEF Checked, Relies
<1>4. QED BY <1>1, <1>2, <1>3, CheckedQuiet, NextCases

\* A published definition without flaws stays launchable as far as its
\* publication could see: a launch is refused for its tools only when all of them
\* were withdrawn (or there are none), never for a knowledge base, unless the
\* definition changed while or after it was checked.
THEOREM PreflightStands == Spec => []PreflightSuffices
<1>1. Init => Checked BY DEF Init, Checked, Published, L!Published, L!Present, Relies
<1>2. Checked => PreflightSuffices
  <2> SUFFICES ASSUME Checked, skewed \cap {"publish", "replace"} = {},
                      NEW q \in Requests, pc[q] = "launch.bases", MayFail(q),
                      job[q].def \cap Flaws = {}
               PROVE  ToolsOf(job[q].def) \subseteq withdrawn
    BY DEF PreflightSuffices
  <2>1. Relies(q) BY DEF Checked
  <2>2. Known(q) BY <2>1 DEF Relies, Preflighted, Known
  <2>3. ToolsOf(job[q].def) \cap job[q].policy = {}
    BY <2>2 DEF MayFail, Flaws, Assembles, Effective
  <2>4. QED BY <2>1, <2>3 DEF Relies
<1>3. QED BY <1>1, <1>2, TypeCorrect, FreshInvariant, CheckedNext, PTL DEF Spec
=============================================================================
