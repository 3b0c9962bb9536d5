------------------------- MODULE WorkflowTemplates -------------------------
(***************************************************************************)
(* One workflow template: WorkflowService over WorkflowRepository, its     *)
(* header and version rows, and the launches that read them.               *)
(*                                                                         *)
(* Requests interleave at the awaits, and every statement sent to the      *)
(* database is one.  The session opens its transaction with the first      *)
(* INSERT, UPDATE or DELETE, so what a repository method selects before    *)
(* that may be out of date when it commits; what it selects afterwards     *)
(* belongs to the commit.  So an operation is a few reads and one commit.  *)
(* A flush updates only the columns whose new value differs from the one   *)
(* that was loaded.                                                        *)
(*                                                                         *)
(* Abstracted: a definition is the set of tools and knowledge bases it     *)
(* names and of its flaws, which no check before a launch looks for; those *)
(* that validate_template_definition or the input schema's check refuse    *)
(* end a request before its first call.  A read whose answer               *)
(* a later read of the same request decides again is part of that one.  A  *)
(* refused request and one that raises look the same: it ends, and the     *)
(* rows stay; one that is sure to be refused may end before its last read. *)
(* archived_at is left out, for only clients read it.                      *)
(***************************************************************************)
EXTENDS Integers, FiniteSets

CONSTANTS
  Requests,     \* requests in flight at the same time
  MaxVersion,   \* bound on the version numbers
  MaxLinks,     \* bound on the launches
  Tools, Bases, \* tool names and knowledge-base ids
  Definitions,  \* definitions that pass the validation
  None          \* Python's None

Numbers == 1..MaxVersion

ASSUME BoundsAssumption == MaxVersion \in Nat \ {0} /\ MaxLinks \in Nat

\* assemble_template_launch raises on a definition without one of the keys
\* "tools", "allowed_tools" and "approval_required_tools" ("incomplete", which also
\* stands for an objective that is no format string), and on an objective with a
\* placeholder that the launch input does not fill.
Flaws == {"incomplete", "placeholder"}

ASSUME DefinitionsAssumption ==
  /\ Definitions \subseteq SUBSET (Tools \cup Bases \cup Flaws)
  /\ Flaws \cap (Tools \cup Bases) = {}
ASSUME NoneAssumption == \A S \in SUBSET Tools : None # S

VARIABLES
  \* The database.
  header,    \* WorkflowTemplateTable row: status, latest_version,
             \* latest_published_version (0 for None)
  versions,  \* WorkflowTemplateVersionTable rows by number
  links,     \* WorkflowRunLinkTable rows: version, its definition, allowed_tools
  policy,    \* allowed_tools of TenantPolicyTable, None without a row
  bases,     \* ids in KnowledgeBaseTable
  \* The requests.
  pc,        \* what a request awaits next, "idle" when it is not in flight
  job,       \* its locals
  \* History.
  overtaken, \* the template was written since the first read of a request that
             \* will write it
  skewed,    \* the operations of requests that committed although overtaken
  withdrawn  \* tools a change of the tenant policy took away

rows == <<header, versions>>
world == <<policy, bases>>
vars == <<rows, links, world, pc, job, overtaken, skewed, withdrawn>>

L == INSTANCE WorkflowLifecycle

Draft(d) == L!Draft(d)
Present == L!Present
Drafts == L!Drafts
Published == L!Published

-----------------------------------------------------------------------------
(* Values.                                                                 *)

Statuses == {"draft", "published", "archived"}
Headers == [status : Statuses, latest : Numbers, published : 0..MaxVersion]
Rows == [def : Definitions, published : BOOLEAN]
Ops == {"draft", "replace", "delete", "publish"}

ASSUME RowsAssumption == (\A h \in Headers : None # h) /\ (\A r \in Rows : None # r)

\* What a request that writes the rows awaits, and what any does.
Writing == {"create.write", "draft.draft", "draft.source", "draft.write",
            "replace.write", "delete.version", "delete.write", "publish.policy",
            "publish.bases", "publish.write", "archive.header", "archive.write"}
PCs == Writing \cup {"idle", "launch.policy", "launch.bases", "launch.link"}

ToolsOf(d) == d \cap Tools
BasesOf(d) == d \cap Bases

\* Zero of an empty set: latest_published_version is None.
Newest(S) == IF S = {} THEN 0 ELSE CHOOSE v \in S : \A w \in S : w <= v

\* A request's locals: a version, a definition, the header it loaded.
Job(v, d, h) == [v |-> v, def |-> d, hdr |-> h, policy |-> None]
NoJob == Job(0, {}, None)

-----------------------------------------------------------------------------
(* Steps of a request.                                                     *)

\* It reads and goes on.
Reads(q, from, to, locals) ==
  /\ pc[q] = from
  /\ pc' = [pc EXCEPT ![q] = to]
  /\ job' = [job EXCEPT ![q] = locals]
  /\ UNCHANGED <<rows, links, world, overtaken, skewed, withdrawn>>

Ends(q) ==
  /\ pc' = [pc EXCEPT ![q] = "idle"]
  /\ job' = [job EXCEPT ![q] = NoJob]

\* It is refused, or raises.
Refused(q, from) ==
  /\ pc[q] = from /\ Ends(q)
  /\ overtaken' = [overtaken EXCEPT ![q] = FALSE]
  /\ UNCHANGED <<rows, links, world, skewed, withdrawn>>

\* It commits a write of the template's rows, and passes the requests that
\* will write what they make of them.
Commits(q, from, ops) ==
  /\ pc[q] = from /\ Ends(q)
  /\ overtaken' = [r \in Requests |-> r # q /\ pc[r] \in Writing]
  /\ skewed' = IF overtaken[q] THEN skewed \cup ops ELSE skewed
  /\ UNCHANGED <<links, world, withdrawn>>

\* The columns of the header that a flush writes.
Flush(loaded, new) ==
  [status |-> IF new.status = loaded.status THEN header.status ELSE new.status,
   latest |-> IF new.latest = loaded.latest THEN header.latest ELSE new.latest,
   published |-> IF new.published = loaded.published THEN header.published ELSE new.published]

-----------------------------------------------------------------------------
(* create_template.                                                        *)

CreateCheck(q) ==
  /\ header = None
  /\ \E d \in Definitions : Reads(q, "idle", "create.write", Job(0, d, None))

\* The insertion; the unique constraint refuses a second one.
CreateCommit(q) ==
  /\ header = None
  /\ Commits(q, "create.write", {})
  /\ header' = [status |-> "draft", latest |-> 1, published |-> 0]
  /\ versions' = [versions EXCEPT ![1] = Draft(job[q].def)]

CreateWrite(q) ==
  \/ CreateCommit(q)
  \/ Refused(q, "create.write") /\ header # None

-----------------------------------------------------------------------------
(* create_template_version_draft: create_copied_draft_version.             *)

DraftHeader(q) ==
  /\ header # None /\ header.latest < MaxVersion
  /\ Reads(q, "idle", "draft.draft", Job(0, {}, header))

\* The initial draft of a template that has nothing else may stay.
Initial(q) == Newest(Drafts) = 1 /\ job[q].hdr.latest = 1 /\ job[q].hdr.published = 0
DraftExists_Published(q) ==                     \* mutant: asks for published versions
  Published # {} /\ Drafts # {} /\ ~Initial(q)
DraftExists(q) == Drafts # {} /\ ~Initial(q)

DraftLatest(q) ==
  \/ Refused(q, "draft.draft") /\ DraftExists(q)
  \/ Reads(q, "draft.draft", "draft.source", job[q]) /\ ~DraftExists(q)

DraftSource(q) ==
  LET source == job[q].hdr.latest IN
  /\ pc[q] = "draft.source"
  /\ \/ source \notin Present /\ Refused(q, "draft.source")
     \/ /\ source \in Present
        /\ Reads(q, "draft.source", "draft.write", [job[q] EXCEPT !.def = versions[source].def])

\* The insertion and the header, unless the number is taken.
NextVersion(q) == job[q].hdr.latest + 1
Advanced(q) == [job[q].hdr EXCEPT !.latest = NextVersion(q), !.status = "draft"]

DraftCommit(q) ==
  /\ Commits(q, "draft.write", {"draft"})
  /\ NextVersion(q) \notin Present
  /\ versions' = [versions EXCEPT ![NextVersion(q)] = Draft(job[q].def)]
  /\ header' = Flush(job[q].hdr, Advanced(q))

DraftWrite(q) ==
  \/ DraftCommit(q)
  \/ Refused(q, "draft.write") /\ NextVersion(q) \in Present

-----------------------------------------------------------------------------
(* replace_template_version_draft: replace_draft_version.                  *)

Replaceable_Any == Present                      \* mutant: published ones too
Replaceable == Drafts

\* There is nothing to flush when the definition is the one that was loaded.
ReplaceRead(q) ==
  \E v \in Replaceable : \E d \in Definitions \ {versions[v].def} :
    Reads(q, "idle", "replace.write", Job(v, d, None))

\* The flush updates the row by its key, and fails when the row is gone.
ReplaceCommit(q) ==
  /\ Commits(q, "replace.write", {"replace"})
  /\ job[q].v \in Present
  /\ versions' = [versions EXCEPT ![job[q].v].def = job[q].def]
  /\ UNCHANGED header

ReplaceWrite(q) ==
  \/ ReplaceCommit(q)
  \/ Refused(q, "replace.write") /\ job[q].v \notin Present

-----------------------------------------------------------------------------
(* delete_template_version: delete_draft_version.                          *)

DeleteHeader(q) ==
  /\ header # None
  /\ \E v \in Drafts : Reads(q, "idle", "delete.version", Job(v, {}, header))

Deletable(q) ==
  /\ job[q].v \in Drafts
  /\ ~(job[q].hdr.latest = job[q].v /\ job[q].hdr.published = 0)

DeleteVersion(q) ==
  \/ Reads(q, "delete.version", "delete.write", job[q]) /\ Deletable(q)
  \/ Refused(q, "delete.version") /\ ~Deletable(q)

\* remaining_versions[0] raises when nothing remains, and the transaction is
\* rolled back.
Remaining_Any(q) == {0} \cup (Present \ {job[q].v})  \* mutant: never raises
Remaining(q) == Present \ {job[q].v}

Recomputed(q) ==
  LET published == Newest(Published \ {job[q].v}) IN
  [job[q].hdr EXCEPT !.latest = Newest(Remaining(q)),
                     !.published = published,
                     !.status = IF published # 0 THEN "published" ELSE "draft"]

DeleteCommit(q) ==
  /\ Commits(q, "delete.write", {"delete"})
  /\ Remaining(q) # {}
  /\ versions' = [versions EXCEPT ![job[q].v] = None]
  /\ header' = Flush(job[q].hdr, Recomputed(q))

DeleteWrite(q) ==
  \/ DeleteCommit(q)
  \/ Refused(q, "delete.write") /\ Remaining(q) = {}

-----------------------------------------------------------------------------
(* publish_template_version.                                               *)

PublishVersion(q) ==
  \E v \in Drafts :
    Reads(q, "idle", "publish.policy", Job(v, versions[v].def, None))

\* _collect_publish_preflight_errors.
Permitted(q) == policy # None /\ ToolsOf(job[q].def) \subseteq policy
Known(q) == BasesOf(job[q].def) \subseteq bases

PublishPolicy(q) ==
  \/ Reads(q, "publish.policy", "publish.bases", job[q]) /\ Permitted(q)
  \/ Refused(q, "publish.policy") /\ ~Permitted(q)

PublishBases_Unchecked(q) ==            \* mutant: the knowledge bases are not compared
  Reads(q, "publish.bases", "publish.write", [job[q] EXCEPT !.def = {}])
PublishBases(q) ==
  \/ Reads(q, "publish.bases", "publish.write", [job[q] EXCEPT !.def = {}]) /\ Known(q)
  \/ Refused(q, "publish.bases") /\ ~Known(q)

\* publish_version: its first flush opens the transaction, so that everything
\* after it is up to date; it fails when the row is gone.
Pointer_This(v) == v                            \* mutant: this version, not the newest
Pointer(v) == Newest(Published \cup {v})

PublishedStatus(v) ==
  IF \E w \in Drafts \ {v} : w > Pointer(v) THEN "draft" ELSE "published"

PublishCommit(q) ==
  LET v == job[q].v IN
  /\ Commits(q, "publish.write", {"publish"})
  /\ v \in Present
  /\ versions' = [versions EXCEPT ![v].published = TRUE]
  /\ header' = [header EXCEPT !.published = Pointer(v), !.status = PublishedStatus(v)]

PublishWrite(q) ==
  \/ PublishCommit(q)
  \/ Refused(q, "publish.write") /\ job[q].v \notin Present

-----------------------------------------------------------------------------
(* archive_template.                                                       *)

ArchiveCheck(q) ==
  /\ header # None /\ header.published # 0
  /\ Reads(q, "idle", "archive.header", NoJob)

ArchiveHeader(q) ==
  Reads(q, "archive.header", "archive.write", [job[q] EXCEPT !.hdr = header])

ArchiveWrite(q) ==
  /\ Commits(q, "archive.write", {})
  /\ header' = Flush(job[q].hdr, [job[q].hdr EXCEPT !.status = "archived"])
  /\ UNCHANGED versions

-----------------------------------------------------------------------------
(* launch_template.  The header is only read for the template's name.      *)

\* The newest published version, or one that the request names.
LaunchVersion(q) ==
  /\ Cardinality(links) < MaxLinks
  /\ \E v \in Published :
       Reads(q, "idle", "launch.policy", Job(v, versions[v].def, None))

\* There is a policy, for its publication has found one and nothing removes it.
LaunchPolicy(q) ==
  /\ policy # None
  /\ Reads(q, "launch.policy", "launch.bases", [job[q] EXCEPT !.policy = policy])

\* assemble_template_launch.
Effective(q) == ToolsOf(job[q].def) \cap job[q].policy
Assembles(q) == Known(q) /\ Effective(q) # {} /\ "incomplete" \notin job[q].def

\* Whether the input fills the objective is the caller's choice.
MayFail(q) == ~Assembles(q) \/ "placeholder" \in job[q].def

LaunchBases(q) ==
  \/ Reads(q, "launch.bases", "launch.link", job[q]) /\ Assembles(q)
  \/ Refused(q, "launch.bases") /\ MayFail(q)

\* create_run_from_template_launch, as far as its link goes.
LaunchLink(q) ==
  /\ pc[q] = "launch.link" /\ Ends(q)
  /\ Cardinality(links) < MaxLinks
  /\ links' = links \cup {[v |-> job[q].v, def |-> job[q].def, tools |-> Effective(q)]}
  /\ overtaken' = [overtaken EXCEPT ![q] = FALSE]
  /\ UNCHANGED <<rows, world, skewed, withdrawn>>

-----------------------------------------------------------------------------
(* The surroundings.                                                       *)

\* A call fails, or the process ends; no transaction is left half done.
Fails(q) == pc[q] # "idle" /\ Refused(q, pc[q])

\* upsert_tenant_policy.
PutPolicy ==
  /\ policy' \in SUBSET Tools
  /\ withdrawn' = withdrawn \cup (IF policy = None THEN {} ELSE policy \ policy')
  /\ UNCHANGED <<rows, links, bases, pc, job, overtaken, skewed>>

\* register_knowledge_base; nothing removes one.
AddBase ==
  /\ \E b \in Bases \ bases : bases' = bases \cup {b}
  /\ UNCHANGED <<rows, links, policy, pc, job, overtaken, skewed, withdrawn>>

-----------------------------------------------------------------------------
Init ==
  /\ header = None /\ versions = [v \in Numbers |-> None] /\ links = {}
  /\ policy = None /\ bases = {}
  /\ pc = [q \in Requests |-> "idle"] /\ job = [q \in Requests |-> NoJob]
  /\ overtaken = [q \in Requests |-> FALSE] /\ skewed = {} /\ withdrawn = {}

Request(q) ==
  \/ CreateCheck(q) \/ CreateWrite(q)
  \/ DraftHeader(q) \/ DraftLatest(q) \/ DraftSource(q) \/ DraftWrite(q)
  \/ ReplaceRead(q) \/ ReplaceWrite(q)
  \/ DeleteHeader(q) \/ DeleteVersion(q) \/ DeleteWrite(q)
  \/ PublishVersion(q) \/ PublishPolicy(q) \/ PublishBases(q) \/ PublishWrite(q)
  \/ ArchiveCheck(q) \/ ArchiveHeader(q) \/ ArchiveWrite(q)
  \/ LaunchVersion(q) \/ LaunchPolicy(q) \/ LaunchBases(q) \/ LaunchLink(q)
  \/ Fails(q)

Next == (\E q \in Requests : Request(q)) \/ PutPolicy \/ AddBase

Spec == Init /\ [][Next]_vars

-----------------------------------------------------------------------------
(* Properties.                                                             *)

Jobs == [v : 0..MaxVersion, def : {{}} \cup Definitions, hdr : {None} \cup Headers,
         policy : {None} \cup SUBSET Tools]

\* A request has loaded what its step at p works on.
Loaded(p, j) ==
  /\ p \in {"draft.draft", "draft.source", "draft.write", "delete.version", "delete.write",
            "archive.write"} => j.hdr # None
  /\ p \in {"draft.draft", "draft.source", "draft.write"} => j.hdr.latest < MaxVersion
  /\ p \in {"replace.write", "delete.version", "delete.write", "publish.policy", "publish.bases",
            "publish.write", "launch.policy", "launch.bases", "launch.link"} => j.v # 0
  /\ p \in {"launch.bases", "launch.link"} => j.policy # None
  /\ p \in {"create.write", "replace.write", "publish.policy", "publish.bases", "launch.policy",
            "launch.bases", "launch.link", "draft.write"} => j.def \in Definitions

\* Every variable has its type, and a request has loaded what it works on.
TypeOK ==
  /\ header \in {None} \cup Headers
  /\ versions \in [Numbers -> {None} \cup Rows]
  /\ header = None =>
       Present = {} /\ \A q \in Requests : job[q].hdr = None /\ pc[q] # "archive.header"
  /\ links \subseteq [v : Numbers, def : Definitions, tools : SUBSET Tools]
  /\ policy \in {None} \cup SUBSET Tools /\ bases \subseteq Bases
  /\ pc \in [Requests -> PCs] /\ job \in [Requests -> Jobs]
  /\ overtaken \in [Requests -> BOOLEAN] /\ skewed \subseteq Ops /\ withdrawn \subseteq Tools
  /\ \A q \in Requests : Loaded(pc[q], job[q])

\* The header a client reads is true of the versions: its pointers are the
\* newest version and the newest published one, and "draft" means that there
\* is something newer than what is published.  Only a draft or a deletion that
\* was committed on outdated reads can break it.
HeaderMatches ==
  header # None /\ skewed \cap {"draft", "delete"} = {} =>
    /\ header.latest = Newest(Present)
    /\ header.published = Newest(Published)
    /\ header.status = "archived" => header.published # 0
    /\ header.status # "archived" => (header.status = "draft" <=> header.latest > header.published)

\* A template never loses its last version, whatever deletions and
\* publications overlap.
NeverEmpty == header # None => Present # {}

\* A run's link leads to the version it was launched from, published and
\* unchanged, unless a replacement or a deletion was committed on outdated
\* reads; archiving and newer versions do not matter.
LinksResolve ==
  skewed \cap {"replace", "delete"} = {} =>
    \A l \in links : versions[l.v] = [def |-> l.def, published |-> TRUE]

\* What the publication checked suffices for the launch of a definition without
\* flaws: it is refused, or raises, only when the definition names no tool, every
\* tool it names was withdrawn from the tenant meanwhile, or it was changed while
\* or after it was checked.  A flawed one passes every check all the same, and an
\* incomplete one then fails every launch.
PreflightSuffices ==
  skewed \cap {"publish", "replace"} = {} =>
    \A q \in Requests : pc[q] = "launch.bases" /\ MayFail(q) =>
      job[q].def \cap Flaws # {} \/ ToolsOf(job[q].def) \subseteq withdrawn

\* Every step of the program is a step of the lifecycle that the template
\* promises (or none), unless a draft, a replacement or a deletion was
\* committed on outdated reads.
KeepsLifecycle ==
  L!Init /\ [][skewed' \cap {"draft", "replace", "delete"} = {} => L!Next]_versions
=============================================================================
