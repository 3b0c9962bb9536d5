------------------------ MODULE MCWorkflowTemplates ------------------------
(* Small instances of WorkflowTemplates for TLC.                           *)
EXTENDS WorkflowTemplates, TLC

Symmetry == Permutations(Requests)

\* Bound: one kind of operation commits on outdated reads.
OneSkew == Cardinality(skewed) <= 1

\* What the versions and the requests name.
Named == UNION ({versions[v].def : v \in Present} \cup {job[q].def : q \in Requests})

\* Bound: the definitions have one flaw at most between them, and no placeholder
\* where the tools are withdrawn or an operation commits on outdated reads.
OneFlaw ==
  /\ ~(Flaws \subseteq Named)
  /\ withdrawn # {} \/ skewed # {} => "placeholder" \notin Named

\* Bound: the tools are granted, the knowledge bases registered, and after that
\* either the tools are withdrawn, or a run is launched, or an operation commits
\* on outdated reads.
World ==
  /\ bases # {} => policy # None /\ (policy = {} => withdrawn # {})
  /\ withdrawn # {} \/ links # {} \/ skewed # {} => bases = Bases
  /\ withdrawn # {} => policy = {} /\ links = {} /\ skewed = {}
  /\ skewed # {} => links = {}
=============================================================================
