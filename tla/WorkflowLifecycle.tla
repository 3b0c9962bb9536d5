------------------------- MODULE WorkflowLifecycle -------------------------
(***************************************************************************)
(* What the workflow templates promise of the versions of one template,    *)
(* without headers, requests, transactions, policies or launches.          *)
(*                                                                         *)
(* Versions are numbered from 1.  A draft may be edited, dropped or        *)
(* published; a published version stays as it is.  A new draft copies the  *)
(* newest version, and there is one draft at a time, next to which only    *)
(* the initial version may still be one.                                   *)
(***************************************************************************)
EXTENDS Integers

CONSTANTS
  Numbers,      \* version numbers
  Definitions,  \* what a version may say
  None          \* no such version

VARIABLE versions

Draft(d) == [def |-> d, published |-> FALSE]

Present == {v \in Numbers : versions[v] # None}
Drafts == {v \in Present : ~versions[v].published}
Published == {v \in Present : versions[v].published}

Init == versions = [v \in Numbers |-> None]

Create(d) ==
  /\ Present = {} /\ 1 \in Numbers
  /\ versions' = [versions EXCEPT ![1] = Draft(d)]

Copy(v) ==
  /\ v \in Present /\ \A w \in Present : w <= v
  /\ Drafts = {} \/ Present = {1}
  /\ v + 1 \in Numbers
  /\ versions' = [versions EXCEPT ![v + 1] = Draft(versions[v].def)]

Edit(v, d) == v \in Drafts /\ versions' = [versions EXCEPT ![v] = Draft(d)]

\* A draft is dropped when something newer or something published remains.
Drop(v) ==
  /\ v \in Drafts
  /\ Published # {} \/ \E w \in Present : w > v
  /\ versions' = [versions EXCEPT ![v] = None]

Publish(v) ==
  /\ v \in Drafts
  /\ versions' = [versions EXCEPT ![v].published = TRUE]

Next ==
  \/ \E d \in Definitions : Create(d)
  \/ \E v \in Numbers : Copy(v) \/ Drop(v) \/ Publish(v) \/ \E d \in Definitions : Edit(v, d)

Spec == Init /\ [][Next]_versions
=============================================================================
