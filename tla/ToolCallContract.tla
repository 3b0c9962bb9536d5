-------------------------- MODULE ToolCallContract --------------------------
(***************************************************************************)
(* What the tool gateway and the approval gate promise of every tool call, *)
(* without agents, runs, checkpoints, requests or crashes.                 *)
(*                                                                         *)
(* A call may be put behind an approval before it is ever executed; then   *)
(* it is executed only once the approval has been granted.  A call that    *)
(* was executed gets one outcome, which is final, and ends its executions. *)
(***************************************************************************)
EXTENDS Integers

CONSTANT Calls

VARIABLES
  asked,    \* calls put behind an approval
  granted,  \* calls whose approval was granted
  runs,     \* how often the tool of each call was executed
  outcome   \* "open", "completed" or "failed"

vars == <<asked, granted, runs, outcome>>

Init ==
  /\ asked = {} /\ granted = {}
  /\ runs = [c \in Calls |-> 0]
  /\ outcome = [c \in Calls |-> "open"]

Ask(c) ==
  /\ c \notin asked /\ runs[c] = 0 /\ outcome[c] = "open"
  /\ asked' = asked \cup {c}
  /\ UNCHANGED <<granted, runs, outcome>>

Grant(c) ==
  /\ c \in asked
  /\ granted' = granted \cup {c}
  /\ UNCHANGED <<asked, runs, outcome>>

Execute(c) ==
  /\ outcome[c] = "open" /\ (c \in asked => c \in granted)
  /\ runs' = [runs EXCEPT ![c] = @ + 1]
  /\ UNCHANGED <<asked, granted, outcome>>

Settle(c) ==
  /\ outcome[c] = "open" /\ runs[c] > 0
  /\ \E o \in {"completed", "failed"} : outcome' = [outcome EXCEPT ![c] = o]
  /\ UNCHANGED <<asked, granted, runs>>

Next == \E c \in Calls : Ask(c) \/ Grant(c) \/ Execute(c) \/ Settle(c)

Spec == Init /\ [][Next]_vars
=============================================================================
