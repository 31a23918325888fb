---------------------------- MODULE PlanLedger ----------------------------
(***************************************************************************)
(* What the Planner promises about a plan, whoever serves it: it goes on   *)
(* in one place at a time, an action that must be confirmed runs only      *)
(* right after a confirmation, each confirmation is good for one step, and *)
(* a plan that is over never comes back.                                   *)
(***************************************************************************)
EXTENDS Naturals

CONSTANT PlanIds

VARIABLES
  phase,     \* where each plan is
  runs,      \* how many steps of it reached an agent
  guarded    \* how many of those had to be confirmed

vars == <<phase, runs, guarded>>

PlanPhases == {"new", "going", "waiting", "approved", "over"}

Init ==
  /\ phase = [p \in PlanIds |-> "new"]
  /\ runs = [p \in PlanIds |-> 0]
  /\ guarded = [p \in PlanIds |-> 0]

Moves(p, from, to) ==
  /\ phase[p] = from
  /\ phase' = [phase EXCEPT ![p] = to]
  /\ UNCHANGED <<runs, guarded>>

Begin(p) == Moves(p, "new", "going")
Ask(p) == Moves(p, "going", "waiting")
Approve(p) == Moves(p, "waiting", "approved")

\* A step that needs no confirmation, or the one just approved.
RunFree(p) ==
  /\ phase[p] \in {"going", "approved"}
  /\ phase' = [phase EXCEPT ![p] = "going"]
  /\ runs' = [runs EXCEPT ![p] = @ + 1]
  /\ UNCHANGED guarded

RunGuarded(p) ==
  /\ phase[p] = "approved"
  /\ phase' = [phase EXCEPT ![p] = "going"]
  /\ runs' = [runs EXCEPT ![p] = @ + 1]
  /\ guarded' = [guarded EXCEPT ![p] = @ + 1]

\* Plans end one by one, or together when the process dies.
End(S) ==
  /\ phase' = [p \in PlanIds |-> IF p \in S THEN "over" ELSE phase[p]]
  /\ UNCHANGED <<runs, guarded>>

Next ==
  \/ \E p \in PlanIds : Begin(p) \/ Ask(p) \/ Approve(p) \/ RunFree(p) \/ RunGuarded(p)
  \/ \E S \in SUBSET PlanIds : End(S)

Spec == Init /\ [][Next]_vars
============================================================================
