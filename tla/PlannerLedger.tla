--------------------------- MODULE PlannerLedger ---------------------------
(***************************************************************************)
(* The Planner implements PlanLedger: where a plan is follows from who     *)
(* holds it, a request or a pending confirmation.                          *)
(***************************************************************************)
EXTENDS PlannerInvariant

HeldBy(p) ==
  {r \in Requests : req[r].plan = p /\ req[r].pc \notin {"idle", "remember"}}

\* The step an approval covers has not reached its agent yet.
Approved(r) == req[r].approval # 0 /\ req[r].pc \in {"resolve", "dispatch"}

LedgerPhase ==
  [p \in PlanIds |->
     IF p >= nextPlan THEN "new"
     ELSE IF HeldBy(p) # {}
          THEN IF \E r \in HeldBy(p) : Approved(r) THEN "approved" ELSE "going"
     ELSE IF \E t \in pending : t.plan = p THEN "waiting"
     ELSE "over"]

LedgerRuns == [p \in PlanIds |-> Len(ran[p])]

LedgerGuarded ==
  [p \in PlanIds |->
     Cardinality({k \in 1..Len(ran[p]) : <<ran[p][k].agent, ran[p][k].action>> \in Asks})]

Ledger == INSTANCE PlanLedger WITH
  phase <- LedgerPhase, runs <- LedgerRuns, guarded <- LedgerGuarded

\* The Planner, its Redis and its AgentManager keep the promises of the ledger:
\* a plan is in one place at a time, asked and approved before what must be
\* confirmed runs, and over for good.
LedgerSpec == Ledger!Spec
============================================================================
