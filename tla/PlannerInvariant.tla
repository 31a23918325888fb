------------------------- MODULE PlannerInvariant -------------------------
(***************************************************************************)
(* The inductive invariant behind the safety properties of the Planner: at *)
(* any time a plan has at most one holder, a request or a pending          *)
(* confirmation, and its holder knows exactly what was executed.           *)
(***************************************************************************)
EXTENDS Planner

Serving == {"interpret", "resolve", "ask", "dispatch", "running"}

\* A request that executes its plan.
Serves(r) == req[r].pc \in Serving

\* A request that still has to store the last exchange about its plan.
Closes(r) == req[r].pc = "remember" /\ ~req[r].needs /\ req[r].plan # 0

\* The first n runs of p succeeded, and there are no others.
RanWell(p, n) ==
  Len(ran[p]) = n /\ \A k \in 1..n : ran[p][k].outcome = "success"

\* A request in the loop has run what stands before its position, and the step
\* at its position too while that one runs.
ServingFacts(r) ==
  LET p == req[r].plan
  IN  /\ p # 0 /\ p < nextPlan
      /\ ~Over(p)
      /\ req[r].pos <= Len(plan[p]) + 1
      /\ req[r].pc = "interpret" => req[r].pos = 1 /\ req[r].approval = 0 /\ plan[p] = <<>>
      /\ req[r].pc \in {"ask", "dispatch", "running"} => req[r].pos <= Len(plan[p])
      /\ req[r].pc # "running" => RanWell(p, req[r].pos - 1)
      /\ req[r].pc = "running" =>
           /\ Len(ran[p]) = req[r].pos
           /\ \A k \in 1..(req[r].pos - 1) : ran[p][k].outcome = "success"

ServingInv == \A r \in Requests : Serves(r) => ServingFacts(r)

\* A pending confirmation holds the plan from the first step that has not run.
TicketFacts(t) ==
  /\ t.id <= issued
  /\ t.plan < nextPlan
  /\ ~Over(t.plan)
  /\ t.pos <= Len(plan[t.plan])
  /\ RanWell(t.plan, t.pos - 1)

TicketInv == \A t \in pending : TicketFacts(t)

\* The exchange a request is about to store is the first one about its plan.
ClosingFacts(r) ==
  /\ req[r].plan < nextPlan
  /\ remembered[req[r].plan] = <<>>
  /\ req[r].ok => RanWell(req[r].plan, Len(plan[req[r].plan]))

ClosingInv == \A r \in Requests : Closes(r) => ClosingFacts(r)

\* No plan has two holders.
OneHolder ==
  /\ \A r, q \in Requests :
       /\ Serves(r) \/ Closes(r)
       /\ Serves(q) \/ Closes(q)
       /\ req[r].plan = req[q].plan
       => r = q
  /\ \A r \in Requests : \A t \in pending :
       (Serves(r) \/ Closes(r)) => req[r].plan # t.plan
  /\ \A t, u \in pending : t.plan = u.plan \/ t.id = u.id => t = u

\* Plans that were not created yet are blank.
UnusedInv ==
  \A p \in PlanIds : p >= nextPlan =>
    /\ plan[p] = <<>> /\ ran[p] = <<>>
    /\ ~Over(p)

\* What each plan ran, and what was said about it.
HistoryInv ==
  /\ RunsFollowThePlan
  /\ StopsAtFirstFailure
  /\ SuccessMeansAllRan
  /\ EndsToldOnce

Spent(a) == \E p \in PlanIds : \E k \in 1..Len(ran[p]) : ran[p][k].approval = a

\* A request with an approval whose step has not been dispatched.
Granted(r) == req[r].pc \in {"resolve", "ask", "dispatch"} /\ req[r].approval # 0

\* An approval comes from a consumed confirmation, and is spent by at most one
\* run: the confirmations still pending, and the approvals of requests that have
\* not dispatched their step, are all different and unspent.
ApprovalInv ==
  /\ \A p \in PlanIds : \A k \in 1..Len(ran[p]) : ran[p][k].approval <= issued
  /\ \A t \in pending : ~Spent(t.id)
  /\ \A r \in Requests : Granted(r) =>
       /\ req[r].approval <= issued
       /\ ~Spent(req[r].approval)
       /\ \A t \in pending : t.id # req[r].approval
  /\ \A r, q \in Requests :
       Granted(r) /\ Granted(q) /\ req[r].approval = req[q].approval => r = q
  /\ ApprovalsRunOnce

\* A request past the check of its step without an approval can only reach an
\* agent that does not ask: plugins never ask, and a native agent that left the
\* registry comes back only with a restart.
UncheckedInv ==
  \A r \in Requests :
    req[r].pc = "dispatch" /\ req[r].approval = 0 =>
      <<agents[Step(r).agent], Step(r).action>> \notin Asks

\* The registry holds each agent under its own name.
RegistryInv ==
  \A n \in Names : agents[n] # NoAgent => AgentName[agents[n]] = n

NeedsInv == \A r \in Requests : req[r].needs => req[r].pc = "remember"

\* The inductive invariant.
IInv ==
  /\ TypeOK
  /\ ServingInv /\ TicketInv /\ ClosingInv /\ OneHolder /\ UnusedInv
  /\ HistoryInv /\ ApprovalInv /\ UncheckedInv /\ RegistryInv /\ NeedsInv
  /\ ConfirmedBeforeRun
============================================================================
