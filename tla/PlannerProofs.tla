--------------------------- MODULE PlannerProofs ---------------------------
(***************************************************************************)
(* Proofs about the Planner, for any number of requests, plans, steps,     *)
(* agents and plugins.                                                     *)
(***************************************************************************)
EXTENDS PlannerLedger, SequenceTheorems, FiniteSetTheorems, TLAPS

----------------------------------------------------------------------------
(* Type correctness. *)

\* The registry a process starts with holds native agents only.
LEMMA NativeAgentsType ==
  /\ NativeAgents \in [Names -> Agents \cup {NoAgent}]
  /\ \A n \in Names : NativeAgents[n] # NoAgent => AgentName[NativeAgents[n]] = n
<1> DEFINE At(n) == IF \E a \in Natives : AgentName[a] = n
                    THEN CHOOSE a \in Natives : AgentName[a] = n
                    ELSE NoAgent
<1>1. ASSUME NEW n \in Names
      PROVE  At(n) \in Agents \cup {NoAgent} /\ (At(n) # NoAgent => AgentName[At(n)] = n)
  <2>1. CASE \E a \in Natives : AgentName[a] = n
    <3>1. (CHOOSE a \in Natives : AgentName[a] = n) \in {a \in Natives : AgentName[a] = n}
      BY <2>1
    <3>2. QED BY <2>1, <3>1 DEF Agents
  <2>2. CASE ~\E a \in Natives : AgentName[a] = n
    BY <2>2
  <2>3. QED BY <2>1, <2>2
<1>2. NativeAgents = [n \in Names |-> At(n)]
  BY DEF NativeAgents
<1> HIDE DEF At
<1>3. QED BY <1>1, <1>2

LEMMA IdleType == Idle \in Request
BY BoundsAssumption DEF Idle, Request, Phases, PlanIds

\* Proposals are sequences of steps.
LEMMA ProposalsType == Proposals \subseteq Seq(Steps)
BY BoundsAssumption DEF Proposals

\* The step a request is at, when it is within its plan.
LEMMA StepType ==
  ASSUME TypeOK, NEW r \in Requests, req[r].plan # 0, ~AtEnd(r)
  PROVE  /\ req[r].plan \in PlanIds
         /\ Step(r) \in Steps
         /\ Step(r).agent \in Names /\ Step(r).action \in Actions
<1>1. req[r] \in Request
  BY DEF TypeOK
<1>2. req[r].plan \in PlanIds /\ req[r].pos \in Nat \ {0}
  BY <1>1, BoundsAssumption DEF Request, PlanIds
<1>3. plan[req[r].plan] \in Seq(Steps)
  BY <1>2 DEF TypeOK
<1>4. req[r].pos \in 1..Len(plan[req[r].plan])
  BY <1>2, <1>3 DEF AtEnd
<1>5. Step(r) \in Steps
  BY <1>3, <1>4 DEF Step
<1>6. QED BY <1>2, <1>5, BoundsAssumption

\* A recorded run is a record of the type it should have.
LEMMA RunType ==
  ASSUME TypeOK, NEW p \in PlanIds, NEW k \in 1..Len(ran[p])
  PROVE  /\ ran[p][k] \in Run
         /\ ran[p][k].approval \in Nat /\ ran[p][k].agent \in Agents
<1>1. ran[p] \in Seq(Run)
  BY DEF TypeOK
<1>2. ran[p][k] \in Run
  BY <1>1
<1>3. QED BY <1>2 DEF Run

\* What the announcements of a plan hold when there is none, and when there is one.
LEMMA EventsOf ==
  /\ Events(<<>>) = {} /\ Len(<<>>) = 0
  /\ \A ok : Events(<<ok>>) = {ok} /\ Len(<<ok>>) = 1
BY DEF Events

----------------------------------------------------------------------------
(* The inductive invariant.                                                *)

\* What IInv says of one request, with the types of its fields.
LEMMA RequestType ==
  ASSUME TypeOK, NEW r \in Requests
  PROVE  /\ req[r] \in Request
         /\ req[r].plan \in Nat /\ req[r].plan <= MaxPlans
         /\ req[r].plan # 0 => req[r].plan \in PlanIds
         /\ req[r].pos \in Nat \ {0} /\ req[r].approval \in Nat
         /\ req[r].ok \in BOOLEAN /\ req[r].needs \in BOOLEAN
         /\ req[r].tries \in Nat /\ req[r].pc \in Phases
<1>1. req[r] \in Request
  BY DEF TypeOK
<1>2. req[r].plan \in 0..MaxPlans /\ req[r].tries \in 0..(MaxIntentAttempts - 1)
  BY <1>1 DEF Request
<1>3. QED BY <1>1, <1>2, BoundsAssumption DEF Request, PlanIds

\* What recording the outcome of the last run of a plan leaves as it was.
LEMMA OutcomeKeeps ==
  ASSUME TypeOK, NEW p \in PlanIds, Len(ran[p]) \in Nat \ {0},
         NEW o \in Outcomes, Outcome(p, o)
  PROVE  /\ ran' \in [PlanIds -> Seq(Run)]
         /\ \A q \in PlanIds : q # p => ran'[q] = ran[q]
         /\ Len(ran'[p]) = Len(ran[p])
         /\ ran'[p][Len(ran[p])].outcome = o
         /\ \A k \in 1..Len(ran[p]) :
              /\ ran'[p][k].pos = ran[p][k].pos
              /\ ran'[p][k].agent = ran[p][k].agent
              /\ ran'[p][k].action = ran[p][k].action
              /\ ran'[p][k].approval = ran[p][k].approval
              /\ k < Len(ran[p]) => ran'[p][k].outcome = ran[p][k].outcome
<1>1. ran \in [PlanIds -> Seq(Run)] /\ ran[p] \in Seq(Run)
  BY DEF TypeOK
<1>2. Len(ran[p]) \in 1..Len(ran[p])
  BY <1>1
<1> DEFINE last == ran[p][Len(ran[p])]
           new == [last EXCEPT !.outcome = o]
<1>3. last \in Run
  BY <1>1, <1>2
<1>4. /\ new \in Run /\ new.pos = last.pos /\ new.agent = last.agent
      /\ new.action = last.action /\ new.approval = last.approval /\ new.outcome = o
  BY <1>3 DEF Run
<1>5. ran' = [ran EXCEPT ![p] = [ran[p] EXCEPT ![Len(ran[p])] = new]]
  BY DEF Outcome
<1> HIDE DEF new, last
<1>6. ran'[p] = [ran[p] EXCEPT ![Len(ran[p])] = new]
  BY <1>1, <1>5
<1>7. /\ ran'[p] \in Seq(Run) /\ Len(ran'[p]) = Len(ran[p])
      /\ \A k \in 1..Len(ran[p]) : ran'[p][k] = IF k = Len(ran[p]) THEN new ELSE ran[p][k]
  BY <1>1, <1>2, <1>4, <1>6
<1>8. ran' \in [PlanIds -> Seq(Run)] /\ \A q \in PlanIds : q # p => ran'[q] = ran[q]
  BY <1>1, <1>5, <1>6, <1>7
<1>9. ASSUME NEW k \in 1..Len(ran[p])
      PROVE  /\ ran'[p][k].pos = ran[p][k].pos
             /\ ran'[p][k].agent = ran[p][k].agent
             /\ ran'[p][k].action = ran[p][k].action
             /\ ran'[p][k].approval = ran[p][k].approval
             /\ k < Len(ran[p]) => ran'[p][k].outcome = ran[p][k].outcome
  <2>1. CASE k = Len(ran[p])
    BY <1>4, <1>7, <2>1 DEF last
  <2>2. CASE k # Len(ran[p])
    BY <1>7, <2>2
  <2> QED BY <2>1, <2>2
<1> QED BY <1>2, <1>4, <1>7, <1>8, <1>9

\* What a step that ends the service of a request does: the request keeps its
\* result, the plan may be announced, and its running step, if any, gets its
\* outcome.
LeavesService(r) ==
  LET p == req[r].plan
  IN  /\ Serves(r)
      /\ req' \in [Requests -> Request]
      /\ \A q \in Requests : q # r => req'[q] = req[q]
      /\ req'[r].pc = "remember" /\ ~req'[r].needs
      /\ req'[r].plan \in {0, p}
      /\ req'[r].ok => RanWell(p, Len(plan[p])) /\ ran' = ran
      /\ issued' \in {issued, issued + 1}
      /\ \/ announced' = announced
         \/ \E ok \in BOOLEAN :
              /\ announced' = [announced EXCEPT ![p] = Append(@, ok)]
              /\ ok => RanWell(p, Len(plan[p])) /\ ran' = ran
      /\ \/ ran' = ran
         \/ /\ req[r].pc = "running"
            /\ \E o \in Outcomes : Outcome(p, o)
      /\ UNCHANGED <<agents, pending, nextPlan, plan, remembered, rejected>>

LEMMA LeavesServiceInv ==
  ASSUME IInv, NEW r \in Requests, LeavesService(r)
  PROVE  IInv'
<1> DEFINE p == req[r].plan
           \* The histories change at p only, where a run may get its outcome.
           Kept ==
             /\ \A q \in PlanIds : q # p => ran'[q] = ran[q] /\ announced'[q] = announced[q]
             /\ ran' \in [PlanIds -> Seq(Run)] /\ announced' \in [PlanIds -> Seq(BOOLEAN)]
             /\ Len(ran'[p]) = Len(ran[p])
             /\ \A k \in 1..Len(ran[p]) :
                  /\ ran'[p][k].pos = ran[p][k].pos
                  /\ ran'[p][k].agent = ran[p][k].agent
                  /\ ran'[p][k].action = ran[p][k].action
                  /\ ran'[p][k].approval = ran[p][k].approval
                  /\ k < Len(ran[p]) => ran'[p][k].outcome = ran[p][k].outcome
<1>1. /\ TypeOK /\ p \in PlanIds /\ p < nextPlan /\ ~Over(p) /\ Serves(r)
      /\ req[r].pos \in Nat \ {0}
  BY RequestType DEF IInv, ServingInv, ServingFacts, LeavesService
<1>2. Kept
  <2>1. ran \in [PlanIds -> Seq(Run)] /\ announced \in [PlanIds -> Seq(BOOLEAN)]
    BY <1>1 DEF TypeOK
  <2>2. announced' \in [PlanIds -> Seq(BOOLEAN)] /\ \A q \in PlanIds : q # p => announced'[q] = announced[q]
    <3>1. CASE announced' = announced
      BY <2>1, <3>1
    <3>2. ASSUME NEW ok \in BOOLEAN, announced' = [announced EXCEPT ![p] = Append(@, ok)]
          PROVE  /\ announced' \in [PlanIds -> Seq(BOOLEAN)]
                 /\ \A q \in PlanIds : q # p => announced'[q] = announced[q]
      <4>1. Append(announced[p], ok) \in Seq(BOOLEAN)
        BY <1>1, <2>1, AppendProperties
      <4> QED BY <1>1, <2>1, <3>2, <4>1
    <3> QED BY <3>1, <3>2 DEF LeavesService
  <2>3. CASE ran' = ran
    BY <2>1, <2>2, <2>3
  <2>4. ASSUME req[r].pc = "running", NEW o \in Outcomes, Outcome(p, o)
        PROVE  Kept
    <3>1. Len(ran[p]) = req[r].pos
      BY <1>1, <2>4 DEF IInv, ServingInv, ServingFacts
    <3> QED BY <1>1, <2>2, <2>4, <3>1, OutcomeKeeps
  <2> QED BY <2>3, <2>4 DEF LeavesService
<1>4. TypeOK'
  BY <1>1, <1>2 DEF LeavesService, TypeOK
<1>5. ServingInv'
  <2> SUFFICES ASSUME NEW q \in Requests, Serves(q)'
               PROVE  ServingFacts(q)'
    BY DEF ServingInv
  <2>1. q # r /\ req'[q] = req[q] /\ Serves(q)
    BY DEF LeavesService, Serves, Serving
  <2>2. req[q].plan # p /\ req[q].plan \in PlanIds
    BY <1>1, <2>1, RequestType DEF IInv, OneHolder, ServingInv, ServingFacts
  <2>3. ran'[req[q].plan] = ran[req[q].plan] /\ announced'[req[q].plan] = announced[req[q].plan]
    BY <1>2, <2>2
  <2> QED BY <2>1, <2>2, <2>3 DEF IInv, ServingInv, ServingFacts, LeavesService, Over, RanWell
<1>6. TicketInv'
  <2> SUFFICES ASSUME NEW t \in pending
               PROVE  TicketFacts(t)'
    BY DEF TicketInv, LeavesService
  <2>1. t.plan # p /\ t.plan \in PlanIds /\ TicketFacts(t) /\ t.id \in Nat
    BY <1>1 DEF IInv, OneHolder, TicketInv, TypeOK, Ticket
  <2>2. issued \in Nat
    BY <1>1 DEF TypeOK
  <2>3. ran'[t.plan] = ran[t.plan] /\ announced'[t.plan] = announced[t.plan]
    BY <1>2, <2>1
  <2>4. t.id <= issued'
    BY <2>1, <2>2 DEF TicketFacts, LeavesService
  <2> QED BY <2>1, <2>3, <2>4 DEF TicketFacts, LeavesService, Over, RanWell
<1>7. ClosingInv'
  <2> SUFFICES ASSUME NEW q \in Requests, Closes(q)'
               PROVE  ClosingFacts(q)'
    BY DEF ClosingInv
  <2>1. CASE q = r
    <3>1. req'[r].plan = p
      BY <2>1 DEF Closes, LeavesService
    <3>2. remembered[p] = <<>>
      BY <1>1 DEF Over
    <3> QED BY <1>1, <2>1, <3>1, <3>2 DEF ClosingFacts, LeavesService, RanWell
  <2>2. CASE q # r
    <3>1. req'[q] = req[q] /\ Closes(q) /\ req[q].plan \in PlanIds
      BY <1>1, <2>2, RequestType DEF LeavesService, Closes
    <3>2. req[q].plan # p /\ ClosingFacts(q)
      BY <1>1, <2>2, <3>1 DEF IInv, OneHolder, ClosingInv
    <3>3. ran'[req[q].plan] = ran[req[q].plan]
      BY <1>2, <3>1, <3>2
    <3> QED BY <3>1, <3>2, <3>3 DEF ClosingFacts, LeavesService, RanWell
  <2>3. QED BY <2>1, <2>2
<1>8. OneHolder'
  <2>1. \A q \in Requests : (Serves(q) \/ Closes(q))' =>
          (Serves(q) \/ Closes(q)) /\ req'[q].plan = req[q].plan
    BY <1>1 DEF LeavesService, Serves, Closes, Serving
  <2> QED BY <2>1 DEF IInv, LeavesService, OneHolder
<1>9. UnusedInv'
  <2> SUFFICES ASSUME NEW q \in PlanIds, q >= nextPlan
               PROVE  plan[q] = <<>> /\ ran'[q] = <<>> /\ ~Over(q)'
    BY DEF UnusedInv, LeavesService
  <2>1. q # p
    BY <1>1, BoundsAssumption DEF TypeOK, PlanIds
  <2> QED BY <1>2, <2>1 DEF IInv, UnusedInv, Over, LeavesService
<1>10. HistoryInv'
  <2>1. HistoryInv /\ ran \in [PlanIds -> Seq(Run)] /\ plan \in [PlanIds -> Seq(Steps)]
    BY <1>1 DEF IInv, TypeOK
  <2>2. RunsFollowThePlan' /\ StopsAtFirstFailure'
    <3> SUFFICES ASSUME NEW q \in PlanIds
                 PROVE  /\ Len(ran'[q]) <= Len(plan[q])
                        /\ \A k \in 1..Len(ran'[q]) :
                             /\ ran'[q][k].pos = k
                             /\ ran'[q][k].action = plan[q][k].action
                             /\ AgentName[ran'[q][k].agent] = plan[q][k].agent
                             /\ k < Len(ran'[q]) => ran'[q][k].outcome = "success"
      BY DEF RunsFollowThePlan, StopsAtFirstFailure, LeavesService
    <3>1. CASE q = p
      <4>1. Len(ran'[p]) = Len(ran[p]) /\ Len(ran[p]) <= Len(plan[p])
        BY <1>1, <1>2, <2>1 DEF HistoryInv, RunsFollowThePlan
      <4>2. ASSUME NEW k \in 1..Len(ran[p])
            PROVE  /\ ran'[p][k].pos = k
                   /\ ran'[p][k].action = plan[p][k].action
                   /\ AgentName[ran'[p][k].agent] = plan[p][k].agent
                   /\ k < Len(ran[p]) => ran'[p][k].outcome = "success"
        <5>1. /\ ran[p][k].pos = k /\ ran[p][k].action = plan[p][k].action
              /\ AgentName[ran[p][k].agent] = plan[p][k].agent
              /\ k < Len(ran[p]) => ran[p][k].outcome = "success"
          BY <1>1, <2>1 DEF HistoryInv, RunsFollowThePlan, StopsAtFirstFailure
        <5> QED BY <1>2, <5>1
      <4> QED BY <3>1, <4>1, <4>2
    <3>2. CASE q # p
      BY <1>2, <2>1, <3>2 DEF HistoryInv, RunsFollowThePlan, StopsAtFirstFailure
    <3> QED BY <3>1, <3>2
  <2>3. announced[p] = <<>> /\ remembered[p] = <<>>
    BY <1>1 DEF Over
  <2>4. announced'[p] = <<>> \/ \E ok \in BOOLEAN :
          announced'[p] = <<ok>> /\ (ok => RanWell(p, Len(plan[p])) /\ ran' = ran)
    <3>1. announced \in [PlanIds -> Seq(BOOLEAN)]
      BY <1>1 DEF TypeOK
    <3> QED BY <1>1, <2>3, <3>1 DEF LeavesService
  <2>5. SuccessMeansAllRan'
    <3> SUFFICES ASSUME NEW q \in PlanIds,
                        TRUE \in Events(announced'[q]) \cup Events(remembered[q])
                 PROVE  /\ Len(ran'[q]) = Len(plan[q])
                        /\ \A k \in 1..Len(ran'[q]) : ran'[q][k].outcome = "success"
      BY DEF SuccessMeansAllRan, LeavesService, Events
    <3>1. CASE q = p
      <4>1. TRUE \in Events(announced'[p])
        BY <2>3, <3>1, EventsOf
      <4>2. RanWell(p, Len(plan[p])) /\ ran' = ran
        BY <2>4, <4>1, EventsOf
      <4> QED BY <3>1, <4>2 DEF RanWell
    <3>2. CASE q # p
      <4>1. ran'[q] = ran[q] /\ announced'[q] = announced[q]
        BY <1>2, <3>2
      <4> QED BY <2>1, <4>1 DEF HistoryInv, SuccessMeansAllRan
    <3> QED BY <3>1, <3>2
  <2>6. EndsToldOnce'
    <3> SUFFICES ASSUME NEW q \in PlanIds
                 PROVE  Len(announced'[q]) <= 1 /\ Len(remembered[q]) <= 1
      BY DEF EndsToldOnce, LeavesService
    <3>1. Len(announced[q]) <= 1 /\ Len(remembered[q]) <= 1
      BY <2>1 DEF HistoryInv, EndsToldOnce
    <3>2. Len(announced'[p]) <= 1
      <4>1. Len(announced'[p]) = 0 \/ Len(announced'[p]) = 1
        BY <2>4, EventsOf, Zenon
      <4>2. 0 <= 1 /\ 1 <= 1
        OBVIOUS
      <4> QED BY <4>1, <4>2, Zenon
    <3> QED BY <1>2, <3>1, <3>2
  <2> QED BY <2>2, <2>5, <2>6 DEF HistoryInv
<1>11. ApprovalInv'
  <2>1. \A q \in PlanIds : /\ Len(ran'[q]) = Len(ran[q])
                           /\ \A k \in 1..Len(ran[q]) : ran'[q][k].approval = ran[q][k].approval
    BY <1>1, <1>2
  <2>2. \A a : Spent(a)' <=> Spent(a)
    BY <2>1 DEF Spent
  <2>3. \A q \in Requests : Granted(q)' => Granted(q) /\ req'[q].approval = req[q].approval
    BY DEF Granted, LeavesService
  <2>4. ApprovalsRunOnce'
    <3> SUFFICES ASSUME NEW q \in PlanIds, NEW s \in PlanIds,
                        NEW k \in 1..Len(ran[q]), NEW l \in 1..Len(ran[s]),
                        ran'[q][k].approval # 0,
                        ran'[q][k].approval = ran'[s][l].approval
                 PROVE  q = s /\ k = l
      BY <2>1 DEF ApprovalsRunOnce
    <3>1. ran[q][k].approval # 0 /\ ran[q][k].approval = ran[s][l].approval
      BY <2>1
    <3> QED BY <3>1 DEF IInv, ApprovalInv, ApprovalsRunOnce
  <2>5. \A q \in PlanIds : \A k \in 1..Len(ran[q]) : ran[q][k].approval \in Nat
    BY <1>1, RunType
  <2>6. \A q \in PlanIds : \A k \in 1..Len(ran'[q]) : ran'[q][k].approval <= issued'
    <3> SUFFICES ASSUME NEW q \in PlanIds, NEW k \in 1..Len(ran[q])
                 PROVE  ran'[q][k].approval <= issued'
      BY <2>1
    <3>1. ran[q][k].approval <= issued /\ issued \in Nat
      BY <1>1 DEF IInv, ApprovalInv, TypeOK
    <3> QED BY <2>1, <2>5, <3>1 DEF LeavesService
  <2>7. \A t \in pending' : ~Spent(t.id)'
    BY <2>2 DEF IInv, ApprovalInv, LeavesService
  <2>8. \A q \in Requests : Granted(q)' =>
          (/\ req[q].approval <= issued
           /\ ~Spent(req[q].approval)
           /\ \A t \in pending : t.id # req[q].approval)'
    <3> SUFFICES ASSUME NEW q \in Requests, Granted(q)'
                 PROVE  (/\ req[q].approval <= issued
                         /\ ~Spent(req[q].approval)
                         /\ \A t \in pending : t.id # req[q].approval)'
      OBVIOUS
    <3>1. req[q].approval \in Nat /\ issued \in Nat
      BY <1>1, RequestType DEF TypeOK
    <3> QED BY <2>2, <2>3, <3>1 DEF IInv, ApprovalInv, LeavesService
  <2>9. \A q, s \in Requests :
          Granted(q)' /\ Granted(s)' /\ req'[q].approval = req'[s].approval => q = s
    BY <2>3 DEF IInv, ApprovalInv
  <2> QED BY <2>4, <2>6, <2>7, <2>8, <2>9 DEF ApprovalInv
<1>12. UncheckedInv' /\ RegistryInv'
  BY DEF IInv, LeavesService, UncheckedInv, RegistryInv, Step
<1>13. NeedsInv'
  BY <1>1 DEF IInv, LeavesService, NeedsInv
<1>14. ConfirmedBeforeRun'
  <2> SUFFICES ASSUME NEW q \in PlanIds, NEW k \in 1..Len(ran'[q]),
                      <<ran'[q][k].agent, ran'[q][k].action>> \in Asks
               PROVE  ran'[q][k].approval # 0
    BY DEF ConfirmedBeforeRun
  <2>1. ConfirmedBeforeRun
    BY DEF IInv
  <2>2. /\ k \in 1..Len(ran[q])
        /\ ran'[q][k].agent = ran[q][k].agent /\ ran'[q][k].action = ran[q][k].action
        /\ ran'[q][k].approval = ran[q][k].approval
    <3>1. CASE q = p
      BY <1>2, <3>1
    <3>2. CASE q # p
      BY <1>2, <3>2
    <3> QED BY <3>1, <3>2
  <2> QED BY <2>1, <2>2 DEF ConfirmedBeforeRun
<1> QED BY <1>4, <1>5, <1>6, <1>7, <1>8, <1>9, <1>10, <1>11, <1>12, <1>13,
     <1>14
     DEF IInv

\* The ways a request leaves its service.
Leaves(r) ==
  \/ LlmRaises(r)
  \/ LlmUnparsable(r) /\ req'[r].pc = "remember"
  \/ LlmProposes(r) /\ req'[r].pc = "remember"
  \/ PlanCompleted(r) \/ AgentUnknown(r)
  \/ StepMustBeConfirmed(r) /\ req'[r].pc = "remember"
  \/ StoreConfirmationRaises(r)
  \/ DispatchRefused(r) \/ StepFails(r) \/ StepRaises(r) \/ CallRaises(r)

\* Answers changes the result of one request.
LEMMA AnswersChange ==
  ASSUME TypeOK, NEW r \in Requests, NEW p \in 0..MaxPlans, NEW ok \in BOOLEAN,
         Answers(r, p, ok) \/ (AnswersNothingRan(r, p) /\ ok = FALSE)
  PROVE  /\ req' \in [Requests -> Request]
         /\ \A q \in Requests : q # r => req'[q] = req[q]
         /\ req'[r].pc = "remember" /\ req'[r].plan = p /\ req'[r].ok = ok
         /\ req'[r].needs = req[r].needs
<1>1. req \in [Requests -> Request] /\ req[r] \in Request
  BY DEF TypeOK
<1>2. CASE Answers(r, p, ok)
  <2> DEFINE new == [req[r] EXCEPT !.pc = "remember", !.plan = p, !.ok = ok]
  <2>1. new \in Request /\ new.pc = "remember" /\ new.plan = p /\ new.ok = ok /\ new.needs = req[r].needs
    BY <1>1 DEF Request, Phases
  <2>2. req' = [req EXCEPT ![r] = new]
    BY <1>2 DEF Answers
  <2> HIDE DEF new
  <2> QED BY <1>1, <2>1, <2>2
<1>3. CASE AnswersNothingRan(r, p) /\ ok = FALSE
  <2> DEFINE new == [req[r] EXCEPT !.pc = "remember", !.plan = p, !.ok = FALSE, !.nothing = TRUE]
  <2>1. new \in Request /\ new.pc = "remember" /\ new.plan = p /\ new.ok = ok /\ new.needs = req[r].needs
    BY <1>1, <1>3 DEF Request, Phases
  <2>2. req' = [req EXCEPT ![r] = new]
    BY <1>3 DEF AnswersNothingRan
  <2> HIDE DEF new
  <2> QED BY <1>1, <2>1, <2>2
<1> QED BY <1>2, <1>3

LEMMA LeavesIsLeavesService ==
  ASSUME IInv, NEW r \in Requests, Leaves(r)
  PROVE  LeavesService(r)
<1> DEFINE p == req[r].plan
<1>1. TypeOK /\ Serves(r) /\ issued \in Nat /\ ~req[r].needs
  <2>1. Serves(r)
    BY DEF Leaves, LlmRaises, LlmUnparsable, LlmProposes, PlanCompleted, AgentUnknown,
           StepMustBeConfirmed, StoreConfirmationRaises, DispatchRefused, StepFails,
           StepRaises, CallRaises, Serves, Serving
  <2> QED BY <2>1 DEF IInv, NeedsInv, TypeOK, Serves, Serving
<1>2. p \in PlanIds /\ p \in 0..MaxPlans /\ 0 \in 0..MaxPlans /\ ServingFacts(r)
  BY <1>1, RequestType, BoundsAssumption DEF IInv, ServingInv, ServingFacts, PlanIds
<1> DEFINE Kept == UNCHANGED <<agents, pending, nextPlan, plan, remembered, rejected>>
<1>3. ASSUME NEW a \in {0, p}, Answers(r, a, FALSE) \/ AnswersNothingRan(r, a), Kept,
             issued' \in {issued, issued + 1},
             announced' = announced \/ announced' = [announced EXCEPT ![p] = Append(@, FALSE)],
             \/ ran' = ran
             \/ req[r].pc = "running" /\ \E o \in Outcomes : Outcome(p, o)
      PROVE  LeavesService(r)
  <2>1. /\ req' \in [Requests -> Request]
        /\ \A q \in Requests : q # r => req'[q] = req[q]
        /\ req'[r].pc = "remember" /\ req'[r].plan = a /\ req'[r].ok = FALSE
        /\ req'[r].needs = req[r].needs
    BY <1>1, <1>2, <1>3, AnswersChange
  <2> QED BY <1>1, <1>3, <2>1 DEF LeavesService
<1>4. CASE LlmRaises(r)
  BY <1>3, <1>4 DEF LlmRaises, histories
<1>5. CASE LlmUnparsable(r) /\ req'[r].pc = "remember"
  <2>1. Answers(r, p, FALSE)
    <3>1. req[r].pc = "interpret" /\ req \in [Requests -> Request]
      BY <1>1, <1>5 DEF LlmUnparsable, TypeOK
    <3>2. req' # [req EXCEPT ![r].tries = @ + 1]
      BY <1>5, <3>1 DEF Request
    <3> QED BY <1>5, <3>2 DEF LlmUnparsable, RetryIntent
  <2> QED BY <1>3, <1>5, <2>1 DEF LlmUnparsable, histories
<1>6. CASE LlmProposes(r) /\ req'[r].pc = "remember"
  <2>1. PICK steps \in Proposals :
          /\ plan' = [plan EXCEPT ![p] = steps]
          /\ IF steps = <<>> THEN Answers(r, p, FALSE)
                             ELSE req' = [req EXCEPT ![r].pc = "resolve"]
    BY <1>6 DEF LlmProposes
  <2>2. steps = <<>> /\ Answers(r, p, FALSE)
    <3>1. req \in [Requests -> Request]
      BY <1>1 DEF TypeOK
    <3>2. req' # [req EXCEPT ![r].pc = "resolve"]
      BY <1>6, <3>1 DEF Request
    <3> QED BY <2>1, <3>2
  <2>3. plan' = plan
    <3>1. plan[p] = <<>> /\ plan \in [PlanIds -> Seq(Steps)]
      BY <1>1, <1>2, <1>6 DEF LlmProposes, ServingFacts, TypeOK
    <3> QED BY <1>2, <2>1, <2>2, <3>1
  <2> QED BY <1>3, <1>6, <2>2, <2>3 DEF LlmProposes, histories
<1>7. CASE PlanCompleted(r)
  <2>1. RanWell(p, Len(plan[p]))
    <3>1. req[r].pos \in Nat /\ Len(plan[p]) \in Nat
      BY <1>1, <1>2, RequestType DEF TypeOK
    <3>2. req[r].pos - 1 = Len(plan[p])
      BY <1>2, <1>7, <3>1 DEF PlanCompleted, AtEnd, ServingFacts
    <3>3. RanWell(p, req[r].pos - 1)
      BY <1>2, <1>7 DEF PlanCompleted, ServingFacts
    <3> QED BY <3>2, <3>3
  <2>2. /\ req' \in [Requests -> Request]
        /\ \A q \in Requests : q # r => req'[q] = req[q]
        /\ req'[r].pc = "remember" /\ req'[r].plan = p /\ req'[r].ok = TRUE
        /\ req'[r].needs = req[r].needs
    BY <1>1, <1>2, <1>7, AnswersChange DEF PlanCompleted
  <2> QED BY <1>1, <1>7, <2>1, <2>2 DEF PlanCompleted, LeavesService, Announce
<1>8. CASE AgentUnknown(r)
  BY <1>3, <1>8 DEF AgentUnknown, Announce
<1>9. CASE StepMustBeConfirmed(r) /\ req'[r].pc = "remember"
  <2>1. AnswersNothingRan(r, p)
    <3>1. req \in [Requests -> Request]
      BY <1>1 DEF TypeOK
    <3>2. req' # [req EXCEPT ![r].pc = "ask"]
      BY <1>9, <3>1 DEF Request
    <3> QED BY <1>9, <3>2 DEF StepMustBeConfirmed
  <2> QED BY <1>3, <1>9, <2>1 DEF StepMustBeConfirmed, histories
<1>10. CASE StoreConfirmationRaises(r)
  BY <1>3, <1>10 DEF StoreConfirmationRaises, histories
<1>11. CASE DispatchRefused(r)
  BY <1>3, <1>11 DEF DispatchRefused, Announce
<1>12. CASE StepFails(r)
  BY <1>3, <1>12 DEF StepFails, AbortPlan, Announce, Outcomes
<1>13. CASE StepRaises(r)
  BY <1>3, <1>13 DEF StepRaises, Outcomes
<1>14. CASE CallRaises(r)
  BY <1>3, <1>14 DEF CallRaises, histories
<1> QED BY <1>4, <1>5, <1>6, <1>7, <1>8, <1>9, <1>10, <1>11, <1>12, <1>13, <1>14
     DEF Leaves

----------------------------------------------------------------------------
(* Steps that give up holders and record nothing.                          *)

\* Requests stop holding their plan, pending confirmations disappear, and the
\* registry changes without turning an unchecked step into one that asks.
Releases ==
  /\ req' \in [Requests -> Request]
  /\ \A q \in Requests :
       \/ req'[q] = req[q]
       \/ ~Serves(q)' /\ ~Closes(q)' /\ ~req'[q].needs
  /\ pending' \subseteq pending
  /\ agents' \in [Names -> Agents \cup {NoAgent}]
  /\ UncheckedInv' /\ RegistryInv'
  /\ UNCHANGED <<issued, nextPlan, plan, ran, announced, remembered, rejected>>

LEMMA ReleasesInv ==
  ASSUME IInv, Releases
  PROVE  IInv'
<1>1. TypeOK
  BY DEF IInv
<1>2. TypeOK'
  BY <1>1 DEF TypeOK, Releases
<1>3. \A q \in Requests : (Serves(q) \/ Closes(q))' =>
        req'[q] = req[q] /\ (Serves(q) \/ Closes(q))
  BY DEF Releases, Serves, Closes
<1>4. ServingInv'
  <2> SUFFICES ASSUME NEW q \in Requests, Serves(q)'
               PROVE  ServingFacts(q)'
    BY DEF ServingInv
  <2>1. req'[q] = req[q] /\ Serves(q)
    BY <1>3 DEF Serves
  <2>2. ServingFacts(q) /\ req[q].plan \in PlanIds
    BY <1>1, <2>1, RequestType DEF IInv, ServingInv, ServingFacts
  <2>3. ~Over(req[q].plan)'
    BY <2>1, <2>2 DEF Over, Releases, ServingFacts
  <2> QED BY <2>1, <2>2, <2>3 DEF ServingFacts, Releases, RanWell
<1>5. TicketInv'
  <2> SUFFICES ASSUME NEW t \in pending'
               PROVE  TicketFacts(t)'
    BY DEF TicketInv
  <2>1. t \in pending /\ TicketFacts(t) /\ t.plan \in PlanIds
    BY <1>1 DEF Releases, IInv, TicketInv, TypeOK, Ticket
  <2>2. ~Over(t.plan)'
    BY <2>1 DEF Over, Releases, TicketFacts
  <2> QED BY <2>1, <2>2 DEF TicketFacts, Releases, RanWell
<1>6. ClosingInv'
  <2> SUFFICES ASSUME NEW q \in Requests, Closes(q)'
               PROVE  ClosingFacts(q)'
    BY DEF ClosingInv
  <2>1. req'[q] = req[q] /\ Closes(q)
    BY DEF Releases, Closes
  <2> QED BY <2>1 DEF IInv, ClosingInv, ClosingFacts, Releases, RanWell
<1>7. OneHolder'
  BY <1>3 DEF IInv, OneHolder, Releases
<1>8. UnusedInv'
  BY DEF IInv, UnusedInv, Over, Releases
<1>9. HistoryInv' /\ ConfirmedBeforeRun'
  BY DEF IInv, HistoryInv, RunsFollowThePlan, StopsAtFirstFailure, SuccessMeansAllRan,
         EndsToldOnce, Events, ConfirmedBeforeRun, Releases
<1>10. ApprovalInv'
  <2>1. \A a : Spent(a)' <=> Spent(a)
    BY DEF Spent, Releases
  <2>2. \A q \in Requests : Granted(q)' => Granted(q) /\ req'[q] = req[q]
    BY DEF Granted, Releases, Serves, Serving
  <2> QED BY <2>1, <2>2 DEF IInv, ApprovalInv, ApprovalsRunOnce, Releases
<1>11. NeedsInv'
  BY DEF IInv, NeedsInv, Releases
<1> QED BY <1>2, <1>4, <1>5, <1>6, <1>7, <1>8, <1>9, <1>10, <1>11 DEF IInv, Releases

\* The steps that only release holders, and stuttering.
LEMMA ReleasingSteps ==
  ASSUME IInv,
         \/ \E r \in Requests : \/ ConfirmUnknown(r)
                                \/ \E t \in pending : ConfirmRaises(r, t)
         \/ \E r \in Requests : Remember(r) /\ UNCHANGED remembered
         \/ Environment
         \/ UNCHANGED vars
  PROVE  Releases
<1>1. TypeOK /\ UncheckedInv /\ RegistryInv /\ req \in [Requests -> Request] /\ 0 \in 0..MaxPlans
  BY BoundsAssumption DEF IInv, TypeOK
<1> DEFINE Same == UNCHANGED <<issued, nextPlan, plan, ran, announced, remembered, rejected>>
<1>2. ASSUME NEW r \in Requests, req[r].pc = "idle",
             Answers(r, 0, FALSE) \/ AnswersNothingRan(r, 0),
             pending' \subseteq pending, UNCHANGED agents, Same
      PROVE  Releases
  <2>1. /\ req' \in [Requests -> Request]
        /\ \A q \in Requests : q # r => req'[q] = req[q]
        /\ req'[r].pc = "remember" /\ req'[r].plan = 0
        /\ req'[r].needs = req[r].needs
    BY <1>1, <1>2, AnswersChange
  <2>2. ~req[r].needs
    BY <1>2 DEF IInv, NeedsInv
  <2>3. ~Serves(r)' /\ ~Closes(r)'
    BY <1>2, <2>1 DEF Serves, Serving, Closes
  <2>4. UncheckedInv' /\ RegistryInv'
    BY <1>1, <1>2, <2>1 DEF UncheckedInv, RegistryInv, Step
  <2> QED BY <1>1, <1>2, <2>1, <2>2, <2>3, <2>4 DEF Releases, TypeOK
<1>3. ASSUME NEW r \in Requests, ConfirmUnknown(r)
      PROVE  Releases
  BY <1>1, <1>2, <1>3 DEF ConfirmUnknown, histories
<1>4. ASSUME NEW r \in Requests, NEW t \in pending, ConfirmRaises(r, t)
      PROVE  Releases
  BY <1>1, <1>2, <1>4 DEF ConfirmRaises, ConsumeTicket, histories
<1>5. ASSUME NEW r \in Requests, Remember(r), UNCHANGED remembered
      PROVE  Releases
  <2>1. req' = [req EXCEPT ![r] = Idle]
    BY <1>5 DEF Remember
  <2>2. req' \in [Requests -> Request] /\ req'[r] = Idle /\ \A q \in Requests : q # r => req'[q] = req[q]
    BY <1>1, <2>1, IdleType
  <2>3. ~Serves(r)' /\ ~Closes(r)' /\ ~req'[r].needs
    BY <2>2 DEF Serves, Serving, Closes, Idle
  <2>4. UncheckedInv' /\ RegistryInv'
    BY <1>1, <1>5, <2>2 DEF UncheckedInv, RegistryInv, Step, Idle, Remember
  <2> QED BY <1>1, <1>5, <2>2, <2>3, <2>4 DEF Releases, Remember, TypeOK
<1>6. CASE Restart
  <2>1. \A q \in Requests : req'[q] = Idle
    BY <1>6 DEF Restart
  <2>2. req' \in [Requests -> Request]
    BY <1>6, IdleType DEF Restart
  <2>3. \A q \in Requests : ~Serves(q)' /\ ~Closes(q)' /\ ~req'[q].needs
    BY <2>1 DEF Serves, Serving, Closes, Idle
  <2>4. UncheckedInv' /\ RegistryInv'
    BY <1>6, <2>1, NativeAgentsType DEF UncheckedInv, RegistryInv, Idle, Restart
  <2> QED BY <1>1, <1>6, <2>2, <2>3, <2>4, NativeAgentsType DEF Restart, Releases, TypeOK, histories
<1>7. ASSUME NEW t \in pending, Expire(t)
      PROVE  Releases
  BY <1>1, <1>7 DEF Expire, Releases, UncheckedInv, RegistryInv, Step, TypeOK, histories
<1>8. ASSUME NEW n \in Names, NEW a \in PluginAgents \cup {NoAgent},
             agents' = [agents EXCEPT ![n] = a], a # NoAgent => AgentName[a] = n,
             UNCHANGED <<pending, issued, nextPlan, plan, req, histories>>
      PROVE  Releases
  <2>1. agents \in [Names -> Agents \cup {NoAgent}] /\ a \in Agents \cup {NoAgent}
    BY <1>1 DEF TypeOK, Agents
  <2>2. \A act : <<a, act>> \notin Asks
    BY AgentsAssumption DEF Agents
  <2>3. UncheckedInv'
    <3> SUFFICES ASSUME NEW q \in Requests, req[q].pc = "dispatch", req[q].approval = 0
                 PROVE  <<agents'[Step(q).agent], Step(q).action>> \notin Asks
      BY <1>8 DEF UncheckedInv, RegistryInv, Step
    <3>1. ~AtEnd(q) /\ req[q].plan # 0
      <4>1. ServingFacts(q) /\ req[q].pos \in Nat \ {0}
        BY <1>1, RequestType DEF IInv, ServingInv, Serves, Serving
      <4>2. plan[req[q].plan] \in Seq(Steps)
        BY <1>1, <4>1, RequestType DEF ServingFacts, TypeOK
      <4> QED BY <4>1, <4>2 DEF ServingFacts, AtEnd
    <3>2. Step(q).agent \in Names
      BY <1>1, <3>1, StepType
    <3>3. CASE Step(q).agent = n
      BY <1>8, <2>1, <2>2, <3>2, <3>3
    <3>4. CASE Step(q).agent # n
      BY <1>1, <1>8, <2>1, <3>2, <3>4 DEF UncheckedInv
    <3> QED BY <3>3, <3>4
  <2>4. RegistryInv'
    BY <1>1, <1>8, <2>1 DEF RegistryInv
  <2> QED BY <1>1, <1>8, <2>1, <2>3, <2>4 DEF Releases, TypeOK, histories
<1>9. ASSUME NEW a \in PluginAgents, Register(a) \/ Unregister(AgentName[a])
      PROVE  Releases
  <2>1. AgentName[a] \in Names
    BY AgentsAssumption DEF Agents
  <2> QED BY <1>8, <1>9, <2>1 DEF Register, Unregister
<1>10. CASE UNCHANGED vars
  BY <1>1, <1>10 DEF vars, Releases, UncheckedInv, RegistryInv, Step, TypeOK, histories
<1> QED BY <1>3, <1>4, <1>5, <1>6, <1>7, <1>9, <1>10 DEF Environment

----------------------------------------------------------------------------
(* Steps within the service of a request that record nothing.              *)

\* The request goes on with the same plan, position and approval.
Moves(r) ==
  /\ Serves(r) /\ Serves(r)'
  /\ req' \in [Requests -> Request]
  /\ \A q \in Requests : q # r => req'[q] = req[q]
  /\ req'[r].plan = req[r].plan /\ req'[r].pos = req[r].pos
  /\ req'[r].approval = req[r].approval /\ req'[r].needs = req[r].needs
  /\ req[r].pc # "running" /\ req'[r].pc # "running"
  /\ req'[r].pc = "interpret" <=> req[r].pc = "interpret"
  /\ req'[r].pc \in {"ask", "dispatch"} => ~AtEnd(r)
  /\ req'[r].pc = "dispatch" => ~NeedsConfirmation(r)
  /\ UNCHANGED <<agents, pending, issued, nextPlan, plan, histories>>

LEMMA MovesInv ==
  ASSUME IInv, NEW r \in Requests, Moves(r)
  PROVE  IInv'
<1>1. TypeOK
  BY DEF IInv
<1>2. TypeOK'
  BY <1>1 DEF TypeOK, Moves, histories
<1>3. \A q \in Requests : /\ req'[q].plan = req[q].plan
                          /\ Serves(q)' <=> Serves(q)
                          /\ Closes(q)' <=> Closes(q)
  BY DEF Moves, Serves, Serving, Closes
<1>4. ServingInv'
  <2> SUFFICES ASSUME NEW q \in Requests, Serves(q)'
               PROVE  ServingFacts(q)'
    BY DEF ServingInv
  <2>1. ServingFacts(q)
    BY <1>3 DEF IInv, ServingInv
  <2>2. CASE q # r
    BY <2>1, <2>2 DEF ServingFacts, Moves, Over, RanWell, histories
  <2>3. CASE q = r
    <3>1. req'[r].pc \in {"ask", "dispatch"} => req[r].pos <= Len(plan[req[r].plan])
      <4>1. plan[req[r].plan] \in Seq(Steps) /\ req[r].pos \in Nat
        BY <1>1, <2>1, <2>3, RequestType DEF ServingFacts, TypeOK
      <4> QED BY <4>1 DEF Moves, AtEnd
    <3> QED BY <2>1, <2>3, <3>1 DEF ServingFacts, Moves, Over, RanWell, histories
  <2> QED BY <2>2, <2>3
<1>5. TicketInv' /\ UnusedInv'
  BY DEF IInv, TicketInv, TicketFacts, UnusedInv, RanWell, Over, Moves, histories
<1>6. ClosingInv'
  BY DEF IInv, ClosingInv, ClosingFacts, Closes, Serves, Serving, RanWell, Moves, histories
<1>7. OneHolder'
  BY <1>3 DEF IInv, OneHolder, Moves
<1>8. HistoryInv' /\ ConfirmedBeforeRun'
  BY DEF IInv, HistoryInv, RunsFollowThePlan, StopsAtFirstFailure, SuccessMeansAllRan,
         EndsToldOnce, Events, ConfirmedBeforeRun, Moves, histories
<1>9. ApprovalInv'
  <2>1. \A a : Spent(a)' <=> Spent(a)
    BY DEF Spent, Moves, histories
  <2>2. \A q \in Requests : Granted(q)' => Granted(q) /\ req'[q].approval = req[q].approval
    BY DEF Granted, Moves, Serves, Serving
  <2> QED BY <2>1, <2>2 DEF IInv, ApprovalInv, ApprovalsRunOnce, Moves, histories
<1>10. UncheckedInv' /\ RegistryInv'
  BY DEF IInv, UncheckedInv, RegistryInv, NeedsConfirmation, Step, Moves
<1>11. NeedsInv'
  BY DEF IInv, NeedsInv, Moves, Serves, Serving
<1> QED BY <1>2, <1>4, <1>5, <1>6, <1>7, <1>8, <1>9, <1>10, <1>11 DEF IInv

LEMMA MovingSteps ==
  ASSUME IInv, NEW r \in Requests,
         \/ LlmUnparsable(r) /\ req'[r].pc # "remember"
         \/ StepMustBeConfirmed(r) /\ req'[r].pc # "remember"
         \/ StepStarts(r)
  PROVE  Moves(r)
<1>1. TypeOK /\ req \in [Requests -> Request] /\ req[r] \in Request
  BY DEF IInv, TypeOK
<1>2. ASSUME NEW pc \in {"ask", "dispatch"}, req[r].pc = "resolve", ~AtEnd(r),
             pc = "dispatch" => ~NeedsConfirmation(r),
             req' = [req EXCEPT ![r].pc = pc],
             UNCHANGED <<agents, pending, issued, nextPlan, plan, histories>>
      PROVE  Moves(r)
  <2> DEFINE new == [req[r] EXCEPT !.pc = pc]
  <2>1. /\ new \in Request /\ new.pc = pc /\ new.plan = req[r].plan /\ new.pos = req[r].pos
        /\ new.approval = req[r].approval /\ new.needs = req[r].needs
    BY <1>1, <1>2 DEF Request, Phases
  <2>2. req' = [req EXCEPT ![r] = new]
    BY <1>2
  <2> HIDE DEF new
  <2>3. req' \in [Requests -> Request] /\ req'[r] = new /\ \A q \in Requests : q # r => req'[q] = req[q]
    BY <1>1, <2>1, <2>2
  <2>4. Serves(r) /\ Serves(r)'
    BY <1>2, <2>1, <2>3 DEF Serves, Serving
  <2> QED BY <1>2, <2>1, <2>3, <2>4 DEF Moves
<1>3. CASE LlmUnparsable(r) /\ req'[r].pc # "remember"
  <2>1. req[r].tries + 1 < MaxIntentAttempts /\ req' = [req EXCEPT ![r].tries = @ + 1]
    <3>1. RetryIntent(r) /\ req[r].plan \in 0..MaxPlans /\ FALSE \in BOOLEAN
      BY <1>1, <1>3 DEF LlmUnparsable, Request
    <3>2. ~Answers(r, req[r].plan, FALSE)
      BY <1>1, <1>3, <3>1, AnswersChange
    <3> QED BY <3>1, <3>2 DEF RetryIntent
  <2> DEFINE new == [req[r] EXCEPT !.tries = @ + 1]
  <2>2. /\ new \in Request /\ new.pc = "interpret" /\ new.plan = req[r].plan /\ new.pos = req[r].pos
        /\ new.approval = req[r].approval /\ new.needs = req[r].needs
    BY <1>1, <1>3, <2>1, BoundsAssumption DEF Request, LlmUnparsable
  <2>3. req' = [req EXCEPT ![r] = new]
    BY <2>1
  <2> HIDE DEF new
  <2>4. req' \in [Requests -> Request] /\ req'[r] = new /\ \A q \in Requests : q # r => req'[q] = req[q]
    BY <1>1, <2>2, <2>3
  <2>5. Serves(r) /\ Serves(r)'
    BY <1>3, <2>2, <2>4 DEF LlmUnparsable, Serves, Serving
  <2> QED BY <1>3, <2>2, <2>4, <2>5 DEF Moves, LlmUnparsable
<1>4. CASE StepMustBeConfirmed(r) /\ req'[r].pc # "remember"
  <2>1. req' = [req EXCEPT ![r].pc = "ask"]
    <3>1. req[r].plan \in 0..MaxPlans
      BY <1>1 DEF Request
    <3> QED BY <1>1, <1>4, <3>1, AnswersChange DEF StepMustBeConfirmed
  <2> QED BY <1>2, <1>4, <2>1 DEF StepMustBeConfirmed
<1>5. CASE StepStarts(r)
  BY <1>2, <1>5 DEF StepStarts
<1> QED BY <1>3, <1>4, <1>5

----------------------------------------------------------------------------
(* Steps that pass a plan from one holder to another.                      *)

\* What depends on the plans and on what ran, when neither changes.
LEMMA HistoryKept ==
  ASSUME IInv, UNCHANGED <<plan, ran, announced>>
  PROVE  /\ UNCHANGED remembered => HistoryInv'
         /\ ConfirmedBeforeRun' /\ ApprovalsRunOnce'
         /\ \A a : Spent(a)' <=> Spent(a)
         /\ \A q \in PlanIds : \A n : RanWell(q, n)' <=> RanWell(q, n)
         /\ \A q \in PlanIds : q \notin rejected' /\ remembered'[q] = remembered[q] =>
              (~Over(q) => ~Over(q)')
<1>1. UNCHANGED remembered => HistoryInv'
  BY DEF IInv, HistoryInv, RunsFollowThePlan, StopsAtFirstFailure, SuccessMeansAllRan,
         EndsToldOnce, Events
<1>2. ConfirmedBeforeRun' /\ ApprovalsRunOnce'
  BY DEF IInv, ApprovalInv, ConfirmedBeforeRun, ApprovalsRunOnce
<1> QED BY <1>1, <1>2 DEF Spent, RanWell, Over

LEMMA HandleInv ==
  ASSUME IInv, NEW r \in Requests, Handle(r)
  PROVE  IInv'
<1>1. /\ TypeOK /\ req \in [Requests -> Request]
      /\ nextPlan \in PlanIds /\ nextPlan \in Nat /\ nextPlan' = nextPlan + 1
  <2>1. TypeOK
    BY DEF IInv
  <2>2. nextPlan \in 1..(MaxPlans + 1) /\ nextPlan <= MaxPlans
    BY <2>1 DEF TypeOK, Handle
  <2>3. nextPlan \in PlanIds /\ nextPlan \in Nat
    BY <2>2, BoundsAssumption DEF PlanIds
  <2>4. req \in [Requests -> Request] /\ nextPlan' = nextPlan + 1
    BY <2>1 DEF TypeOK, Handle
  <2> QED BY <2>1, <2>3, <2>4
<1>p. PICK p \in PlanIds : p = nextPlan
  BY <1>1
<1> DEFINE new == [Idle EXCEPT !.pc = "interpret", !.plan = p]
<1>2. /\ new \in Request /\ new.pc = "interpret" /\ new.plan = p /\ new.pos = 1
      /\ new.approval = 0 /\ ~new.needs
  <2>1. new \in Request
    <3>1. p \in 0..MaxPlans /\ "interpret" \in Phases
      BY BoundsAssumption DEF PlanIds, Phases
    <3> QED BY <3>1, IdleType DEF Request
  <2> QED BY <2>1 DEF Idle
<1>3. req' = [req EXCEPT ![r] = new]
  BY <1>p DEF Handle
<1> HIDE DEF new
<1>4. req' \in [Requests -> Request] /\ req'[r] = new /\ \A q \in Requests : q # r => req'[q] = req[q]
  BY <1>1, <1>p, <1>2, <1>3
<1>5. TypeOK'
  <2>1. nextPlan' \in 1..(MaxPlans + 1)
    BY <1>1, <1>p, BoundsAssumption DEF PlanIds
  <2> QED BY <1>1, <1>p, <1>4, <2>1 DEF TypeOK, Handle, histories
<1>6. \A q \in Requests : Serves(q) \/ Closes(q) => req[q].plan \in PlanIds /\ req[q].plan < nextPlan
  BY <1>1, <1>p, RequestType DEF IInv, ServingInv, ServingFacts, ClosingInv, ClosingFacts, Closes
<1>7. \A t \in pending : t.plan \in PlanIds /\ t.plan < nextPlan
  BY <1>1, <1>p DEF IInv, TicketInv, TicketFacts, TypeOK, Ticket
<1>8. \A q \in Requests : (Serves(q) \/ Closes(q))' =>
        q = r \/ (q # r /\ req'[q] = req[q] /\ (Serves(q) \/ Closes(q)))
  BY <1>4 DEF Serves, Closes
<1>9. ServingInv'
  <2> SUFFICES ASSUME NEW q \in Requests, Serves(q)'
               PROVE  ServingFacts(q)'
    BY DEF ServingInv
  <2>1. CASE q = r
    <3>1. plan[p] = <<>> /\ ran[p] = <<>> /\ ~Over(p)
      BY <1>1, <1>p DEF IInv, UnusedInv
    <3>2. RanWell(p, 0)
      BY <3>1 DEF RanWell
    <3>3. p # 0 /\ p < nextPlan' /\ 1 <= Len(plan[p]) + 1 /\ 1 - 1 = 0
      BY <1>1, <1>p, <3>1, EventsOf, BoundsAssumption DEF PlanIds
    <3>4. UNCHANGED <<plan, ran, announced, remembered, rejected>>
      BY DEF Handle, histories
    <3>5. ~Over(p)' /\ RanWell(p, 0)'
      BY <3>1, <3>2, <3>4 DEF Over, RanWell
    <3>6. /\ req'[r].pc = "interpret" /\ req'[r].plan = p /\ req'[r].pos = 1
          /\ req'[r].approval = 0
      BY <1>2, <1>4
    <3> QED BY <2>1, <3>1, <3>3, <3>4, <3>5, <3>6 DEF ServingFacts, Over, RanWell
  <2>2. CASE q # r
    <3>1. req'[q] = req[q] /\ ServingFacts(q) /\ req[q].plan \in PlanIds
      BY <1>4, <1>6, <2>2 DEF Serves, IInv, ServingInv
    <3>2. req[q].plan < nextPlan'
      BY <1>1, <1>p, <3>1, BoundsAssumption DEF ServingFacts, PlanIds
    <3>3. UNCHANGED <<plan, ran, announced, remembered, rejected>>
      BY DEF Handle, histories
    <3> QED BY <3>1, <3>2, <3>3 DEF ServingFacts, Over, RanWell
  <2> QED BY <2>1, <2>2
<1>10. TicketInv'
  BY <1>1, <1>p, <1>7 DEF IInv, TicketInv, TicketFacts, Handle, Over, RanWell, histories, PlanIds
<1>11. ClosingInv'
  <2> SUFFICES ASSUME NEW q \in Requests, Closes(q)'
               PROVE  ClosingFacts(q)'
    BY DEF ClosingInv
  <2>1. q # r /\ req'[q] = req[q] /\ Closes(q)
    BY <1>2, <1>4 DEF Closes
  <2>2. ClosingFacts(q) /\ req[q].plan \in PlanIds
    BY <1>6, <2>1 DEF IInv, ClosingInv
  <2> QED BY <1>1, <1>p, <2>1, <2>2 DEF ClosingFacts, Handle, RanWell, histories, PlanIds
<1>12. OneHolder'
  BY <1>1, <1>p, <1>2, <1>4, <1>6, <1>7, <1>8 DEF IInv, OneHolder, Handle, PlanIds
<1>13. UnusedInv'
  BY <1>1, <1>p DEF IInv, UnusedInv, Handle, Over, histories, PlanIds
<1>14. HistoryInv' /\ ConfirmedBeforeRun'
  BY HistoryKept DEF Handle, histories
<1>15. ApprovalInv'
  <2>1. \A q \in Requests : Granted(q)' => Granted(q) /\ req'[q].approval = req[q].approval
    BY <1>2, <1>4 DEF Granted
  <2>2. (\A a : Spent(a)' <=> Spent(a)) /\ ApprovalsRunOnce'
    BY HistoryKept DEF Handle, histories
  <2> QED BY <2>1, <2>2 DEF IInv, ApprovalInv, Handle, histories
<1>16. UncheckedInv' /\ RegistryInv' /\ NeedsInv'
  BY <1>2, <1>4 DEF IInv, UncheckedInv, RegistryInv, NeedsInv, Step, Handle
<1> QED BY <1>5, <1>9, <1>10, <1>11, <1>12, <1>13, <1>14, <1>15, <1>16 DEF IInv

LEMMA StoreConfirmationInv ==
  ASSUME IInv, NEW r \in Requests, StoreConfirmation(r)
  PROVE  IInv'
<1> DEFINE p == req[r].plan
           new == [req[r] EXCEPT !.pc = "remember", !.needs = TRUE]
           u == TicketOf(r)
<1>1. TypeOK /\ req \in [Requests -> Request] /\ Serves(r) /\ ServingFacts(r) /\ p \in PlanIds
      /\ issued \in Nat /\ issued' = issued + 1 /\ nextPlan \in Nat
  <2>1. TypeOK /\ Serves(r)
    BY DEF IInv, StoreConfirmation, Serves, Serving
  <2>2. ServingFacts(r)
    BY <2>1 DEF IInv, ServingInv
  <2>3. p \in PlanIds
    BY <2>1, <2>2, RequestType DEF ServingFacts
  <2> QED BY <2>1, <2>2, <2>3, BoundsAssumption DEF TypeOK, StoreConfirmation
<1>2. new \in Request /\ new.pc = "remember" /\ new.needs
  BY <1>1 DEF Request, Phases
<1>3. req' = [req EXCEPT ![r] = new]
  BY DEF StoreConfirmation
<1> HIDE DEF new
<1>4. req' \in [Requests -> Request] /\ req'[r] = new /\ \A q \in Requests : q # r => req'[q] = req[q]
  BY <1>1, <1>2, <1>3
<1>5. /\ u \in Ticket /\ u.id = issued + 1 /\ u.plan = p /\ u.pos = req[r].pos
      /\ pending' = pending \cup {u}
  BY <1>1, RequestType DEF TicketOf, Ticket, StoreConfirmation
<1> HIDE DEF u
<1>6. TypeOK'
  BY <1>1, <1>4, <1>5 DEF TypeOK, StoreConfirmation, histories
<1>7. \A q \in Requests : (Serves(q) \/ Closes(q))' => q # r /\ req'[q] = req[q] /\ (Serves(q) \/ Closes(q))
  BY <1>2, <1>4 DEF Serves, Closes, Serving
<1>8. ServingInv'
  <2> SUFFICES ASSUME NEW q \in Requests, Serves(q)'
               PROVE  ServingFacts(q)'
    BY DEF ServingInv
  <2>1. req'[q] = req[q] /\ Serves(q)
    BY <1>7 DEF Serves
  <2> QED BY <2>1 DEF IInv, ServingInv, ServingFacts, StoreConfirmation, Over, RanWell, histories
<1>9. TicketInv'
  <2> SUFFICES ASSUME NEW t \in pending'
               PROVE  TicketFacts(t)'
    BY DEF TicketInv
  <2>1. CASE t = u
    BY <1>1, <1>5, <2>1 DEF TicketFacts, ServingFacts, StoreConfirmation, Over, RanWell, histories
  <2>2. CASE t \in pending
    <3>1. TicketFacts(t) /\ t.id \in Nat
      BY <1>1, <2>2 DEF IInv, TicketInv, TypeOK, Ticket
    <3> QED BY <1>1, <3>1 DEF TicketFacts, StoreConfirmation, Over, RanWell, histories
  <2> QED BY <1>5, <2>1, <2>2
<1>10. ClosingInv'
  <2> SUFFICES ASSUME NEW q \in Requests, Closes(q)'
               PROVE  ClosingFacts(q)'
    BY DEF ClosingInv
  <2>1. req'[q] = req[q] /\ Closes(q)
    BY <1>7 DEF Closes, Serves, Serving
  <2> QED BY <2>1 DEF IInv, ClosingInv, ClosingFacts, StoreConfirmation, RanWell, histories
<1>11. OneHolder'
  <2>1. \A q \in Requests : q # r /\ (Serves(q) \/ Closes(q)) => req[q].plan # p
    BY <1>1 DEF IInv, OneHolder
  <2>2. \A t \in pending : t.plan # p /\ t.id <= issued /\ t.id \in Nat
    BY <1>1 DEF IInv, OneHolder, TicketInv, TicketFacts, TypeOK, Ticket
  <2>3. \A t \in pending : t.id # u.id
    BY <1>1, <1>5, <2>2
  <2>4. \A q, s \in Requests : /\ (Serves(q) \/ Closes(q))' /\ (Serves(s) \/ Closes(s))'
                               /\ req'[q].plan = req'[s].plan
                               => q = s
    BY <1>7 DEF IInv, OneHolder
  <2>5. \A q \in Requests, t \in pending' : (Serves(q) \/ Closes(q))' => req'[q].plan # t.plan
    BY <1>5, <1>7, <2>1 DEF IInv, OneHolder
  <2>6. \A t, v \in pending' : t.plan = v.plan \/ t.id = v.id => t = v
    BY <1>5, <2>2, <2>3 DEF IInv, OneHolder
  <2> QED BY <2>4, <2>5, <2>6 DEF OneHolder
<1>12. UnusedInv'
  BY DEF IInv, UnusedInv, StoreConfirmation, Over, histories
<1>13. HistoryInv' /\ ConfirmedBeforeRun'
  BY HistoryKept DEF StoreConfirmation, histories
<1>14. ApprovalInv'
  <2>1. \A q \in Requests : Granted(q)' => Granted(q) /\ req'[q].approval = req[q].approval
    BY <1>2, <1>4 DEF Granted
  <2>2. (\A a : Spent(a)' <=> Spent(a)) /\ ApprovalsRunOnce'
    BY HistoryKept DEF StoreConfirmation, histories
  <2>3. \A q \in PlanIds : \A k \in 1..Len(ran[q]) : ran[q][k].approval \in Nat /\ ran[q][k].approval <= issued
    BY <1>1, RunType DEF IInv, ApprovalInv
  <2>4. ~Spent(issued + 1)
    BY <1>1, <2>3 DEF Spent
  <2>5. \A q \in PlanIds : \A k \in 1..Len(ran[q]) : ran[q][k].approval <= issued'
    BY <1>1, <2>3
  <2>6. \A t \in pending' : ~Spent(t.id)'
    BY <1>5, <2>2, <2>4 DEF IInv, ApprovalInv
  <2>7. \A q \in Requests : Granted(q)' =>
          (/\ req[q].approval <= issued
           /\ ~Spent(req[q].approval)
           /\ \A t \in pending : t.id # req[q].approval)'
    <3> SUFFICES ASSUME NEW q \in Requests, Granted(q)'
                 PROVE  (/\ req[q].approval <= issued
                         /\ ~Spent(req[q].approval)
                         /\ \A t \in pending : t.id # req[q].approval)'
      OBVIOUS
    <3>1. /\ req[q].approval \in Nat /\ req[q].approval <= issued /\ ~Spent(req[q].approval)
          /\ \A t \in pending : t.id # req[q].approval
      BY <1>1, <2>1, RequestType DEF IInv, ApprovalInv
    <3>2. req[q].approval <= issued' /\ req[q].approval # u.id
      BY <1>1, <1>5, <3>1
    <3> QED BY <1>5, <2>1, <2>2, <3>1, <3>2
  <2> QED BY <2>1, <2>2, <2>5, <2>6, <2>7 DEF IInv, ApprovalInv, StoreConfirmation, histories
<1>15. UncheckedInv' /\ RegistryInv' /\ NeedsInv'
  BY <1>2, <1>4 DEF IInv, UncheckedInv, RegistryInv, NeedsInv, Step, StoreConfirmation
<1> QED BY <1>6, <1>8, <1>9, <1>10, <1>11, <1>12, <1>13, <1>14, <1>15 DEF IInv

LEMMA ConfirmRejectedInv ==
  ASSUME IInv, NEW r \in Requests, NEW t \in pending, ConfirmRejected(r, t)
  PROVE  IInv'
<1>1. /\ TypeOK /\ TicketFacts(t) /\ t.plan \in PlanIds /\ t.plan \in 0..MaxPlans /\ t.plan # 0
      /\ ~req[r].needs
  <2>1. TypeOK /\ t \in Ticket /\ TicketFacts(t)
    BY DEF IInv, TypeOK, TicketInv
  <2>2. t.plan \in PlanIds
    BY <2>1 DEF Ticket
  <2> QED BY <2>1, <2>2, BoundsAssumption DEF PlanIds, IInv, NeedsInv, ConfirmRejected
<1>2. /\ req' \in [Requests -> Request]
      /\ \A q \in Requests : q # r => req'[q] = req[q]
      /\ req'[r].pc = "remember" /\ req'[r].plan = t.plan /\ req'[r].ok = FALSE
      /\ req'[r].needs = req[r].needs
  BY <1>1, AnswersChange DEF ConfirmRejected
<1>3. /\ pending' = pending \ {t} /\ rejected' = rejected \cup {t.plan}
      /\ UNCHANGED <<agents, issued, nextPlan, plan, ran, announced, remembered>>
  BY DEF ConfirmRejected, ConsumeTicket
<1>4. TypeOK'
  BY <1>1, <1>2, <1>3 DEF TypeOK
<1>5. \A q \in Requests : (Serves(q) \/ Closes(q)) => q # r /\ req[q].plan # t.plan
  BY DEF IInv, OneHolder, ConfirmRejected, Serves, Serving, Closes
<1>6. \A q \in Requests : q # r /\ (Serves(q) \/ Closes(q))' => req'[q] = req[q] /\ (Serves(q) \/ Closes(q))
  BY <1>2 DEF Serves, Closes
<1>7. ServingInv'
  <2> SUFFICES ASSUME NEW q \in Requests, Serves(q)'
               PROVE  ServingFacts(q)'
    BY DEF ServingInv
  <2>1. q # r /\ req'[q] = req[q] /\ Serves(q)
    BY <1>2 DEF Serves, Serving
  <2>2. req[q].plan # t.plan /\ ServingFacts(q)
    BY <1>5, <2>1 DEF IInv, ServingInv
  <2> QED BY <1>3, <2>1, <2>2 DEF ServingFacts, Over, RanWell
<1>8. TicketInv'
  <2> SUFFICES ASSUME NEW u \in pending'
               PROVE  TicketFacts(u)'
    BY DEF TicketInv
  <2>1. u \in pending /\ u.plan # t.plan /\ TicketFacts(u)
    BY <1>3 DEF IInv, OneHolder, TicketInv
  <2> QED BY <1>3, <2>1 DEF TicketFacts, Over, RanWell
<1>9. ClosingInv'
  <2> SUFFICES ASSUME NEW q \in Requests, Closes(q)'
               PROVE  ClosingFacts(q)'
    BY DEF ClosingInv
  <2>1. CASE q = r
    BY <1>1, <1>2, <1>3, <2>1 DEF ClosingFacts, TicketFacts, Over
  <2>2. CASE q # r
    <3>1. req'[q] = req[q] /\ ClosingFacts(q)
      BY <1>2, <2>2 DEF Closes, IInv, ClosingInv
    <3> QED BY <1>3, <3>1 DEF ClosingFacts, RanWell
  <2> QED BY <2>1, <2>2
<1>10. OneHolder'
  <2>1. \A q, s \in Requests : /\ (Serves(q) \/ Closes(q))' /\ (Serves(s) \/ Closes(s))'
                               /\ req'[q].plan = req'[s].plan
                               => q = s
    BY <1>2, <1>5, <1>6 DEF IInv, OneHolder
  <2>2. \A u \in pending' : u \in pending /\ u.plan # t.plan
    BY <1>3 DEF IInv, OneHolder
  <2>3. \A q \in Requests, u \in pending' : (Serves(q) \/ Closes(q))' => req'[q].plan # u.plan
    BY <1>2, <1>6, <2>2 DEF IInv, OneHolder
  <2> QED BY <2>1, <2>2, <2>3 DEF IInv, OneHolder
<1>11. UnusedInv'
  <2> SUFFICES ASSUME NEW q \in PlanIds, q >= nextPlan
               PROVE  plan[q] = <<>> /\ ran[q] = <<>> /\ ~Over(q)'
    BY <1>3 DEF UnusedInv
  <2>1. q # t.plan
    BY <1>1, BoundsAssumption DEF TicketFacts, TypeOK, PlanIds
  <2> QED BY <1>3, <2>1 DEF IInv, UnusedInv, Over
<1>12. HistoryInv' /\ ConfirmedBeforeRun'
  BY <1>3, HistoryKept
<1>13. ApprovalInv'
  <2>1. \A q \in Requests : Granted(q)' => Granted(q) /\ req'[q] = req[q]
    BY <1>2 DEF Granted
  <2>2. (\A a : Spent(a)' <=> Spent(a)) /\ ApprovalsRunOnce'
    BY <1>3, HistoryKept
  <2> QED BY <1>3, <2>1, <2>2 DEF IInv, ApprovalInv
<1>14. UncheckedInv' /\ RegistryInv' /\ NeedsInv'
  BY <1>1, <1>2, <1>3 DEF IInv, UncheckedInv, RegistryInv, NeedsInv, Step
<1> QED BY <1>4, <1>7, <1>8, <1>9, <1>10, <1>11, <1>12, <1>13, <1>14 DEF IInv

LEMMA ConfirmAcceptedInv ==
  ASSUME IInv, NEW r \in Requests, NEW t \in pending, ConfirmAccepted(r, t)
  PROVE  IInv'
<1>1. /\ TypeOK /\ TicketFacts(t) /\ t.plan \in PlanIds /\ t.plan \in 0..MaxPlans /\ t.plan # 0
      /\ t.pos \in Nat \ {0} /\ t.id \in Nat \ {0} /\ req \in [Requests -> Request]
  <2>1. TypeOK /\ t \in Ticket /\ TicketFacts(t)
    BY DEF IInv, TypeOK, TicketInv
  <2>2. t.plan \in PlanIds /\ t.pos \in Nat \ {0} /\ t.id \in Nat \ {0}
    BY <2>1 DEF Ticket
  <2>3. t.plan \in 0..MaxPlans /\ t.plan # 0
    BY <2>2, BoundsAssumption DEF PlanIds
  <2>4. req \in [Requests -> Request]
    BY <2>1 DEF TypeOK
  <2> QED BY <2>1, <2>2, <2>3, <2>4
<1> DEFINE new == Resumed(t)
<1>2. /\ new \in Request /\ new.pc = "resolve" /\ new.plan = t.plan /\ new.pos = t.pos
      /\ new.approval = t.id /\ ~new.needs
  <2>1. new \in Request
    <3>1. "resolve" \in Phases
      BY DEF Phases
    <3> QED BY <1>1, <3>1, IdleType DEF Request, Resumed
  <2> QED BY <2>1 DEF Resumed, Idle
<1>3. /\ pending' = pending \ {t}
      /\ UNCHANGED <<agents, issued, nextPlan, plan, ran, announced, remembered, rejected>>
      /\ req' = [req EXCEPT ![r] = new]
  BY DEF ConfirmAccepted, ConsumeTicket, histories
<1> HIDE DEF new
<1>4. req' \in [Requests -> Request] /\ req'[r] = new /\ \A q \in Requests : q # r => req'[q] = req[q]
  BY <1>1, <1>2, <1>3
<1>5. TypeOK'
  BY <1>1, <1>3, <1>4 DEF TypeOK
<1>6. \A q \in Requests : (Serves(q) \/ Closes(q)) => q # r /\ req[q].plan # t.plan
  BY DEF IInv, OneHolder, ConfirmAccepted, Serves, Serving, Closes
<1>7. \A q \in Requests : q # r /\ (Serves(q) \/ Closes(q))' => req'[q] = req[q] /\ (Serves(q) \/ Closes(q))
  BY <1>4 DEF Serves, Closes
<1>8. ServingInv'
  <2> SUFFICES ASSUME NEW q \in Requests, Serves(q)'
               PROVE  ServingFacts(q)'
    BY DEF ServingInv
  <2>1. CASE q # r
    <3>1. req'[q] = req[q] /\ ServingFacts(q)
      BY <1>4, <2>1 DEF Serves, IInv, ServingInv
    <3> QED BY <1>3, <3>1 DEF ServingFacts, Over, RanWell
  <2>2. CASE q = r
    <3>1. plan[t.plan] \in Seq(Steps)
      BY <1>1 DEF TypeOK
    <3>2. t.pos <= Len(plan[t.plan]) + 1
      BY <1>1, <3>1 DEF TicketFacts
    <3>3. ~Over(t.plan)' /\ RanWell(t.plan, t.pos - 1)'
      BY <1>1, <1>3 DEF TicketFacts, Over, RanWell
    <3> QED BY <1>1, <1>2, <1>3, <1>4, <2>2, <3>2, <3>3 DEF ServingFacts, TicketFacts, Over, RanWell
  <2> QED BY <2>1, <2>2
<1>9. TicketInv'
  BY <1>3 DEF IInv, TicketInv, TicketFacts, Over, RanWell
<1>10. ClosingInv'
  <2> SUFFICES ASSUME NEW q \in Requests, Closes(q)'
               PROVE  ClosingFacts(q)'
    BY DEF ClosingInv
  <2>1. req'[q] = req[q] /\ ClosingFacts(q)
    BY <1>2, <1>4 DEF Closes, IInv, ClosingInv
  <2> QED BY <1>3, <2>1 DEF ClosingFacts, RanWell
<1>11. OneHolder'
  <2>1. \A q, s \in Requests : /\ (Serves(q) \/ Closes(q))' /\ (Serves(s) \/ Closes(s))'
                               /\ req'[q].plan = req'[s].plan
                               => q = s
    BY <1>2, <1>4, <1>6, <1>7 DEF IInv, OneHolder
  <2>2. \A u \in pending' : u \in pending /\ u.plan # t.plan
    BY <1>3 DEF IInv, OneHolder
  <2>3. \A q \in Requests, u \in pending' : (Serves(q) \/ Closes(q))' => req'[q].plan # u.plan
    BY <1>2, <1>4, <1>7, <2>2 DEF IInv, OneHolder
  <2> QED BY <2>1, <2>2, <2>3 DEF IInv, OneHolder
<1>12. UnusedInv'
  BY <1>3 DEF IInv, UnusedInv, Over
<1>13. HistoryInv' /\ ConfirmedBeforeRun'
  BY <1>3, HistoryKept
<1>14. ApprovalInv'
  <2>1. \A q \in Requests : Granted(q)' => q = r \/ (q # r /\ Granted(q) /\ req'[q] = req[q])
    BY <1>4 DEF Granted
  <2>2. (\A a : Spent(a)' <=> Spent(a)) /\ ApprovalsRunOnce'
    BY <1>3, HistoryKept
  <2>3. \A u \in pending' : u \in pending /\ u.id # t.id
    BY <1>3 DEF IInv, OneHolder
  <2>4. \A q \in Requests : Granted(q)' =>
          (/\ req[q].approval <= issued
           /\ ~Spent(req[q].approval)
           /\ \A u \in pending : u.id # req[q].approval)'
    <3> SUFFICES ASSUME NEW q \in Requests, Granted(q)'
                 PROVE  (/\ req[q].approval <= issued
                         /\ ~Spent(req[q].approval)
                         /\ \A u \in pending : u.id # req[q].approval)'
      OBVIOUS
    <3>1. CASE q = r
      BY <1>1, <1>2, <1>3, <1>4, <2>2, <2>3, <3>1 DEF IInv, ApprovalInv, TicketFacts
    <3>2. CASE q # r
      BY <1>3, <2>1, <2>2, <2>3, <3>2 DEF IInv, ApprovalInv
    <3> QED BY <3>1, <3>2
  <2>5. \A q \in Requests : q # r /\ Granted(q)' => req'[q].approval # t.id
    BY <2>1 DEF IInv, ApprovalInv
  <2>6. \A q, s \in Requests :
          Granted(q)' /\ Granted(s)' /\ req'[q].approval = req'[s].approval => q = s
    BY <1>2, <1>4, <2>1, <2>5 DEF IInv, ApprovalInv
  <2> QED BY <1>3, <2>2, <2>3, <2>4, <2>6 DEF IInv, ApprovalInv
<1>15. UncheckedInv' /\ RegistryInv' /\ NeedsInv'
  BY <1>2, <1>3, <1>4 DEF IInv, UncheckedInv, RegistryInv, NeedsInv, Step
<1> QED BY <1>5, <1>8, <1>9, <1>10, <1>11, <1>12, <1>13, <1>14, <1>15 DEF IInv

\* A request stores the last exchange about its plan.
LEMMA RememberInv ==
  ASSUME IInv, NEW r \in Requests, Remember(r)
  PROVE  IInv'
<1> SUFFICES ASSUME remembered' # remembered
             PROVE  IInv'
  BY ReleasingSteps, ReleasesInv
<1> DEFINE p == req[r].plan
           ok == req[r].ok
<1>1. /\ TypeOK /\ Closes(r) /\ ClosingFacts(r) /\ p \in PlanIds /\ ok \in BOOLEAN
      /\ remembered' = [remembered EXCEPT ![p] = Append(@, ok)]
  <2>1. Closes(r) /\ remembered' = [remembered EXCEPT ![p] = Append(@, ok)]
    BY DEF Remember, Remembers, Closes
  <2> QED BY <2>1, RequestType DEF IInv, ClosingInv, Closes
<1>2. /\ remembered' \in [PlanIds -> Seq(BOOLEAN)] /\ remembered'[p] = <<ok>>
      /\ \A q \in PlanIds : q # p => remembered'[q] = remembered[q]
  <2>1. remembered \in [PlanIds -> Seq(BOOLEAN)] /\ remembered[p] = <<>>
    BY <1>1 DEF TypeOK, ClosingFacts
  <2>2. Append(remembered[p], ok) \in Seq(BOOLEAN)
    BY <1>1, <2>1, AppendProperties
  <2>3. Append(<<>>, ok) = <<ok>>
    OBVIOUS
  <2> QED BY <1>1, <2>1, <2>2, <2>3, Zenon
<1>3. UNCHANGED <<agents, pending, issued, nextPlan, plan, ran, announced, rejected>>
  BY DEF Remember
<1>4. req' \in [Requests -> Request] /\ req'[r] = Idle /\ \A q \in Requests : q # r => req'[q] = req[q]
  BY <1>1, IdleType DEF Remember, TypeOK
<1>5. TypeOK'
  BY <1>1, <1>2, <1>3, <1>4 DEF TypeOK
<1>6. \A q \in Requests : (Serves(q) \/ Closes(q))' =>
        q # r /\ req'[q] = req[q] /\ (Serves(q) \/ Closes(q)) /\ req[q].plan # p
  <2>1. \A q \in Requests : (Serves(q) \/ Closes(q))' => q # r
    BY <1>4 DEF Serves, Serving, Closes, Idle
  <2>2. \A q \in Requests : q # r /\ (Serves(q) \/ Closes(q)) => req[q].plan # p
    BY <1>1 DEF IInv, OneHolder
  <2> QED BY <1>4, <2>1, <2>2 DEF Serves, Closes
<1>7. ServingInv'
  <2> SUFFICES ASSUME NEW q \in Requests, Serves(q)'
               PROVE  ServingFacts(q)'
    BY DEF ServingInv
  <2>1. req'[q] = req[q] /\ Serves(q) /\ req[q].plan # p
    BY <1>6 DEF Serves
  <2>2. ServingFacts(q) /\ req[q].plan \in PlanIds
    BY <1>1, <2>1, RequestType DEF IInv, ServingInv, ServingFacts
  <2> QED BY <1>2, <1>3, <2>1, <2>2 DEF ServingFacts, Over, RanWell
<1>8. TicketInv'
  <2> SUFFICES ASSUME NEW t \in pending
               PROVE  TicketFacts(t)'
    BY <1>3 DEF TicketInv
  <2>1. t.plan \in PlanIds /\ t.plan # p /\ TicketFacts(t)
    BY <1>1 DEF IInv, OneHolder, TicketInv, TypeOK, Ticket
  <2> QED BY <1>2, <1>3, <2>1 DEF TicketFacts, Over, RanWell
<1>9. ClosingInv'
  <2> SUFFICES ASSUME NEW q \in Requests, Closes(q)'
               PROVE  ClosingFacts(q)'
    BY DEF ClosingInv
  <2>1. req'[q] = req[q] /\ Closes(q) /\ req[q].plan # p
    BY <1>6 DEF Closes
  <2>2. ClosingFacts(q) /\ req[q].plan \in PlanIds
    BY <1>1, <2>1, RequestType DEF IInv, ClosingInv, Closes
  <2> QED BY <1>2, <1>3, <2>1, <2>2 DEF ClosingFacts, RanWell
<1>10. OneHolder'
  BY <1>3, <1>6 DEF IInv, OneHolder
<1>11. UnusedInv'
  <2> SUFFICES ASSUME NEW q \in PlanIds, q >= nextPlan
               PROVE  plan[q] = <<>> /\ ran[q] = <<>> /\ ~Over(q)'
    BY <1>3 DEF UnusedInv
  <2>1. q # p
    BY <1>1, BoundsAssumption DEF ClosingFacts, TypeOK, PlanIds
  <2> QED BY <1>2, <1>3, <2>1 DEF IInv, UnusedInv, Over
<1>12. HistoryInv'
  <2>1. HistoryInv
    BY DEF IInv
  <2>2. RunsFollowThePlan' /\ StopsAtFirstFailure'
    BY <1>3, <2>1 DEF HistoryInv, RunsFollowThePlan, StopsAtFirstFailure
  <2>3. SuccessMeansAllRan'
    <3> SUFFICES ASSUME NEW q \in PlanIds,
                        TRUE \in Events(announced[q]) \cup Events(remembered'[q])
                 PROVE  /\ Len(ran[q]) = Len(plan[q])
                        /\ \A k \in 1..Len(ran[q]) : ran[q][k].outcome = "success"
      BY <1>3 DEF SuccessMeansAllRan, Events
    <3>1. CASE TRUE \in Events(announced[q]) \/ q # p
      BY <1>2, <2>1, <3>1 DEF HistoryInv, SuccessMeansAllRan
    <3>2. CASE TRUE \in Events(remembered'[q]) /\ q = p
      <4>1. TRUE \in {ok}
        BY <1>2, <3>2, EventsOf, Zenon
      <4>2. RanWell(p, Len(plan[p]))
        BY <1>1, <4>1 DEF ClosingFacts
      <4> QED BY <3>2, <4>2 DEF RanWell
    <3> QED BY <3>1, <3>2
  <2>4. EndsToldOnce'
    <3>1. Len(remembered'[p]) = 1
      BY <1>2, EventsOf, Zenon
    <3>2. 1 <= 1
      OBVIOUS
    <3>3. Len(remembered'[p]) <= 1
      BY <3>1, <3>2, Zenon
    <3> QED BY <1>2, <1>3, <2>1, <3>3 DEF HistoryInv, EndsToldOnce
  <2> QED BY <2>2, <2>3, <2>4 DEF HistoryInv
<1>13. ConfirmedBeforeRun'
  BY <1>3, HistoryKept
<1>14. ApprovalInv'
  <2>1. \A q \in Requests : Granted(q)' => Granted(q) /\ req'[q] = req[q]
    BY <1>4 DEF Granted, Idle
  <2>2. (\A a : Spent(a)' <=> Spent(a)) /\ ApprovalsRunOnce'
    BY <1>3, HistoryKept
  <2> QED BY <1>3, <2>1, <2>2 DEF IInv, ApprovalInv
<1>15. UncheckedInv' /\ RegistryInv' /\ NeedsInv'
  BY <1>3, <1>4 DEF IInv, UncheckedInv, RegistryInv, NeedsInv, Step, Idle
<1> QED BY <1>5, <1>7, <1>8, <1>9, <1>10, <1>11, <1>12, <1>13, <1>14, <1>15 DEF IInv

----------------------------------------------------------------------------
(* Steps of a plan that its holder records.                                *)

\* The request r keeps serving p, and what changes is the plan of p or its runs;
\* what its own action still has to show is about p and r alone.
Advances(r) ==
  LET p == req[r].plan
  IN  /\ Serves(r) /\ Serves(r)' /\ req'[r].plan = p /\ ~req'[r].needs
      /\ req' \in [Requests -> Request]
      /\ \A q \in Requests : q # r => req'[q] = req[q]
      /\ plan' \in [PlanIds -> Seq(Steps)]
      /\ ran' \in [PlanIds -> Seq(Run)]
      /\ \A q \in PlanIds : q # p => plan'[q] = plan[q] /\ ran'[q] = ran[q]
      /\ UNCHANGED <<agents, pending, issued, nextPlan, announced, remembered, rejected>>

LEMMA AdvancesInv ==
  ASSUME IInv, NEW r \in Requests, Advances(r), ServingFacts(r)',
         RunsFollowThePlan', StopsAtFirstFailure', ConfirmedBeforeRun', ApprovalInv', UncheckedInv'
  PROVE  IInv'
<1> DEFINE p == req[r].plan
<1>1. /\ TypeOK /\ p \in PlanIds /\ ServingFacts(r)
      /\ announced[p] = <<>> /\ remembered[p] = <<>>
  BY RequestType DEF IInv, ServingInv, ServingFacts, Advances, Over
<1>2. TypeOK'
  BY <1>1 DEF TypeOK, Advances
<1>3. \A q \in Requests : /\ q # r /\ (Serves(q) \/ Closes(q)) => req[q].plan # p
                          /\ (Serves(q) \/ Closes(q))' => Serves(q) \/ Closes(q)
                          /\ (Serves(q) \/ Closes(q)) => req'[q].plan = req[q].plan
  <2>1. \A q \in Requests : q # r /\ (Serves(q) \/ Closes(q)) => req[q].plan # p
    BY DEF IInv, OneHolder, Advances
  <2> QED BY <2>1 DEF Advances, Serves, Closes
<1>4. ServingInv'
  <2> SUFFICES ASSUME NEW q \in Requests, Serves(q)', q # r
               PROVE  ServingFacts(q)'
    BY DEF ServingInv
  <2>1. req'[q] = req[q] /\ Serves(q)
    BY DEF Serves, Advances
  <2>2. ServingFacts(q) /\ req[q].plan \in PlanIds /\ req[q].plan # p
    BY <1>1, <1>3, <2>1, RequestType DEF IInv, ServingInv, ServingFacts
  <2>3. /\ plan'[req[q].plan] = plan[req[q].plan] /\ ran'[req[q].plan] = ran[req[q].plan]
        /\ UNCHANGED <<nextPlan, announced, remembered, rejected>>
    BY <2>2 DEF Advances
  <2>4. ~Over(req[q].plan)'
    BY <2>1, <2>2, <2>3 DEF ServingFacts, Over
  <2>5. \A n : RanWell(req[q].plan, n)' <=> RanWell(req[q].plan, n)
    BY <2>1, <2>3 DEF RanWell
  <2> QED BY <2>1, <2>2, <2>3, <2>4, <2>5 DEF ServingFacts
<1>5. TicketInv'
  <2> SUFFICES ASSUME NEW t \in pending
               PROVE  TicketFacts(t)'
    BY DEF TicketInv, Advances
  <2>1. t.plan \in PlanIds /\ t.plan # p /\ TicketFacts(t)
    BY <1>1 DEF IInv, OneHolder, TicketInv, TypeOK, Ticket, Advances
  <2> QED BY <2>1 DEF TicketFacts, Over, RanWell, Advances
<1>6. ClosingInv'
  <2> SUFFICES ASSUME NEW q \in Requests, Closes(q)'
               PROVE  ClosingFacts(q)'
    BY DEF ClosingInv
  <2>1. q # r /\ req'[q] = req[q] /\ Closes(q)
    BY DEF Closes, Serves, Serving, Advances
  <2>2. ClosingFacts(q) /\ req[q].plan \in PlanIds /\ req[q].plan # p
    BY <1>1, <1>3, <2>1, RequestType DEF IInv, ClosingInv, Closes
  <2> QED BY <2>1, <2>2 DEF ClosingFacts, RanWell, Advances
<1>7. OneHolder'
  <2>1. \A q \in Requests : (Serves(q) \/ Closes(q))' =>
          (Serves(q) \/ Closes(q)) /\ req'[q].plan = req[q].plan
    BY <1>3
  <2>2. UNCHANGED pending
    BY DEF Advances
  <2> QED BY <2>1, <2>2 DEF IInv, OneHolder
<1>8. UnusedInv'
  <2> SUFFICES ASSUME NEW q \in PlanIds, q >= nextPlan
               PROVE  plan'[q] = <<>> /\ ran'[q] = <<>> /\ ~Over(q)'
    BY DEF UnusedInv, Advances
  <2>1. q # p
    BY <1>1, BoundsAssumption DEF ServingFacts, TypeOK, PlanIds
  <2> QED BY <2>1 DEF IInv, UnusedInv, Over, Advances
<1>9. SuccessMeansAllRan' /\ EndsToldOnce'
  <2>1. HistoryInv /\ UNCHANGED <<announced, remembered>>
    BY DEF IInv, Advances
  <2>2. EndsToldOnce'
    BY <2>1 DEF HistoryInv, EndsToldOnce
  <2>3. SuccessMeansAllRan'
    <3> SUFFICES ASSUME NEW q \in PlanIds,
                        TRUE \in Events(announced[q]) \cup Events(remembered[q])
                 PROVE  /\ Len(ran'[q]) = Len(plan'[q])
                        /\ \A k \in 1..Len(ran'[q]) : ran'[q][k].outcome = "success"
      BY <2>1 DEF SuccessMeansAllRan, Events
    <3>1. q # p
      BY <1>1, EventsOf, Zenon
    <3> QED BY <2>1, <3>1 DEF HistoryInv, SuccessMeansAllRan, Advances
  <2> QED BY <2>2, <2>3
<1>10. RegistryInv' /\ NeedsInv'
  BY DEF IInv, RegistryInv, NeedsInv, Advances
<1> QED BY <1>2, <1>4, <1>5, <1>6, <1>7, <1>8, <1>9, <1>10 DEF IInv, HistoryInv

\* The plan of a request arrives.
LEMMA LlmProposesInv ==
  ASSUME IInv, NEW r \in Requests, LlmProposes(r), req'[r].pc # "remember"
  PROVE  IInv'
<1> DEFINE p == req[r].plan
<1>1. /\ TypeOK /\ req \in [Requests -> Request] /\ req[r] \in Request
      /\ Serves(r) /\ ServingFacts(r) /\ req[r].pc = "interpret"
  BY DEF IInv, TypeOK, ServingInv, LlmProposes, Serves, Serving
<1>2. p \in PlanIds /\ p \in 0..MaxPlans /\ req[r].pos = 1 /\ plan[p] = <<>> /\ ran[p] = <<>>
  <2>1. p \in PlanIds /\ req[r].pos = 1 /\ plan[p] = <<>> /\ RanWell(p, 0)
    BY <1>1, RequestType DEF ServingFacts
  <2>2. ran[p] \in Seq(Run) /\ Len(ran[p]) = 0
    BY <1>1, <2>1 DEF RanWell, TypeOK
  <2> QED BY <2>1, <2>2, EmptySeq, BoundsAssumption DEF PlanIds
<1>3. PICK steps \in Proposals :
        /\ plan' = [plan EXCEPT ![p] = steps]
        /\ IF steps = <<>> THEN Answers(r, p, FALSE)
                           ELSE req' = [req EXCEPT ![r].pc = "resolve"]
  BY DEF LlmProposes
<1>4. req' = [req EXCEPT ![r].pc = "resolve"]
  BY <1>1, <1>2, <1>3, AnswersChange
<1> DEFINE new == [req[r] EXCEPT !.pc = "resolve"]
<1>5. /\ new \in Request /\ new.pc = "resolve" /\ new.plan = p /\ new.pos = 1
      /\ new.needs = req[r].needs
  BY <1>1, <1>2 DEF Request, Phases
<1>6. req' = [req EXCEPT ![r] = new]
  BY <1>4
<1> HIDE DEF new
<1>7. req' \in [Requests -> Request] /\ req'[r] = new /\ \A q \in Requests : q # r => req'[q] = req[q]
  BY <1>1, <1>5, <1>6
<1>8. steps \in Seq(Steps) /\ plan \in [PlanIds -> Seq(Steps)]
  BY <1>1, ProposalsType DEF TypeOK
<1>9. /\ plan' \in [PlanIds -> Seq(Steps)] /\ plan'[p] = steps
      /\ \A q \in PlanIds : q # p => plan'[q] = plan[q]
  BY <1>2, <1>3, <1>8
<1>10. UNCHANGED <<agents, pending, issued, nextPlan, ran, announced, remembered, rejected>>
  BY DEF LlmProposes, histories
<1>11. ~new.needs /\ Serves(r)'
  BY <1>1, <1>5, <1>7 DEF IInv, NeedsInv, Serves, Serving
<1>12. Advances(r)
  BY <1>1, <1>2, <1>5, <1>7, <1>9, <1>10, <1>11 DEF Advances, TypeOK
<1>13. ServingFacts(r)'
  <2>1. Len(steps) \in Nat
    BY <1>8
  <2>2. p # 0 /\ p < nextPlan' /\ ~Over(p)' /\ RanWell(p, 0)'
    BY <1>1, <1>2, <1>5, <1>7, <1>10, EventsOf DEF ServingFacts, Over, RanWell
  <2> QED BY <1>5, <1>7, <1>9, <2>1, <2>2 DEF ServingFacts, RanWell
<1>14. RunsFollowThePlan' /\ StopsAtFirstFailure'
  <2>1. HistoryInv
    BY DEF IInv
  <2>2. StopsAtFirstFailure'
    BY <1>10, <2>1 DEF HistoryInv, StopsAtFirstFailure
  <2>3. RunsFollowThePlan'
    <3> SUFFICES ASSUME NEW q \in PlanIds
                 PROVE  /\ Len(ran[q]) <= Len(plan'[q])
                        /\ \A k \in 1..Len(ran[q]) :
                             /\ ran[q][k].pos = k
                             /\ ran[q][k].action = plan'[q][k].action
                             /\ AgentName[ran[q][k].agent] = plan'[q][k].agent
      BY <1>10 DEF RunsFollowThePlan
    <3>1. CASE q = p
      BY <1>2, <1>8, <1>9, <3>1, EventsOf
    <3>2. CASE q # p
      BY <1>9, <2>1, <3>2 DEF HistoryInv, RunsFollowThePlan
    <3> QED BY <3>1, <3>2
  <2> QED BY <2>2, <2>3
<1>15. ConfirmedBeforeRun'
  BY <1>10 DEF IInv, ConfirmedBeforeRun
<1>16. ApprovalInv'
  <2>1. \A a : Spent(a)' <=> Spent(a)
    BY <1>10 DEF Spent
  <2>3. req'[r].approval = req[r].approval
    BY <1>1, <1>4 DEF Request
  <2>4. \A q \in Requests : q # r /\ Granted(q)' => Granted(q) /\ req'[q] = req[q]
    BY <1>7 DEF Granted
  <2>5. req[r].approval = 0
    BY <1>1 DEF ServingFacts
  <2>6. ~Granted(r)'
    BY <2>3, <2>5 DEF Granted
  <2> QED BY <1>10, <2>1, <2>4, <2>6 DEF IInv, ApprovalInv, ApprovalsRunOnce
<1>17. UncheckedInv'
  <2> SUFFICES ASSUME NEW q \in Requests, req'[q].pc = "dispatch", req'[q].approval = 0
               PROVE  <<agents[Step(q)'.agent], Step(q)'.action>> \notin Asks
    BY <1>10 DEF UncheckedInv
  <2>1. q # r /\ req'[q] = req[q] /\ Serves(q)
    BY <1>5, <1>7 DEF Serves, Serving
  <2>2. req[q].plan # p /\ req[q].plan \in PlanIds
    BY <1>1, <2>1, RequestType DEF IInv, OneHolder, ServingInv, ServingFacts
  <2>3. Step(q)' = Step(q)
    BY <1>9, <2>1, <2>2 DEF Step
  <2> QED BY <2>1, <2>3 DEF IInv, UncheckedInv
<1> QED BY <1>12, <1>13, <1>14, <1>15, <1>16, <1>17, AdvancesInv

\* The step at the position of a request is dispatched.
LEMMA DispatchRunsInv ==
  ASSUME IInv, NEW r \in Requests, DispatchRuns(r)
  PROVE  IInv'
<1> DEFINE p == req[r].plan
           n == req[r].pos
           step == plan[p][n]
           a == agents[step.agent]
           run == [pos |-> n, agent |-> a, action |-> step.action,
                   approval |-> req[r].approval, outcome |-> "running"]
<1>1. /\ TypeOK /\ req \in [Requests -> Request] /\ req[r] \in Request
      /\ Serves(r) /\ ServingFacts(r) /\ req[r].pc = "dispatch"
  BY DEF IInv, TypeOK, ServingInv, DispatchRuns, Serves, Serving
<1>2. /\ p \in PlanIds /\ n \in Nat \ {0} /\ req[r].approval \in Nat
      /\ plan[p] \in Seq(Steps) /\ ran[p] \in Seq(Run) /\ ran \in [PlanIds -> Seq(Run)]
  BY <1>1, RequestType DEF ServingFacts, TypeOK
<1>3. n \in 1..Len(plan[p]) /\ Len(ran[p]) = n - 1
      /\ \A k \in 1..(n - 1) : ran[p][k].outcome = "success"
  BY <1>1, <1>2 DEF ServingFacts, RanWell
<1>4. step \in Steps /\ step.agent \in Names /\ step.action \in Actions
  BY <1>2, <1>3, BoundsAssumption
<1>5. /\ a \in Agents /\ AgentName[a] = step.agent
      /\ <<a, step.action>> \in Asks => req[r].approval # 0
  <2>1. a # NoAgent
    BY DEF DispatchRuns, Covered, Step
  <2>2. a \in Agents \cup {NoAgent}
    BY <1>1, <1>4 DEF TypeOK
  <2>3. RegistryInv /\ UncheckedInv
    BY DEF IInv
  <2> QED BY <1>1, <1>4, <2>1, <2>2, <2>3 DEF RegistryInv, UncheckedInv, Step
<1>6. /\ run \in Run /\ run.pos = n /\ run.agent = a /\ run.action = step.action
      /\ run.approval = req[r].approval
  BY <1>2, <1>4, <1>5 DEF Run, Outcomes
<1>7. ran' = [ran EXCEPT ![p] = Append(ran[p], run)]
  BY DEF DispatchRuns, Step
<1> HIDE DEF run, a, step
<1>8. /\ Append(ran[p], run) \in Seq(Run) /\ Len(Append(ran[p], run)) = n
      /\ \A k \in 1..(n - 1) : Append(ran[p], run)[k] = ran[p][k]
      /\ Append(ran[p], run)[n] = run
  BY <1>2, <1>3, <1>6
<1>9. /\ ran' \in [PlanIds -> Seq(Run)] /\ Len(ran'[p]) = n
      /\ \A q \in PlanIds : q # p => ran'[q] = ran[q]
      /\ \A k \in 1..(n - 1) : ran'[p][k] = ran[p][k]
      /\ ran'[p][n] = run
  BY <1>2, <1>7, <1>8
<1> DEFINE new == [req[r] EXCEPT !.pc = "running"]
<1>10. /\ new \in Request /\ new.pc = "running" /\ new.plan = p /\ new.pos = n
       /\ new.needs = req[r].needs
  BY <1>1 DEF Request, Phases
<1>11. req' = [req EXCEPT ![r] = new]
  BY DEF DispatchRuns
<1> HIDE DEF new
<1>12. req' \in [Requests -> Request] /\ req'[r] = new /\ \A q \in Requests : q # r => req'[q] = req[q]
  BY <1>1, <1>10, <1>11
<1>13. UNCHANGED <<agents, pending, issued, nextPlan, plan, announced, remembered, rejected>>
  BY DEF DispatchRuns
<1>14. Advances(r)
  <2>1. ~new.needs /\ Serves(r)'
    BY <1>1, <1>10, <1>12 DEF IInv, NeedsInv, Serves, Serving
  <2>2. plan' \in [PlanIds -> Seq(Steps)]
    BY <1>1, <1>13 DEF TypeOK
  <2> QED BY <1>1, <1>9, <1>10, <1>12, <1>13, <2>1, <2>2 DEF Advances
<1>15. ServingFacts(r)'
  <2>1. p # 0 /\ p < nextPlan' /\ ~Over(p)' /\ n <= Len(plan'[p]) /\ n <= Len(plan'[p]) + 1
    BY <1>1, <1>2, <1>3, <1>10, <1>12, <1>13 DEF ServingFacts, Over
  <2>2. \A k \in 1..(n - 1) : ran'[p][k].outcome = "success"
    BY <1>3, <1>9
  <2> QED BY <1>9, <1>10, <1>12, <2>1, <2>2 DEF ServingFacts
<1>16. RunsFollowThePlan' /\ StopsAtFirstFailure' /\ ConfirmedBeforeRun'
  <2>1. RunsFollowThePlan /\ StopsAtFirstFailure /\ ConfirmedBeforeRun
    BY DEF IInv, HistoryInv
  <2> SUFFICES ASSUME NEW q \in PlanIds
               PROVE  /\ Len(ran'[q]) <= Len(plan[q])
                      /\ \A k \in 1..Len(ran'[q]) :
                           /\ ran'[q][k].pos = k
                           /\ ran'[q][k].action = plan[q][k].action
                           /\ AgentName[ran'[q][k].agent] = plan[q][k].agent
                           /\ k < Len(ran'[q]) => ran'[q][k].outcome = "success"
                           /\ <<ran'[q][k].agent, ran'[q][k].action>> \in Asks => ran'[q][k].approval # 0
    BY <1>13 DEF RunsFollowThePlan, StopsAtFirstFailure, ConfirmedBeforeRun
  <2>2. CASE q # p
    BY <1>9, <2>1, <2>2 DEF RunsFollowThePlan, StopsAtFirstFailure, ConfirmedBeforeRun
  <2>3. CASE q = p
    <3>1. ASSUME NEW k \in 1..n
          PROVE  /\ ran'[p][k].pos = k
                 /\ ran'[p][k].action = plan[p][k].action
                 /\ AgentName[ran'[p][k].agent] = plan[p][k].agent
                 /\ k < n => ran'[p][k].outcome = "success"
                 /\ <<ran'[p][k].agent, ran'[p][k].action>> \in Asks => ran'[p][k].approval # 0
      <4>1. CASE k = n
        <5>1. ran'[p][k] = run /\ plan[p][k] = step
          BY <1>9, <4>1 DEF step
        <5>2. /\ run.pos = k /\ run.action = step.action /\ AgentName[run.agent] = step.agent
              /\ <<run.agent, run.action>> \in Asks => run.approval # 0
              /\ ~(k < n)
          BY <1>2, <1>5, <1>6, <4>1
        <5> QED BY <5>1, <5>2
      <4>2. CASE k # n
        <5>1. k \in 1..(n - 1) /\ k \in 1..Len(ran[p])
          BY <1>2, <1>3, <4>2
        <5>2. ran'[p][k] = ran[p][k] /\ ran[p][k].outcome = "success"
          BY <1>3, <1>9, <5>1
        <5> QED BY <1>2, <2>1, <5>1, <5>2 DEF RunsFollowThePlan, ConfirmedBeforeRun
      <4> QED BY <4>1, <4>2
    <3>2. Len(ran'[p]) = n /\ n <= Len(plan[p])
      BY <1>2, <1>3, <1>9
    <3> HIDE DEF p, n
    <3> QED BY <2>3, <3>1, <3>2
  <2> QED BY <2>2, <2>3
<1>17. UncheckedInv'
  BY <1>10, <1>12, <1>13 DEF IInv, UncheckedInv, Step
<1> DEFINE b == req[r].approval
<1>18. \A x : Spent(x)' => Spent(x) \/ x = b
  <2> SUFFICES ASSUME NEW x, NEW q \in PlanIds, NEW k \in 1..Len(ran'[q]), ran'[q][k].approval = x, x # b
               PROVE  Spent(x)
    BY DEF Spent
  <2>1. CASE q # p
    BY <1>9, <2>1 DEF Spent
  <2>2. CASE q = p
    <3>1. k # n
      BY <1>6, <1>9, <2>2
    <3>2. k \in 1..(n - 1) /\ k \in 1..Len(ran[p])
      BY <1>2, <1>3, <1>9, <2>2, <3>1
    <3> QED BY <1>2, <1>9, <2>2, <3>2 DEF Spent
  <2> QED BY <2>1, <2>2
<1>19. b # 0 => b <= issued /\ ~Spent(b) /\ (\A t \in pending : t.id # b)
               /\ \A q \in Requests : q # r /\ Granted(q) => req[q].approval # b
  BY <1>1 DEF IInv, ApprovalInv, Granted
<1>20. ApprovalInv'
  <2>1. \A q \in Requests : Granted(q)' => q # r /\ Granted(q) /\ req'[q] = req[q]
    BY <1>10, <1>12 DEF Granted
  <2>2. \A t \in pending : t.id # 0
    BY <1>1 DEF TypeOK, Ticket
  <2>3. \A t \in pending : ~Spent(t.id)'
    BY <1>18, <1>19, <2>2 DEF IInv, ApprovalInv
  <2>4. \A q \in PlanIds : \A k \in 1..Len(ran'[q]) : ran'[q][k].approval <= issued
    <3> SUFFICES ASSUME NEW q \in PlanIds, NEW k \in 1..Len(ran'[q])
                 PROVE  ran'[q][k].approval <= issued
      OBVIOUS
    <3>1. CASE q = p /\ k = n
      <4>1. issued \in Nat
        BY <1>1 DEF TypeOK
      <4> QED BY <1>2, <1>6, <1>9, <1>19, <3>1, <4>1
    <3>2. CASE ~(q = p /\ k = n)
      <4>1. k \in 1..Len(ran[q]) /\ ran'[q][k] = ran[q][k]
        BY <1>2, <1>3, <1>9, <3>2
      <4> QED BY <4>1 DEF IInv, ApprovalInv
    <3> QED BY <3>1, <3>2
  <2>5. \A q \in Requests : Granted(q)' => ~Spent(req[q].approval)'
    <3> SUFFICES ASSUME NEW q \in Requests, Granted(q)'
                 PROVE  ~Spent(req[q].approval)'
      OBVIOUS
    <3>1. ~Spent(req[q].approval) /\ req[q].approval # b /\ req'[q].approval = req[q].approval
      BY <1>19, <2>1 DEF IInv, ApprovalInv, Granted
    <3> QED BY <1>18, <3>1
  <2>6. ApprovalsRunOnce'
    <3> SUFFICES ASSUME NEW q \in PlanIds, NEW s \in PlanIds,
                        NEW k \in 1..Len(ran'[q]), NEW l \in 1..Len(ran'[s]),
                        ran'[q][k].approval # 0,
                        ran'[q][k].approval = ran'[s][l].approval
                 PROVE  q = s /\ k = l
      BY DEF ApprovalsRunOnce
    <3>1. \/ q = p /\ k = n
          \/ k \in 1..Len(ran[q]) /\ ran'[q][k] = ran[q][k]
      <4>1. CASE q # p
        BY <1>9, <4>1
      <4>2. CASE q = p
        BY <1>2, <1>3, <1>9, <4>2
      <4> QED BY <4>1, <4>2
    <3>2. \/ s = p /\ l = n
          \/ l \in 1..Len(ran[s]) /\ ran'[s][l] = ran[s][l]
      <4>1. CASE s # p
        BY <1>9, <4>1
      <4>2. CASE s = p
        BY <1>2, <1>3, <1>9, <4>2
      <4> QED BY <4>1, <4>2
    <3>3. CASE q = p /\ k = n /\ ~(s = p /\ l = n)
      BY <1>6, <1>9, <1>19, <3>2, <3>3 DEF Spent
    <3>4. CASE s = p /\ l = n /\ ~(q = p /\ k = n)
      BY <1>6, <1>9, <1>19, <3>1, <3>4 DEF Spent
    <3>5. CASE ~(s = p /\ l = n) /\ ~(q = p /\ k = n)
      <4>1. k \in 1..Len(ran[q]) /\ l \in 1..Len(ran[s])
        BY <3>1, <3>2, <3>5
      <4>2. ran[q][k].approval # 0 /\ ran[q][k].approval = ran[s][l].approval
        BY <3>1, <3>2, <3>5
      <4>3. ApprovalsRunOnce
        BY DEF IInv, ApprovalInv
      <4> QED BY <4>1, <4>2, <4>3 DEF ApprovalsRunOnce
    <3> QED BY <3>3, <3>4, <3>5
  <2> QED BY <1>13, <2>1, <2>3, <2>4, <2>5, <2>6 DEF IInv, ApprovalInv
<1> QED BY <1>14, <1>15, <1>16, <1>17, <1>20, AdvancesInv

\* The step at the position of a request returned SUCCESS.
LEMMA StepSucceedsInv ==
  ASSUME IInv, NEW r \in Requests, StepSucceeds(r)
  PROVE  IInv'
<1> DEFINE p == req[r].plan
           n == req[r].pos
<1>1. /\ TypeOK /\ req \in [Requests -> Request] /\ req[r] \in Request
      /\ Serves(r) /\ ServingFacts(r) /\ req[r].pc = "running"
  BY DEF IInv, TypeOK, ServingInv, StepSucceeds, Serves, Serving
<1>2. p \in PlanIds /\ n \in Nat \ {0} /\ plan[p] \in Seq(Steps)
  BY <1>1, RequestType DEF ServingFacts, TypeOK
<1>3. /\ n <= Len(plan[p]) /\ Len(ran[p]) = n
      /\ \A k \in 1..(n - 1) : ran[p][k].outcome = "success"
  BY <1>1, <1>2 DEF ServingFacts
<1>4. /\ ran' \in [PlanIds -> Seq(Run)]
      /\ \A q \in PlanIds : q # p => ran'[q] = ran[q]
      /\ Len(ran'[p]) = Len(ran[p])
      /\ ran'[p][Len(ran[p])].outcome = "success"
      /\ \A k \in 1..Len(ran[p]) :
           /\ ran'[p][k].pos = ran[p][k].pos
           /\ ran'[p][k].agent = ran[p][k].agent
           /\ ran'[p][k].action = ran[p][k].action
           /\ ran'[p][k].approval = ran[p][k].approval
           /\ k < Len(ran[p]) => ran'[p][k].outcome = ran[p][k].outcome
  <2>1. "success" \in Outcomes /\ Outcome(p, "success")
    BY DEF Outcomes, StepSucceeds
  <2> QED BY <1>1, <1>2, <1>3, <2>1, OutcomeKeeps
<1> DEFINE new == [req[r] EXCEPT !.pc = "resolve", !.pos = n + 1, !.approval = 0]
<1>5. /\ new \in Request /\ new.pc = "resolve" /\ new.plan = p /\ new.pos = n + 1
      /\ new.needs = req[r].needs /\ new.approval = 0
  <2>1. n + 1 \in Nat \ {0} /\ "resolve" \in Phases
    BY <1>2 DEF Phases
  <2> QED BY <1>1, <2>1 DEF Request
<1>6. req' = [req EXCEPT ![r] = new]
  BY <1>1 DEF StepSucceeds, NextIteration
<1> HIDE DEF new
<1>7. req' \in [Requests -> Request] /\ req'[r] = new /\ \A q \in Requests : q # r => req'[q] = req[q]
  BY <1>1, <1>5, <1>6
<1>8. UNCHANGED <<agents, pending, issued, nextPlan, plan, announced, remembered, rejected>>
  BY DEF StepSucceeds
<1>9. Advances(r)
  <2>1. ~new.needs /\ Serves(r)'
    BY <1>1, <1>5, <1>7 DEF IInv, NeedsInv, Serves, Serving
  <2>2. plan' \in [PlanIds -> Seq(Steps)]
    BY <1>1, <1>8 DEF TypeOK
  <2> QED BY <1>1, <1>4, <1>5, <1>7, <1>8, <2>1, <2>2 DEF Advances
<1>10. \A k \in 1..n : ran'[p][k].outcome = "success"
  <2> SUFFICES ASSUME NEW k \in 1..n
               PROVE  ran'[p][k].outcome = "success"
    OBVIOUS
  <2>1. CASE k = n
    BY <1>3, <1>4, <2>1
  <2>2. CASE k # n
    <3>1. k \in 1..(n - 1) /\ k < n
      BY <1>2, <2>2
    <3> QED BY <1>3, <1>4, <3>1
  <2> QED BY <2>1, <2>2
<1>11. ServingFacts(r)'
  <2>1. p # 0 /\ p < nextPlan' /\ ~Over(p)' /\ n + 1 <= Len(plan'[p]) + 1
    BY <1>1, <1>2, <1>3, <1>5, <1>7, <1>8 DEF ServingFacts, Over
  <2>2. Len(ran'[p]) = (n + 1) - 1 /\ \A k \in 1..((n + 1) - 1) : ran'[p][k].outcome = "success"
    BY <1>2, <1>3, <1>4, <1>10
  <2> QED BY <1>5, <1>7, <2>1, <2>2 DEF ServingFacts, RanWell
<1>12. RunsFollowThePlan' /\ StopsAtFirstFailure' /\ ConfirmedBeforeRun'
  <2>1. RunsFollowThePlan /\ StopsAtFirstFailure /\ ConfirmedBeforeRun
    BY DEF IInv, HistoryInv
  <2> SUFFICES ASSUME NEW q \in PlanIds
               PROVE  /\ Len(ran'[q]) <= Len(plan[q])
                      /\ \A k \in 1..Len(ran'[q]) :
                           /\ ran'[q][k].pos = k
                           /\ ran'[q][k].action = plan[q][k].action
                           /\ AgentName[ran'[q][k].agent] = plan[q][k].agent
                           /\ k < Len(ran'[q]) => ran'[q][k].outcome = "success"
                           /\ <<ran'[q][k].agent, ran'[q][k].action>> \in Asks => ran'[q][k].approval # 0
    BY <1>8 DEF RunsFollowThePlan, StopsAtFirstFailure, ConfirmedBeforeRun
  <2>2. CASE q # p
    BY <1>4, <2>1, <2>2 DEF RunsFollowThePlan, StopsAtFirstFailure, ConfirmedBeforeRun
  <2>3. CASE q = p
    <3>1. ASSUME NEW k \in 1..Len(ran[p])
          PROVE  /\ ran'[p][k].pos = k
                 /\ ran'[p][k].action = plan[p][k].action
                 /\ AgentName[ran'[p][k].agent] = plan[p][k].agent
                 /\ <<ran'[p][k].agent, ran'[p][k].action>> \in Asks => ran'[p][k].approval # 0
      <4>1. /\ ran[p][k].pos = k /\ ran[p][k].action = plan[p][k].action
            /\ AgentName[ran[p][k].agent] = plan[p][k].agent
            /\ <<ran[p][k].agent, ran[p][k].action>> \in Asks => ran[p][k].approval # 0
        BY <1>2, <2>1 DEF RunsFollowThePlan, ConfirmedBeforeRun
      <4>2. /\ ran'[p][k].pos = ran[p][k].pos /\ ran'[p][k].agent = ran[p][k].agent
            /\ ran'[p][k].action = ran[p][k].action /\ ran'[p][k].approval = ran[p][k].approval
        BY <1>4
      <4> QED BY <4>1, <4>2
    <3>2. Len(ran'[p]) <= Len(plan[p])
      BY <1>3, <1>4
    <3>3. \A k \in 1..Len(ran'[p]) : k \in 1..Len(ran[p]) /\ ran'[p][k].outcome = "success"
      BY <1>3, <1>4, <1>10
    <3> QED BY <2>3, <3>1, <3>2, <3>3
  <2> QED BY <2>2, <2>3
<1>13. UncheckedInv'
  BY <1>5, <1>7, <1>8 DEF IInv, UncheckedInv, Step
<1>14. ApprovalInv'
  <2>1. \A q \in PlanIds : /\ Len(ran'[q]) = Len(ran[q])
                           /\ \A k \in 1..Len(ran[q]) : ran'[q][k].approval = ran[q][k].approval
    BY <1>2, <1>4
  <2>2. \A x : Spent(x)' <=> Spent(x)
    BY <2>1 DEF Spent
  <2>3. \A q \in Requests : Granted(q)' => Granted(q) /\ req'[q] = req[q]
    BY <1>5, <1>7 DEF Granted
  <2>4. ApprovalsRunOnce'
    <3> SUFFICES ASSUME NEW q \in PlanIds, NEW s \in PlanIds,
                        NEW k \in 1..Len(ran[q]), NEW l \in 1..Len(ran[s]),
                        ran'[q][k].approval # 0,
                        ran'[q][k].approval = ran'[s][l].approval
                 PROVE  q = s /\ k = l
      BY <2>1 DEF ApprovalsRunOnce
    <3>1. ran[q][k].approval # 0 /\ ran[q][k].approval = ran[s][l].approval
      BY <2>1
    <3> QED BY <3>1 DEF IInv, ApprovalInv, ApprovalsRunOnce
  <2>5. \A q \in PlanIds : \A k \in 1..Len(ran'[q]) : ran'[q][k].approval <= issued
    BY <2>1 DEF IInv, ApprovalInv
  <2> QED BY <1>8, <2>2, <2>3, <2>4, <2>5 DEF IInv, ApprovalInv
<1> QED BY <1>9, <1>11, <1>12, <1>13, <1>14, AdvancesInv

----------------------------------------------------------------------------
(* The theorems.                                                           *)

\* The state the API starts in.
LEMMA InitIInv == Init => IInv
<1> SUFFICES ASSUME Init PROVE IInv
  OBVIOUS
<1>1. TypeOK
  <2>1. \A S : <<>> \in Seq(S)
    OBVIOUS
  <2>2. nextPlan \in 1..(MaxPlans + 1)
    BY BoundsAssumption DEF Init
  <2> QED BY <2>1, <2>2, NativeAgentsType, IdleType DEF Init, TypeOK
<1>2. \A r \in Requests : req[r].pc = "idle" /\ ~req[r].needs
  BY DEF Init, Idle
<1>3. ServingInv /\ ClosingInv /\ OneHolder /\ UncheckedInv /\ NeedsInv
  BY <1>2 DEF Init, ServingInv, ClosingInv, OneHolder, UncheckedInv, NeedsInv, Serves,
              Serving, Closes
<1>4. TicketInv /\ UnusedInv /\ RegistryInv
  BY NativeAgentsType DEF Init, TicketInv, UnusedInv, Over, RegistryInv
<1>5. \A p \in PlanIds : /\ ran[p] = <<>> /\ Len(ran[p]) = 0
                         /\ announced[p] = <<>> /\ Len(announced[p]) = 0
                         /\ remembered[p] = <<>> /\ Len(remembered[p]) = 0
                         /\ plan[p] = <<>> /\ Len(plan[p]) = 0
  BY EventsOf DEF Init
<1>6. HistoryInv
  <2>1. RunsFollowThePlan /\ StopsAtFirstFailure /\ EndsToldOnce
    BY <1>5 DEF RunsFollowThePlan, StopsAtFirstFailure, EndsToldOnce
  <2>2. SuccessMeansAllRan
    BY <1>5 DEF SuccessMeansAllRan, Events
  <2> QED BY <2>1, <2>2 DEF HistoryInv
<1>7. ApprovalInv /\ ConfirmedBeforeRun
  BY <1>2, <1>5 DEF Init, ApprovalInv, ApprovalsRunOnce, ConfirmedBeforeRun, Spent, Granted
<1> QED BY <1>1, <1>3, <1>4, <1>6, <1>7 DEF IInv

\* Every step of the API, of Redis and of the plugins keeps the invariant.
LEMMA NextIInv == IInv /\ [Next]_vars => IInv'
<1> SUFFICES ASSUME IInv, [Next]_vars PROVE IInv'
  OBVIOUS
<1>1. CASE Environment \/ UNCHANGED vars
  BY <1>1, ReleasingSteps, ReleasesInv
<1>2. ASSUME NEW r \in Requests, Serve(r)
      PROVE  IInv'
  <2>1. CASE Leaves(r)
    BY <2>1, LeavesIsLeavesService, LeavesServiceInv
  <2>2. CASE LlmUnparsable(r) \/ StepMustBeConfirmed(r) \/ StepStarts(r)
    BY <2>1, <2>2, MovingSteps, MovesInv DEF Leaves
  <2>3. CASE LlmProposes(r)
    BY <2>1, <2>3, LlmProposesInv DEF Leaves
  <2>4. CASE StoreConfirmation(r)
    BY <2>4, StoreConfirmationInv
  <2>5. CASE DispatchRuns(r)
    BY <2>5, DispatchRunsInv
  <2>6. CASE StepSucceeds(r)
    BY <2>6, StepSucceedsInv
  <2>7. CASE Remember(r)
    BY <2>7, RememberInv
  <2> QED BY <1>2, <2>1, <2>2, <2>3, <2>4, <2>5, <2>6, <2>7 DEF Serve, Leaves
<1>3. ASSUME NEW r \in Requests, Receive(r)
      PROVE  IInv'
  <2>1. CASE Handle(r)
    BY <2>1, HandleInv
  <2>2. CASE ConfirmUnknown(r)
    BY <2>2, ReleasingSteps, ReleasesInv
  <2>3. ASSUME NEW t \in pending, ConfirmRejected(r, t)
        PROVE  IInv'
    BY <2>3, ConfirmRejectedInv
  <2>4. ASSUME NEW t \in pending, ConfirmAccepted(r, t)
        PROVE  IInv'
    BY <2>4, ConfirmAcceptedInv
  <2>5. ASSUME NEW t \in pending, ConfirmRaises(r, t)
        PROVE  IInv'
    BY <2>5, ReleasingSteps, ReleasesInv
  <2> QED BY <1>3, <2>1, <2>2, <2>3, <2>4, <2>5 DEF Receive
<1> QED BY <1>1, <1>2, <1>3 DEF Next

\* IInv holds in every state the API can reach.
THEOREM Invariance == Spec => []IInv
<1>1. Init => IInv
  BY InitIInv
<1>2. IInv /\ [Next]_vars => IInv'
  BY NextIInv
<1> QED BY <1>1, <1>2, PTL DEF Spec

\* Every variable keeps its type.
THEOREM TypeCorrect == Spec => []TypeOK
<1>1. IInv => TypeOK
  BY DEF IInv
<1> QED BY <1>1, Invariance, PTL

\* No action that asks for a confirmation runs without one, whatever plugins do
\* to the registry while requests are served.
THEOREM Confirmed == Spec => []ConfirmedBeforeRun
<1>1. IInv => ConfirmedBeforeRun
  BY DEF IInv
<1> QED BY <1>1, Invariance, PTL

\* One confirmation, one execution.
THEOREM RunOnce == Spec => []ApprovalsRunOnce
<1>1. IInv => ApprovalsRunOnce
  BY DEF IInv, ApprovalInv
<1> QED BY <1>1, Invariance, PTL

\* The executions of a plan are its first steps, in order, whatever requests,
\* confirmations and restarts they came through.
THEOREM Followed == Spec => []RunsFollowThePlan
<1>1. IInv => RunsFollowThePlan
  BY DEF IInv, HistoryInv
<1> QED BY <1>1, Invariance, PTL

\* A plan whose step failed runs nothing after it, resumed or not.
THEOREM Stopped == Spec => []StopsAtFirstFailure
<1>1. IInv => StopsAtFirstFailure
  BY DEF IInv, HistoryInv
<1> QED BY <1>1, Invariance, PTL

\* Success is only told of a plan that ran whole.
THEOREM Complete == Spec => []SuccessMeansAllRan
<1>1. IInv => SuccessMeansAllRan
  BY DEF IInv, HistoryInv
<1> QED BY <1>1, Invariance, PTL

\* The end of a plan is announced and remembered once.
THEOREM ToldOnce == Spec => []EndsToldOnce
<1>1. IInv => EndsToldOnce
  BY DEF IInv, HistoryInv
<1> QED BY <1>1, Invariance, PTL

\* A step changes the runs of no plan that is over: what runs or ends a step is a
\* request in service, and the plan of such a request is not over.
LEMMA RunsOfServed ==
  ASSUME IInv, [Next]_vars, NEW p \in PlanIds, Over(p)
  PROVE  ran'[p] = ran[p]
<1>1. ran \in [PlanIds -> Seq(Run)]
  BY DEF IInv, TypeOK
<1>2. \A r \in Requests : Serves(r) => req[r].plan # p
  BY DEF IInv, ServingInv, ServingFacts
<1>3. ASSUME NEW r \in Requests, NEW f, ran' = [ran EXCEPT ![req[r].plan] = f], Serves(r)
      PROVE  ran'[p] = ran[p]
  BY <1>1, <1>2, <1>3
<1>4. ASSUME NEW r \in Requests, Serve(r)
      PROVE  ran'[p] = ran[p]
  <2>1. CASE UNCHANGED ran
    BY <2>1
  <2>2. CASE DispatchRuns(r)
    BY <1>3, <2>2 DEF DispatchRuns, Serves, Serving
  <2>3. CASE StepSucceeds(r) \/ StepFails(r) \/ StepRaises(r)
    <3>1. Serves(r) /\ \E o \in Outcomes : Outcome(req[r].plan, o)
      BY <2>3 DEF StepSucceeds, StepFails, StepRaises, Outcomes, Serves, Serving
    <3> QED BY <1>3, <3>1 DEF Outcome
  <2> QED BY <1>4, <2>1, <2>2, <2>3
      DEF Serve, LlmRaises, LlmUnparsable, LlmProposes, PlanCompleted, AgentUnknown,
          StepMustBeConfirmed, StepStarts, StoreConfirmation, StoreConfirmationRaises,
          DispatchRefused, CallRaises, Remember, histories
<1>5. ASSUME NEW r \in Requests, Receive(r)
      PROVE  ran' = ran
  BY <1>5 DEF Receive, Handle, ConfirmUnknown, ConfirmRejected, ConfirmAccepted,
              ConfirmRaises, histories
<1>6. CASE Environment \/ UNCHANGED vars
  BY <1>6 DEF Environment, Register, Unregister, Expire, Restart, vars, histories
<1> QED BY <1>4, <1>5, <1>6 DEF Next

\* Nothing of a plan runs any more once its end was told or its user refused.
THEOREM NothingAfterTheEnd == Spec => OverMeansOver
<1>1. IInv /\ [Next]_vars => [\A p \in PlanIds : Over(p) => ran'[p] = ran[p]]_vars
  BY RunsOfServed
<1> QED BY <1>1, Invariance, PTL DEF Spec, OverMeansOver

----------------------------------------------------------------------------
(* The Planner implements PlanLedger.                                      *)

\* Where one plan is.
Where(p) ==
  IF p >= nextPlan THEN "new"
  ELSE IF HeldBy(p) # {}
       THEN IF \E r \in HeldBy(p) : Approved(r) THEN "approved" ELSE "going"
  ELSE IF \E t \in pending : t.plan = p THEN "waiting"
  ELSE "over"

\* The steps of p that had to be confirmed.
GuardedAt(p) == {k \in 1..Len(ran[p]) : <<ran[p][k].agent, ran[p][k].action>> \in Asks}

LEMMA PhaseIsWhere ==
  /\ LedgerPhase = [p \in PlanIds |-> Where(p)]
  /\ LedgerPhase' = [p \in PlanIds |-> Where(p)']
  /\ LedgerGuarded = [p \in PlanIds |-> Cardinality(GuardedAt(p))]
  /\ LedgerGuarded' = [p \in PlanIds |-> Cardinality(GuardedAt(p)')]
BY DEF LedgerPhase, Where, LedgerGuarded, GuardedAt

\* Only requests in service hold a plan, and each holds its own.
HoldersServe ==
  \A p \in PlanIds : HeldBy(p) = {r \in Requests : Serves(r) /\ req[r].plan = p}

LEMMA Holders == TypeOK => HoldersServe
BY RequestType DEF HoldersServe, HeldBy, Serves, Serving, Phases

LEMMA HoldersNext == TypeOK' => HoldersServe'
BY Holders, PTL

LEMMA WhereServed ==
  IInv => \A r \in Requests : Serves(r) =>
    /\ req[r].plan \in PlanIds
    /\ HeldBy(req[r].plan) = {r}
    /\ Where(req[r].plan) = IF Approved(r) THEN "approved" ELSE "going"
    /\ \A t \in pending : t.plan # req[r].plan
<1> SUFFICES ASSUME IInv, NEW r \in Requests, Serves(r)
             PROVE  /\ req[r].plan \in PlanIds
                    /\ HeldBy(req[r].plan) = {r}
                    /\ Where(req[r].plan) = IF Approved(r) THEN "approved" ELSE "going"
                    /\ \A t \in pending : t.plan # req[r].plan
  OBVIOUS
<1> DEFINE p == req[r].plan
<1>1. TypeOK /\ p \in PlanIds /\ p < nextPlan /\ nextPlan \in Nat
  BY RequestType, BoundsAssumption DEF IInv, TypeOK, ServingInv, ServingFacts
<1>2. HeldBy(p) = {r}
  BY <1>1, Holders DEF IInv, OneHolder, HoldersServe
<1>3. ~(p >= nextPlan)
  BY <1>1 DEF PlanIds
<1>4. \A t \in pending : t.plan # p
  BY DEF IInv, OneHolder
<1> QED
  BY <1>1, <1>2, <1>3, <1>4 DEF Where

\* Where a plan is that is served.
ServedWhere ==
  \A r \in Requests : Serves(r) =>
    Where(req[r].plan) = IF Approved(r) THEN "approved" ELSE "going"

LEMMA WhereServedNext == IInv' => ServedWhere'
<1>1. IInv => ServedWhere
  BY WhereServed DEF ServedWhere
<1> QED
  BY <1>1, PTL

LEMMA WhereWaiting ==
  IInv => \A t \in pending :
    t.plan \in PlanIds /\ HeldBy(t.plan) = {} /\ Where(t.plan) = "waiting"
<1> SUFFICES ASSUME IInv, NEW t \in pending
             PROVE  t.plan \in PlanIds /\ HeldBy(t.plan) = {} /\ Where(t.plan) = "waiting"
  OBVIOUS
<1>1. TypeOK /\ t.plan \in PlanIds /\ t.plan < nextPlan /\ nextPlan \in Nat
  BY BoundsAssumption DEF IInv, TypeOK, TicketInv, TicketFacts, Ticket
<1>2. HeldBy(t.plan) = {}
  BY <1>1, Holders DEF IInv, OneHolder, HoldersServe
<1>3. ~(t.plan >= nextPlan)
  BY <1>1 DEF PlanIds
<1> QED
  BY <1>1, <1>2, <1>3 DEF Where

WaitingWhere == \A t \in pending : Where(t.plan) = "waiting"

LEMMA WhereWaitingNext == IInv' => WaitingWhere'
<1>1. IInv => WaitingWhere
  BY WhereWaiting DEF WaitingWhere
<1> QED
  BY <1>1, PTL

\* What ran counts the same as long as runs only get their outcome.
LEMMA CountsKept ==
  ASSUME TypeOK,
         \A p \in PlanIds :
           /\ Len(ran'[p]) = Len(ran[p])
           /\ \A k \in 1..Len(ran[p]) :
                ran'[p][k].agent = ran[p][k].agent /\ ran'[p][k].action = ran[p][k].action
  PROVE  UNCHANGED <<LedgerRuns, LedgerGuarded>>
<1>1. \A p \in PlanIds : GuardedAt(p)' = GuardedAt(p)
  BY DEF GuardedAt
<1> QED
  BY <1>1, PhaseIsWhere DEF LedgerRuns

\* Holders that let their plans go, end them.
LEMMA LettingGo ==
  ASSUME IInv, TypeOK',
         \A q \in Requests : req'[q] = req[q] \/ ~Serves(q)',
         pending' \subseteq pending, nextPlan' = nextPlan,
         UNCHANGED <<LedgerRuns, LedgerGuarded>>
  PROVE  Ledger!Next
<1> DEFINE S == {p \in PlanIds : Where(p)' # Where(p)}
<1>1. ASSUME NEW p \in PlanIds
      PROVE  Where(p)' \in {Where(p), "over"}
  <2>1. /\ HeldBy(p) = {r \in Requests : Serves(r) /\ req[r].plan = p}
        /\ HeldBy(p)' = {r \in Requests : Serves(r)' /\ req'[r].plan = p}
    BY Holders, HoldersNext DEF IInv, HoldersServe
  <2>2. HeldBy(p)' \subseteq HeldBy(p) /\ \A r \in HeldBy(p)' : Approved(r)' = Approved(r)
    BY <2>1 DEF Serves, Approved
  <2>3. CASE p >= nextPlan
    BY <2>3 DEF Where
  <2>4. CASE ~(p >= nextPlan) /\ HeldBy(p) = {}
    BY <2>2, <2>4 DEF Where
  <2>5. CASE ~(p >= nextPlan) /\ HeldBy(p) # {}
    <3>1. PICK r \in HeldBy(p) : TRUE
      BY <2>5
    <3>2. HeldBy(p) = {r} /\ \A t \in pending : t.plan # p
      BY <2>1, <3>1, WhereServed
    <3> QED
      BY <2>2, <2>5, <3>2 DEF Where
  <2> QED
    BY <2>3, <2>4, <2>5
<1>2. LedgerPhase' = [p \in PlanIds |-> IF p \in S THEN "over" ELSE LedgerPhase[p]]
  BY <1>1, PhaseIsWhere
<1>3. Ledger!End(S)
  BY <1>2 DEF Ledger!End
<1> QED
  BY <1>3 DEF Ledger!Next

\* What a request does with its own plan is nothing to the others.
LEMMA OtherPlans ==
  ASSUME TypeOK, TypeOK', NEW p, NEW r \in Requests,
         \A q \in Requests : q # r => req'[q] = req[q],
         Serves(r) => req[r].plan = p,
         Serves(r)' => req'[r].plan = p,
         \A q \in PlanIds : q # p =>
           /\ q >= nextPlan' <=> q >= nextPlan
           /\ (\E t \in pending' : t.plan = q) <=> \E t \in pending : t.plan = q
  PROVE  \A q \in PlanIds : q # p => LedgerPhase'[q] = LedgerPhase[q]
<1> SUFFICES ASSUME NEW q \in PlanIds, q # p
             PROVE  Where(q)' = Where(q)
  BY PhaseIsWhere
<1>1. /\ HeldBy(q) = {s \in Requests : Serves(s) /\ req[s].plan = q}
      /\ HeldBy(q)' = {s \in Requests : Serves(s)' /\ req'[s].plan = q}
  BY Holders, HoldersNext DEF HoldersServe
<1>2. HeldBy(q)' = HeldBy(q) /\ \A s \in HeldBy(q) : Approved(s)' = Approved(s)
  BY <1>1 DEF Serves, Approved
<1> QED
  BY <1>2 DEF Where

\* A request that goes on serving its plan, approved as before or as little, does
\* nothing to the ledger.
LEMMA GoingOn ==
  ASSUME IInv, IInv', NEW r \in Requests, Serves(r), Serves(r)',
         req'[r].plan = req[r].plan,
         Approved(r)' <=> Approved(r),
         \A q \in Requests : q # r => req'[q] = req[q],
         UNCHANGED <<pending, nextPlan, LedgerRuns, LedgerGuarded>>
  PROVE  UNCHANGED Ledger!vars
<1> DEFINE p == req[r].plan
<1>1. Where(p)' = Where(p) /\ p \in PlanIds
  <2>1. Where(p) = IF Approved(r) THEN "approved" ELSE "going"
    BY WhereServed
  <2>2. Where(req[r].plan)' = IF Approved(r)' THEN "approved" ELSE "going"
    BY WhereServedNext DEF ServedWhere
  <2>3. p \in PlanIds
    BY WhereServed
  <2> QED
    BY <2>1, <2>2, <2>3
<1>2. \A q \in PlanIds : q # p => LedgerPhase'[q] = LedgerPhase[q]
  BY OtherPlans DEF IInv
<1>3. LedgerPhase' = LedgerPhase
  BY <1>1, <1>2, PhaseIsWhere
<1> QED
  BY <1>3 DEF Ledger!vars

\* A step that gives up holders, or stutters, ends their plans in the ledger.
LEMMA LedgerReleases ==
  ASSUME IInv, IInv',
         \/ Releases
         \/ \E r \in Requests : Remember(r) \/ \E t \in pending : ConfirmRejected(r, t)
  PROVE  Ledger!Next
<1>1. UNCHANGED ran => UNCHANGED <<LedgerRuns, LedgerGuarded>>
  BY CountsKept DEF IInv
<1>2. TypeOK /\ TypeOK' /\ req \in [Requests -> Request]
  BY DEF IInv, TypeOK
<1>3. CASE Releases
  BY <1>1, <1>2, <1>3, LettingGo DEF Releases
<1>4. ASSUME NEW r \in Requests, Remember(r)
      PROVE  Ledger!Next
  <2>1. ~Serves(r)' /\ \A q \in Requests : q # r => req'[q] = req[q]
    BY <1>2, <1>4 DEF Remember, Serves, Serving, Idle
  <2> QED
    BY <1>1, <1>2, <1>4, <2>1, LettingGo DEF Remember
<1>5. ASSUME NEW r \in Requests, NEW t \in pending, ConfirmRejected(r, t)
      PROVE  Ledger!Next
  <2>1. t.plan \in 0..MaxPlans
    BY <1>2, BoundsAssumption DEF TypeOK, Ticket, PlanIds
  <2>2. ~Serves(r)' /\ \A q \in Requests : q # r => req'[q] = req[q]
    BY <1>2, <1>5, <2>1, AnswersChange DEF ConfirmRejected, Serves, Serving
  <2> QED
    BY <1>1, <1>2, <1>5, <2>2, LettingGo DEF ConfirmRejected, ConsumeTicket
<1> QED
  BY <1>3, <1>4, <1>5

\* The outcome of a step is nothing to the ledger.
LEMMA OutcomeCounts ==
  ASSUME TypeOK, NEW r \in Requests, ServingFacts(r), req[r].pc = "running",
         NEW o \in Outcomes, Outcome(req[r].plan, o)
  PROVE  UNCHANGED <<LedgerRuns, LedgerGuarded>>
<1> DEFINE p == req[r].plan
<1>1. p \in PlanIds /\ Len(ran[p]) \in Nat \ {0}
  BY RequestType DEF ServingFacts
<1>2. \A q \in PlanIds : q # p => ran'[q] = ran[q]
  BY DEF Outcome, TypeOK
<1>3. /\ Len(ran'[p]) = Len(ran[p])
      /\ \A k \in 1..Len(ran[p]) :
           ran'[p][k].agent = ran[p][k].agent /\ ran'[p][k].action = ran[p][k].action
  BY <1>1, OutcomeKeeps
<1> QED
  BY <1>2, <1>3, CountsKept

\* The end of its service ends a plan.
LEMMA LedgerLeaves ==
  ASSUME IInv, IInv', NEW r \in Requests, LeavesService(r)
  PROVE  Ledger!Next
<1>1. UNCHANGED <<LedgerRuns, LedgerGuarded>>
  <2>1. CASE ran' = ran
    BY <2>1, CountsKept DEF IInv
  <2>2. CASE req[r].pc = "running" /\ \E o \in Outcomes : Outcome(req[r].plan, o)
    BY <2>2, OutcomeCounts DEF IInv, ServingInv, LeavesService
  <2> QED
    BY <2>1, <2>2 DEF LeavesService
<1>2. ~Serves(r)'
  BY DEF LeavesService, Serves, Serving
<1> QED
  BY <1>1, <1>2, LettingGo DEF LeavesService, IInv

\* A request that takes its plan from the LLM, or goes from one step to the next
\* or on to its agent, does nothing to the ledger.
LEMMA LedgerGoesOn ==
  ASSUME IInv, IInv', NEW r \in Requests,
         \/ LlmUnparsable(r) \/ LlmProposes(r) \/ StepMustBeConfirmed(r) \/ StepStarts(r)
         \/ StepSucceeds(r),
         req'[r].pc # "remember"
  PROVE  UNCHANGED Ledger!vars
<1>1. TypeOK /\ TypeOK' /\ req \in [Requests -> Request] /\ req[r] \in Request
      /\ req[r].plan \in 0..MaxPlans
  BY RequestType, BoundsAssumption DEF IInv, TypeOK
<1>2. UNCHANGED ran => UNCHANGED <<LedgerRuns, LedgerGuarded>>
  BY <1>1, CountsKept
<1>3. CASE LlmUnparsable(r) \/ StepMustBeConfirmed(r) \/ StepStarts(r)
  <2>1. Moves(r)
    BY <1>3, MovingSteps
  <2>2. Approved(r)' <=> Approved(r)
    <3>1. CASE LlmUnparsable(r)
      BY <2>1, <3>1 DEF LlmUnparsable, Moves, Approved
    <3>2. CASE StepMustBeConfirmed(r)
      BY <2>1, <3>2 DEF StepMustBeConfirmed, NeedsConfirmation, Moves, Approved
    <3>3. CASE StepStarts(r)
      <4>1. req'[r].pc = "dispatch" /\ req[r].pc = "resolve"
        BY <1>1, <3>3 DEF StepStarts
      <4> QED
        BY <2>1, <4>1 DEF Moves, Approved
    <3> QED
      BY <1>3, <3>1, <3>2, <3>3
  <2> QED
    BY <1>2, <2>1, <2>2, GoingOn DEF Moves, histories
<1>4. CASE LlmProposes(r)
  <2>1. req' = [req EXCEPT ![r].pc = "resolve"]
    BY <1>1, <1>4, AnswersChange DEF LlmProposes
  <2>2. /\ req'[r].pc = "resolve" /\ req'[r].plan = req[r].plan
        /\ req'[r].approval = req[r].approval
        /\ \A q \in Requests : q # r => req'[q] = req[q]
    BY <1>1, <2>1 DEF Request
  <2>3. Serves(r) /\ Serves(r)' /\ req[r].pc = "interpret"
    BY <1>4, <2>2 DEF LlmProposes, Serves, Serving
  <2>4. req[r].approval = 0
    BY <2>3 DEF IInv, ServingInv, ServingFacts
  <2>5. Approved(r)' <=> Approved(r)
    BY <2>2, <2>4 DEF Approved
  <2> QED
    BY <1>2, <1>4, <2>2, <2>3, <2>5, GoingOn DEF LlmProposes, histories
<1>5. CASE StepSucceeds(r)
  <2>1. /\ req'[r].pc = "resolve" /\ req'[r].plan = req[r].plan /\ req'[r].approval = 0
        /\ \A q \in Requests : q # r => req'[q] = req[q]
    BY <1>1, <1>5 DEF StepSucceeds, NextIteration, Request
  <2>2. Serves(r) /\ Serves(r)' /\ req[r].pc = "running"
    BY <1>5, <2>1 DEF StepSucceeds, Serves, Serving
  <2>3. Approved(r)' <=> Approved(r)
    BY <2>1, <2>2 DEF Approved
  <2>4. "success" \in Outcomes /\ ServingFacts(r)
    BY <2>2 DEF Outcomes, IInv, ServingInv
  <2>5. UNCHANGED <<LedgerRuns, LedgerGuarded>>
    BY <1>1, <1>5, <2>2, <2>4, OutcomeCounts DEF StepSucceeds
  <2> QED
    BY <1>5, <2>1, <2>2, <2>3, <2>5, GoingOn DEF StepSucceeds
<1> QED
  BY <1>3, <1>4, <1>5

\* A new request is the beginning of its plan.
LEMMA LedgerHandle ==
  ASSUME IInv, IInv', NEW r \in Requests, Handle(r)
  PROVE  Ledger!Begin(nextPlan)
<1> DEFINE new == [Idle EXCEPT !.pc = "interpret", !.plan = nextPlan]
<1>1. /\ TypeOK /\ TypeOK' /\ req \in [Requests -> Request] /\ nextPlan \in PlanIds
      /\ nextPlan \in Nat /\ nextPlan' = nextPlan + 1
  <2>1. TypeOK /\ TypeOK'
    BY DEF IInv
  <2>2. nextPlan \in 1..(MaxPlans + 1) /\ nextPlan <= MaxPlans /\ nextPlan' = nextPlan + 1
    BY <2>1 DEF TypeOK, Handle
  <2>3. req \in [Requests -> Request]
    BY <2>1 DEF TypeOK
  <2> QED
    BY <2>1, <2>2, <2>3, BoundsAssumption DEF PlanIds
<1>2. new.pc = "interpret" /\ new.plan = nextPlan /\ new.approval = 0
  BY DEF Idle
<1>3. req' = [req EXCEPT ![r] = new]
  BY DEF Handle
<1> HIDE DEF new
<1>4. req'[r] = new /\ \A q \in Requests : q # r => req'[q] = req[q]
  BY <1>1, <1>3
<1>5. ~Serves(r) /\ Serves(r)' /\ req'[r].plan = nextPlan
  BY <1>2, <1>4 DEF Handle, Serves, Serving
<1>6. Where(nextPlan) = "new"
  BY <1>1 DEF Where
<1>7. Where(req[r].plan)' = "going"
  <2>1. ~Approved(r)'
    BY <1>2, <1>4 DEF Approved
  <2> QED
    BY <1>5, <2>1, WhereServedNext DEF ServedWhere
<1>8. \A q \in PlanIds : q # nextPlan => LedgerPhase'[q] = LedgerPhase[q]
  <2>1. \A q \in PlanIds : q # nextPlan => (q >= nextPlan' <=> q >= nextPlan)
    BY <1>1 DEF PlanIds
  <2>2. pending' = pending
    BY DEF Handle
  <2> QED
    BY <1>1, <1>4, <1>5, <2>1, <2>2, OtherPlans
<1>9. UNCHANGED <<LedgerRuns, LedgerGuarded>>
  BY <1>1, CountsKept DEF Handle, histories
<1> QED
  <2> DEFINE n == nextPlan
  <2>1. LedgerPhase'[n] = "going"
    <3>1. LedgerPhase'[req'[r].plan] = Where(req[r].plan)'
      BY <1>1, <1>5, PhaseIsWhere DEF Where, HeldBy
    <3> QED
      BY <1>5, <1>7, <3>1
  <2>2. LedgerPhase' = [LedgerPhase EXCEPT ![n] = "going"]
    BY <1>1, <1>8, <2>1, PhaseIsWhere
  <2>3. LedgerPhase[n] = "new"
    BY <1>1, <1>6, PhaseIsWhere
  <2> QED
    BY <1>9, <2>2, <2>3 DEF Ledger!Begin, Ledger!Moves

\* A stored confirmation is the question.
LEMMA LedgerAsks ==
  ASSUME IInv, IInv', NEW r \in Requests, StoreConfirmation(r)
  PROVE  Ledger!Ask(req[r].plan)
<1> DEFINE p == req[r].plan
           t == TicketOf(r)
<1>1. /\ TypeOK /\ TypeOK' /\ req \in [Requests -> Request] /\ Serves(r) /\ req[r].pc = "ask"
      /\ p \in PlanIds
  BY WhereServed DEF IInv, TypeOK, StoreConfirmation, Serves, Serving
<1>2. Where(p) = "going"
  BY <1>1, WhereServed DEF Approved
<1>3. ~Serves(r)' /\ \A q \in Requests : q # r => req'[q] = req[q]
  BY <1>1 DEF StoreConfirmation, Serves, Serving
<1>4. t.plan = p /\ pending' = pending \cup {t}
  BY DEF StoreConfirmation, TicketOf
<1> HIDE DEF t
<1>5. LedgerPhase'[t.plan] = "waiting"
  <2>1. t \in pending' /\ t.plan \in PlanIds
    BY <1>1, <1>4
  <2> QED
    BY <2>1, WhereWaitingNext, PhaseIsWhere DEF WaitingWhere
<1>6. \A q \in PlanIds : q # p => LedgerPhase'[q] = LedgerPhase[q]
  BY <1>1, <1>3, <1>4, OtherPlans DEF StoreConfirmation
<1>7. LedgerPhase[p] = "going" /\ LedgerPhase' = [LedgerPhase EXCEPT ![p] = "waiting"]
  BY <1>1, <1>2, <1>4, <1>5, <1>6, PhaseIsWhere
<1>8. UNCHANGED <<LedgerRuns, LedgerGuarded>>
  BY <1>1, CountsKept DEF StoreConfirmation, histories
<1> QED
  BY <1>7, <1>8 DEF Ledger!Ask, Ledger!Moves

\* The phrase is the approval.
LEMMA LedgerApproves ==
  ASSUME IInv, IInv', NEW r \in Requests, NEW t \in pending, ConfirmAccepted(r, t)
  PROVE  Ledger!Approve(t.plan)
<1> DEFINE p == t.plan
           new == Resumed(t)
<1>1. /\ TypeOK /\ TypeOK' /\ req \in [Requests -> Request] /\ p \in PlanIds
      /\ t.id \in Nat \ {0}
  BY DEF IInv, TypeOK, Ticket
<1>2. Where(p) = "waiting" /\ req[r].pc = "idle"
  BY WhereWaiting DEF ConfirmAccepted
<1>3. new.pc = "resolve" /\ new.plan = p /\ new.approval = t.id
  BY DEF Resumed, Idle
<1>4. req' = [req EXCEPT ![r] = new]
  BY DEF ConfirmAccepted
<1> HIDE DEF new
<1>5. req'[r] = new /\ \A q \in Requests : q # r => req'[q] = req[q]
  BY <1>1, <1>4
<1>6. ~Serves(r) /\ Serves(r)' /\ req'[r].plan = p /\ Approved(r)'
  BY <1>1, <1>2, <1>3, <1>5 DEF Serves, Serving, Approved
<1>7. LedgerPhase'[req'[r].plan] = "approved"
  <2>1. Where(req[r].plan)' = "approved"
    BY <1>6, WhereServedNext DEF ServedWhere
  <2>2. LedgerPhase'[req'[r].plan] = Where(req[r].plan)'
    BY <1>1, <1>6, PhaseIsWhere DEF Where, HeldBy
  <2> QED
    BY <2>1, <2>2
<1>8. \A q \in PlanIds : q # p => LedgerPhase'[q] = LedgerPhase[q]
  <2>1. pending' = pending \ {t} /\ nextPlan' = nextPlan
    BY DEF ConfirmAccepted, ConsumeTicket
  <2> QED
    BY <1>1, <1>5, <1>6, <2>1, OtherPlans
<1>9. LedgerPhase[p] = "waiting" /\ LedgerPhase' = [LedgerPhase EXCEPT ![p] = "approved"]
  BY <1>1, <1>2, <1>6, <1>7, <1>8, PhaseIsWhere
<1>10. UNCHANGED <<LedgerRuns, LedgerGuarded>>
  BY <1>1, CountsKept DEF ConfirmAccepted, histories
<1> QED
  BY <1>9, <1>10 DEF Ledger!Approve, Ledger!Moves

\* A dispatch is a run, of a step that needs no confirmation or of the one that
\* was approved.
LEMMA LedgerRun ==
  ASSUME IInv, IInv', NEW r \in Requests, DispatchRuns(r)
  PROVE  Ledger!RunFree(req[r].plan) \/ Ledger!RunGuarded(req[r].plan)
<1> DEFINE p == req[r].plan
           a == agents[Step(r).agent]
           act == Step(r).action
           run == [pos |-> req[r].pos, agent |-> a, action |-> act,
                   approval |-> req[r].approval, outcome |-> "running"]
           n == Len(ran[p])
<1>1. /\ TypeOK /\ TypeOK' /\ req \in [Requests -> Request] /\ Serves(r) /\ req[r].pc = "dispatch"
      /\ p \in PlanIds
  BY WhereServed DEF IInv, TypeOK, DispatchRuns, Serves, Serving
<1>2. <<a, act>> \in Asks => req[r].approval # 0
  BY <1>1 DEF IInv, UncheckedInv
<1>3. run.agent = a /\ run.action = act
  OBVIOUS
<1>4. ran' = [ran EXCEPT ![p] = Append(@, run)]
  BY DEF DispatchRuns
<1> HIDE DEF run
<1>5. Where(p) = IF req[r].approval # 0 THEN "approved" ELSE "going"
  BY <1>1, WhereServed DEF Approved
<1>6. /\ req'[r].pc = "running" /\ req'[r].plan = p
      /\ \A q \in Requests : q # r => req'[q] = req[q]
  BY <1>1 DEF DispatchRuns, Request
<1>7. Serves(r)' /\ ~Approved(r)'
  BY <1>6 DEF Serves, Serving, Approved
<1>8. LedgerPhase'[req'[r].plan] = "going"
  <2>1. Where(req[r].plan)' = "going"
    BY <1>7, WhereServedNext DEF ServedWhere
  <2>2. LedgerPhase'[req'[r].plan] = Where(req[r].plan)'
    BY <1>1, <1>6, PhaseIsWhere DEF Where, HeldBy
  <2> QED
    BY <2>1, <2>2
<1>9. \A q \in PlanIds : q # p => LedgerPhase'[q] = LedgerPhase[q]
  BY <1>1, <1>6, <1>7, OtherPlans DEF DispatchRuns
<1>10. LedgerPhase' = [LedgerPhase EXCEPT ![p] = "going"]
  BY <1>1, <1>6, <1>8, <1>9, PhaseIsWhere
<1>11. LedgerPhase[p] = IF req[r].approval # 0 THEN "approved" ELSE "going"
  BY <1>1, <1>5, PhaseIsWhere
<1>12. ran \in [PlanIds -> Seq(Run)] /\ ran' \in [PlanIds -> Seq(Run)] /\ ran[p] \in Seq(Run)
  BY <1>1 DEF TypeOK
<1>13. /\ \A q \in PlanIds : q # p => ran'[q] = ran[q]
       /\ ran'[p] = Append(ran[p], run)
  BY <1>1, <1>4, <1>12
<1>14. /\ Len(ran'[p]) = n + 1 /\ n \in Nat /\ ran'[p][n + 1] = run
       /\ \A k \in 1..n : ran'[p][k] = ran[p][k]
  BY <1>12, <1>13
<1>15. LedgerRuns' = [LedgerRuns EXCEPT ![p] = @ + 1]
  BY <1>1, <1>13, <1>14 DEF LedgerRuns
<1>16. IsFiniteSet(GuardedAt(p)) /\ n + 1 \notin GuardedAt(p)
  <2>1. IsFiniteSet(1..n)
    <3>1. 1 \in Int /\ n \in Int
      BY <1>14
    <3> HIDE DEF n
    <3> QED
      BY <3>1, FS_Interval
  <2>2. GuardedAt(p) \in SUBSET (1..n)
    BY DEF GuardedAt
  <2> QED
    BY <1>14, <2>1, <2>2, FS_Subset
<1>17. \A q \in PlanIds : q # p => GuardedAt(q)' = GuardedAt(q)
  BY <1>13 DEF GuardedAt
<1>18. CASE <<a, act>> \in Asks
  <2>1. {k \in 1..Len(ran'[p]) : <<ran'[p][k].agent, ran'[p][k].action>> \in Asks}
          = GuardedAt(p) \cup {n + 1}
    <3> HIDE DEF a, act, n, p
    <3> SUFFICES ASSUME NEW k
                 PROVE  (k \in 1..(n + 1) /\ <<ran'[p][k].agent, ran'[p][k].action>> \in Asks)
                          <=> (k \in GuardedAt(p) \/ k = n + 1)
      BY <1>14
    <3>1. CASE k = n + 1
      BY <1>3, <1>14, <1>18, <3>1
    <3>2. CASE k # n + 1
      <4>1. k \in 1..(n + 1) <=> k \in 1..n
        BY <1>14, <3>2
      <4> QED
        BY <1>14, <3>2, <4>1 DEF GuardedAt, n
    <3> QED
      BY <3>1, <3>2
  <2>2. Cardinality(GuardedAt(p) \cup {n + 1}) = Cardinality(GuardedAt(p)) + 1
    BY <1>16, FS_AddElement
  <2>3. LedgerGuarded' = [LedgerGuarded EXCEPT ![p] = @ + 1]
    BY <1>1, <1>17, <2>1, <2>2, PhaseIsWhere DEF GuardedAt
  <2> QED
    BY <1>2, <1>10, <1>11, <1>15, <1>18, <2>3 DEF Ledger!RunGuarded
<1>19. CASE <<a, act>> \notin Asks
  <2>1. {k \in 1..Len(ran'[p]) : <<ran'[p][k].agent, ran'[p][k].action>> \in Asks}
          = GuardedAt(p)
    <3> HIDE DEF a, act, n, p
    <3> SUFFICES ASSUME NEW k
                 PROVE  (k \in 1..(n + 1) /\ <<ran'[p][k].agent, ran'[p][k].action>> \in Asks)
                          <=> k \in GuardedAt(p)
      BY <1>14
    <3>1. CASE k = n + 1
      BY <1>3, <1>14, <1>16, <1>19, <3>1
    <3>2. CASE k # n + 1
      <4>1. k \in 1..(n + 1) <=> k \in 1..n
        BY <1>14, <3>2
      <4> QED
        BY <1>14, <3>2, <4>1 DEF GuardedAt, n
    <3> QED
      BY <3>1, <3>2
  <2>2. LedgerGuarded' = LedgerGuarded
    BY <1>17, <2>1, PhaseIsWhere DEF GuardedAt
  <2> QED
    BY <1>10, <1>11, <1>15, <2>2 DEF Ledger!RunFree
<1> QED
  BY <1>18, <1>19

LEMMA LedgerInit == Init => Ledger!Init
<1> SUFFICES ASSUME Init PROVE Ledger!Init
  OBVIOUS
<1>1. \A p \in PlanIds : Where(p) = "new"
  BY BoundsAssumption DEF Init, Where, PlanIds
<1>2. \A p \in PlanIds : GuardedAt(p) = {} /\ Len(ran[p]) = 0
  BY DEF Init, GuardedAt
<1>3. Cardinality({}) = 0
  BY FS_EmptySet
<1>4. LedgerGuarded = [p \in PlanIds |-> 0] /\ LedgerRuns = [p \in PlanIds |-> 0]
  BY <1>2, <1>3, PhaseIsWhere DEF LedgerRuns
<1> QED
  BY <1>1, <1>4, PhaseIsWhere DEF Ledger!Init

\* Every step of the Planner is one of the ledger, or none.
LEMMA LedgerNext == IInv /\ IInv' /\ [Next]_vars => [Ledger!Next]_(Ledger!vars)
<1> SUFFICES ASSUME IInv, IInv', [Next]_vars PROVE Ledger!Next \/ UNCHANGED Ledger!vars
  OBVIOUS
<1>1. CASE Environment \/ UNCHANGED vars
  BY <1>1, ReleasingSteps, LedgerReleases
<1>2. ASSUME NEW r \in Requests, Serve(r)
      PROVE  Ledger!Next \/ UNCHANGED Ledger!vars
  <2>1. CASE Leaves(r)
    BY <2>1, LeavesIsLeavesService, LedgerLeaves
  <2>2. CASE LlmUnparsable(r) \/ LlmProposes(r) \/ StepMustBeConfirmed(r) \/ StepStarts(r)
    <3>1. CASE req'[r].pc = "remember" /\ StepStarts(r)
      BY <3>1 DEF StepStarts, IInv, TypeOK
    <3> QED
      BY <2>1, <2>2, <3>1, LedgerGoesOn DEF Leaves
  <2>3. CASE StepSucceeds(r)
    <3>1. req'[r].pc = "resolve"
      BY <2>3 DEF StepSucceeds, NextIteration, IInv, TypeOK
    <3> QED
      BY <2>3, <3>1, LedgerGoesOn
  <2>4. CASE StoreConfirmation(r)
    BY <2>4, LedgerAsks, WhereServed DEF Ledger!Next, StoreConfirmation, Serves, Serving
  <2>5. CASE DispatchRuns(r)
    BY <2>5, LedgerRun, WhereServed DEF Ledger!Next, DispatchRuns, Serves, Serving
  <2>6. CASE Remember(r)
    BY <2>6, LedgerReleases
  <2> QED
    BY <1>2, <2>1, <2>2, <2>3, <2>4, <2>5, <2>6 DEF Serve, Leaves
<1>3. ASSUME NEW r \in Requests, Receive(r)
      PROVE  Ledger!Next
  <2>1. CASE Handle(r)
    <3>1. nextPlan \in PlanIds
      BY <2>1, BoundsAssumption DEF IInv, TypeOK, Handle, PlanIds
    <3> QED
      BY <2>1, <3>1, LedgerHandle DEF Ledger!Next
  <2>2. CASE ConfirmUnknown(r) \/ \E t \in pending : ConfirmRaises(r, t)
    BY <2>2, ReleasingSteps, LedgerReleases
  <2>3. ASSUME NEW t \in pending, ConfirmRejected(r, t)
        PROVE  Ledger!Next
    BY <2>3, LedgerReleases
  <2>4. ASSUME NEW t \in pending, ConfirmAccepted(r, t)
        PROVE  Ledger!Next
    BY <2>4, LedgerApproves, WhereWaiting DEF Ledger!Next
  <2> QED
    BY <1>3, <2>1, <2>2, <2>3, <2>4 DEF Receive
<1> QED
  BY <1>1, <1>2, <1>3 DEF Next

\* The Planner keeps what PlanLedger promises, for any number of requests and
\* plans: a plan goes on in one place, is asked and approved before a step that
\* must be confirmed runs, and never comes back when it is over.
THEOREM Implements == Spec => LedgerSpec
<1>1. Init => Ledger!Init
  BY LedgerInit
<1>2. IInv /\ IInv' /\ [Next]_vars => [Ledger!Next]_(Ledger!vars)
  BY LedgerNext
<1> QED
  BY <1>1, <1>2, Invariance, PTL DEF Spec, LedgerSpec, Ledger!Spec

============================================================================
