------------------------------ MODULE Planner ------------------------------
(***************************************************************************)
(* The Planner of Aries OS: POST /message (handle) and POST                *)
(* /message/confirm (confirm), running as concurrent asyncio tasks over    *)
(* one AgentManager, one Redis that keeps the pending confirmations, and   *)
(* one conversation memory.                                                *)
(*                                                                         *)
(* An action is the code between two awaits at which another task can      *)
(* change what the rest of the handler reads.  A plan's suffix             *)
(* (`remaining_steps = steps[index:]`) is kept as the position of its      *)
(* first step, and a list of ActionResults as its length: every result but *)
(* the last one of a plan is a SUCCESS.                                    *)
(***************************************************************************)
EXTENDS Naturals, Sequences, FiniteSets

CONSTANTS
  Requests,         \* tasks that can serve an HTTP request at one time
  Natives,          \* the IAgent objects AgentManager is built with
  PluginAgents,     \* the PluginAgentAdapter objects plugins register
  NoAgent,          \* what get_agent returns for an unknown name
  Names,            \* agent names
  AgentName,        \* [Natives \cup PluginAgents -> Names], get_agent_name()
  Actions,          \* an action with its parameters
  Capabilities,     \* [Natives \cup PluginAgents -> SUBSET Actions]
  Asks,             \* <<agent, action>> for which requires_confirmation is true
  Steps,            \* the PlannedSteps an LLM answer may hold
  MaxSteps,         \* bound: steps of a plan
  MaxPlans,         \* bound: calls of handle over a behaviour
  MaxIntentAttempts,\* _MAX_INTENT_ATTEMPTS
  HasRedis          \* whether the Planner was given a redis_client

Agents == Natives \cup PluginAgents
PlanIds == 1..MaxPlans
Proposals == UNION {[1..n -> Steps] : n \in 0..MaxSteps}

\* The adapter of a plugin never asks for a confirmation (agent_adapter.py),
\* and no object is both a native agent and the adapter of a plugin.
ASSUME AgentsAssumption ==
  /\ NoAgent \notin Agents
  /\ Natives \cap PluginAgents = {}
  /\ AgentName \in [Agents -> Names]
  /\ Capabilities \in [Agents -> SUBSET Actions]
  /\ Asks \subseteq Natives \X Actions

ASSUME BoundsAssumption ==
  /\ Steps \subseteq [agent : Names, action : Actions]
  /\ MaxSteps \in Nat /\ MaxPlans \in Nat
  /\ MaxIntentAttempts \in Nat \ {0}
  /\ HasRedis \in BOOLEAN

VARIABLES
  agents,      \* AgentManager._agents
  pending,     \* Redis: the stored confirmations, their TTL not yet over
  issued,      \* confirmation ids generated so far (uuid4: never repeated)
  nextPlan,    \* the next plan id
  plan,        \* the steps the LLM proposed for each plan
  req,         \* the local state of each request
  ran,         \* history: the steps of each plan that reached an agent
  announced,   \* history: the PlanExecutedEvents of each plan (their success)
  remembered,  \* history: the exchanges stored in memory that name the plan
  rejected     \* history: plans whose confirmation came with another phrase

vars == <<agents, pending, issued, nextPlan, plan, req, ran, announced,
          remembered, rejected>>

histories == <<ran, announced, remembered, rejected>>

----------------------------------------------------------------------------
(* State. *)

Phases == {"idle", "interpret", "resolve", "ask", "dispatch", "running",
           "remember"}

Outcomes == {"running", "success", "failed", "raised"}

Ticket == [id : Nat \ {0}, plan : PlanIds, pos : Nat \ {0}]

\* A request: `plan` is 0 for plan_id="", `pos` the position in the plan of the
\* step the loop is at (one more than the results it holds), `approval` the
\* confirmation that covers that step, 0 for none (skip_confirmation_for_
\* first_step), `tries` the answers of the LLM that did not parse; `ok`,
\* `needs` and `nothing` are the result: success, needs_confirmation, and
\* whether its error says that nothing was executed.
Request == [pc : Phases, plan : 0..MaxPlans, pos : Nat \ {0}, approval : Nat,
            tries : 0..(MaxIntentAttempts - 1),
            ok : BOOLEAN, needs : BOOLEAN, nothing : BOOLEAN]

Run == [pos : Nat \ {0}, agent : Agents, action : Actions, approval : Nat,
        outcome : Outcomes]

Idle == [pc |-> "idle", plan |-> 0, pos |-> 1, approval |-> 0, tries |-> 0,
         ok |-> FALSE, needs |-> FALSE, nothing |-> FALSE]

TypeOK ==
  /\ agents \in [Names -> Agents \cup {NoAgent}]
  /\ pending \subseteq Ticket
  /\ issued \in Nat
  /\ nextPlan \in 1..(MaxPlans + 1)
  /\ plan \in [PlanIds -> Seq(Steps)]
  /\ req \in [Requests -> Request]
  /\ ran \in [PlanIds -> Seq(Run)]
  /\ announced \in [PlanIds -> Seq(BOOLEAN)]
  /\ remembered \in [PlanIds -> Seq(BOOLEAN)]
  /\ rejected \subseteq PlanIds

\* AgentManager.__init__: the default agents, registered in turn.
NativeAgents ==
  [n \in Names |-> IF \E a \in Natives : AgentName[a] = n
                   THEN CHOOSE a \in Natives : AgentName[a] = n
                   ELSE NoAgent]

Init ==
  /\ agents = NativeAgents
  /\ pending = {}
  /\ issued = 0
  /\ nextPlan = 1
  /\ plan = [p \in PlanIds |-> <<>>]
  /\ req = [r \in Requests |-> Idle]
  /\ ran = [p \in PlanIds |-> <<>>]
  /\ announced = [p \in PlanIds |-> <<>>]
  /\ remembered = [p \in PlanIds |-> <<>>]
  /\ rejected = {}

----------------------------------------------------------------------------
(* AgentManager: what plugins do to the registry while requests run. *)

\* register(): puts the agent under its name, whoever held the name.
Register(a) ==
  /\ agents' = [agents EXCEPT ![AgentName[a]] = a]
  /\ UNCHANGED <<pending, issued, nextPlan, plan, req, histories>>

\* unregister(): removes whoever holds the name; a no-op if nobody does.
Unregister(n) ==
  /\ agents[n] # NoAgent
  /\ agents' = [agents EXCEPT ![n] = NoAgent]
  /\ UNCHANGED <<pending, issued, nextPlan, plan, req, histories>>

----------------------------------------------------------------------------
(* Results.  Every request ends in `remember`: _remember_exchange and the  *)
(* reply.                                                                  *)

\* A result for plan p (0: plan_id="", an error before or outside a plan).
Answers(r, p, ok) ==
  req' = [req EXCEPT ![r] = [@ EXCEPT !.pc = "remember", !.plan = p, !.ok = ok]]

\* A failure whose error text says "no se ejecutó nada".
AnswersNothingRan(r, p) ==
  req' = [req EXCEPT ![r] = [@ EXCEPT !.pc = "remember", !.plan = p,
                                      !.ok = FALSE, !.nothing = TRUE]]

Announce(p, ok) == announced' = [announced EXCEPT ![p] = Append(@, ok)]

\* Mutated: the check of needs_confirmation is gone.
Mut_Remembers(r) == req[r].plan # 0

\* needs_confirmation skips the store: nothing has ended yet.
Remembers(r) == req[r].plan # 0 /\ ~req[r].needs

\* _remember_exchange, then the return of handle or confirm: a failing store
\* is swallowed.
Remember(r) ==
  /\ req[r].pc = "remember"
  /\ \/ /\ Remembers(r)
        /\ remembered' = [remembered EXCEPT ![req[r].plan] = Append(@, req[r].ok)]
     \/ UNCHANGED remembered
  /\ req' = [req EXCEPT ![r] = Idle]
  /\ UNCHANGED <<agents, pending, issued, nextPlan, plan, ran, announced, rejected>>

----------------------------------------------------------------------------
(* handle: a new request, and what the LLM makes of it. *)

Handle(r) ==
  /\ req[r].pc = "idle"
  /\ nextPlan <= MaxPlans
  /\ nextPlan' = nextPlan + 1
  /\ req' = [req EXCEPT ![r] = [Idle EXCEPT !.pc = "interpret", !.plan = nextPlan]]
  /\ UNCHANGED <<agents, pending, issued, plan, histories>>

\* llm_provider.complete raised: no second attempt.
LlmRaises(r) ==
  /\ req[r].pc = "interpret"
  /\ Answers(r, req[r].plan, FALSE)
  /\ UNCHANGED <<agents, pending, issued, nextPlan, plan, histories>>

\* Mutated: the loop over the attempts has no end.
Mut_RetryIntent(r) == req' = [req EXCEPT ![r].tries = 1 - @]

\* Asked again, with the correction prompt, while attempts are left.
RetryIntent(r) ==
  IF req[r].tries + 1 < MaxIntentAttempts
  THEN req' = [req EXCEPT ![r].tries = @ + 1]
  ELSE Answers(r, req[r].plan, FALSE)

\* An answer that is no ParsedIntent.
LlmUnparsable(r) ==
  /\ req[r].pc = "interpret"
  /\ RetryIntent(r)
  /\ UNCHANGED <<agents, pending, issued, nextPlan, plan, histories>>

\* A ParsedIntent: without steps it is a failure, with steps PlanCreatedEvent
\* is published and _execute_plan starts.
LlmProposes(r) ==
  /\ req[r].pc = "interpret"
  /\ \E steps \in Proposals :
       /\ plan' = [plan EXCEPT ![req[r].plan] = steps]
       /\ IF steps = <<>> THEN Answers(r, req[r].plan, FALSE)
                          ELSE req' = [req EXCEPT ![r].pc = "resolve"]
  /\ UNCHANGED <<agents, pending, issued, nextPlan, histories>>

----------------------------------------------------------------------------
(* _execute_plan: one iteration of its loop over the awaits. *)

Step(r) == plan[req[r].plan][req[r].pos]
AtEnd(r) == req[r].pos > Len(plan[req[r].plan])

\* Mutated: only the first step of a plan is checked.
Mut_NeedsConfirmation(r) ==
  LET a == agents[Step(r).agent]
  IN  <<a, Step(r).action>> \in Asks /\ req[r].approval = 0 /\ req[r].pos = 1

\* requires_confirmation of the agent found, unless this is the step confirm
\* resumed at.
NeedsConfirmation(r) ==
  LET a == agents[Step(r).agent]
  IN  <<a, Step(r).action>> \in Asks /\ req[r].approval = 0

\* The loop is over: PlanExecutedEvent(success=True) and generate_response,
\* which never raises.
PlanCompleted(r) ==
  /\ req[r].pc = "resolve" /\ AtEnd(r)
  /\ Announce(req[r].plan, TRUE)
  /\ Answers(r, req[r].plan, TRUE)
  /\ UNCHANGED <<agents, pending, issued, nextPlan, plan, ran, remembered, rejected>>

\* get_agent knows no such agent: the plan ends here.
AgentUnknown(r) ==
  /\ req[r].pc = "resolve" /\ ~AtEnd(r)
  /\ agents[Step(r).agent] = NoAgent
  /\ Announce(req[r].plan, FALSE)
  /\ Answers(r, req[r].plan, FALSE)
  /\ UNCHANGED <<agents, pending, issued, nextPlan, plan, ran, remembered, rejected>>

\* A step that needs a confirmation: with no Redis nothing can hold it.
StepMustBeConfirmed(r) ==
  /\ req[r].pc = "resolve" /\ ~AtEnd(r)
  /\ agents[Step(r).agent] # NoAgent
  /\ NeedsConfirmation(r)
  /\ IF HasRedis THEN req' = [req EXCEPT ![r].pc = "ask"]
                 ELSE AnswersNothingRan(r, req[r].plan)
  /\ UNCHANGED <<agents, pending, issued, nextPlan, plan, histories>>

\* ActionStartedEvent is published and awaited: the registry may change before
\* dispatch looks the agent up again.
StepStarts(r) ==
  /\ req[r].pc = "resolve" /\ ~AtEnd(r)
  /\ agents[Step(r).agent] # NoAgent
  /\ ~NeedsConfirmation(r)
  /\ req' = [req EXCEPT ![r].pc = "dispatch"]
  /\ UNCHANGED <<agents, pending, issued, nextPlan, plan, histories>>

\* What SET writes: the plan from the step that needs the confirmation on.
TicketOf(r) == [id |-> issued + 1, plan |-> req[r].plan, pos |-> req[r].pos]

\* _store_pending_confirmation, then the reply that asks for the phrase.
StoreConfirmation(r) ==
  /\ req[r].pc = "ask"
  /\ issued' = issued + 1
  /\ pending' = pending \cup {TicketOf(r)}
  /\ req' = [req EXCEPT ![r] = [@ EXCEPT !.pc = "remember", !.needs = TRUE]]
  /\ UNCHANGED <<agents, nextPlan, plan, histories>>

\* SET raised: the request fails as on any unexpected error.  If Redis wrote the
\* key all the same, no request can name it: nobody was told the id.
StoreConfirmationRaises(r) ==
  /\ req[r].pc = "ask"
  /\ issued' = issued + 1
  /\ Answers(r, 0, FALSE)
  /\ UNCHANGED <<agents, pending, nextPlan, plan, histories>>

Covered(r) ==
  LET a == agents[Step(r).agent]
  IN  a # NoAgent /\ Step(r).action \in Capabilities[a]

\* dispatch found no agent, or one without the action: FAILED, the plan ends.
DispatchRefused(r) ==
  /\ req[r].pc = "dispatch"
  /\ ~Covered(r)
  /\ Announce(req[r].plan, FALSE)
  /\ Answers(r, req[r].plan, FALSE)
  /\ UNCHANGED <<agents, pending, issued, nextPlan, plan, ran, remembered, rejected>>

\* dispatch hands the action to the agent registered now.
DispatchRuns(r) ==
  /\ req[r].pc = "dispatch"
  /\ Covered(r)
  /\ ran' = [ran EXCEPT ![req[r].plan] =
               Append(@, [pos |-> req[r].pos,
                          agent |-> agents[Step(r).agent],
                          action |-> Step(r).action,
                          approval |-> req[r].approval,
                          outcome |-> "running"])]
  /\ req' = [req EXCEPT ![r].pc = "running"]
  /\ UNCHANGED <<agents, pending, issued, nextPlan, plan, announced, remembered, rejected>>

Outcome(p, o) == ran' = [ran EXCEPT ![p][Len(ran[p])].outcome = o]

\* Mutated: the approval is carried over to the steps after the approved one.
Mut_NextIteration(r) ==
  req' = [req EXCEPT ![r] = [@ EXCEPT !.pc = "resolve", !.pos = req[r].pos + 1]]

\* The loop goes on: only the step with index 0 may skip its confirmation.
NextIteration(r) ==
  req' = [req EXCEPT ![r] = [@ EXCEPT !.pc = "resolve", !.pos = req[r].pos + 1,
                                      !.approval = 0]]

\* execute returned SUCCESS.
StepSucceeds(r) ==
  /\ req[r].pc = "running"
  /\ Outcome(req[r].plan, "success")
  /\ NextIteration(r)
  /\ UNCHANGED <<agents, pending, issued, nextPlan, plan, announced, remembered, rejected>>

\* Mutated: the remaining steps run all the same.
Mut_AbortPlan(r) == NextIteration(r) /\ UNCHANGED announced

\* The first failure ends the plan (decision 6).
AbortPlan(r) ==
  /\ Announce(req[r].plan, FALSE)
  /\ Answers(r, req[r].plan, FALSE)

\* execute returned FAILED.
StepFails(r) ==
  /\ req[r].pc = "running"
  /\ Outcome(req[r].plan, "failed")
  /\ AbortPlan(r)
  /\ UNCHANGED <<agents, pending, issued, nextPlan, plan, remembered, rejected>>

\* execute raised: no PlanExecutedEvent, the handler of handle or confirm
\* answers with plan_id="" and no steps.
StepRaises(r) ==
  /\ req[r].pc = "running"
  /\ Outcome(req[r].plan, "raised")
  /\ Answers(r, 0, FALSE)
  /\ UNCHANGED <<agents, pending, issued, nextPlan, plan, announced, remembered, rejected>>

\* A call outside an agent's execute raised: list_agents for the prompt, parsing
\* the answer, requires_confirmation or dispatch (parameters of the step that
\* clash with their own, a plugin's get_capabilities).
CallRaises(r) ==
  /\ \/ req[r].pc = "interpret"
     \/ req[r].pc = "resolve" /\ ~AtEnd(r) /\ agents[Step(r).agent] # NoAgent
     \/ req[r].pc = "dispatch"
  /\ Answers(r, 0, FALSE)
  /\ UNCHANGED <<agents, pending, issued, nextPlan, plan, histories>>

----------------------------------------------------------------------------
(* confirm. *)

\* Mutated: GET in place of GETDEL.
Mut_ConsumeTicket(t) == pending

\* GETDEL: read and deleted in one step.
ConsumeTicket(t) == pending \ {t}

\* The id of a confirmation is known once the request that asked has replied.
Told(t) == \A r \in Requests : req[r].needs => req[r].plan # t.plan

\* GETDEL found nothing (or there is no Redis).
ConfirmUnknown(r) ==
  /\ req[r].pc = "idle"
  /\ AnswersNothingRan(r, 0)
  /\ UNCHANGED <<agents, pending, issued, nextPlan, plan, histories>>

\* GETDEL returned the pending action and the text is another phrase.
ConfirmRejected(r, t) ==
  /\ req[r].pc = "idle" /\ Told(t)
  /\ pending' = ConsumeTicket(t)
  /\ rejected' = rejected \cup {t.plan}
  /\ AnswersNothingRan(r, t.plan)
  /\ UNCHANGED <<agents, issued, nextPlan, plan, ran, announced, remembered>>

\* Mutated: the approved step is taken for one already executed.
Mut_Resumed(t) == [Idle EXCEPT !.pc = "resolve", !.plan = t.plan,
                               !.pos = t.pos + 1, !.approval = t.id]

\* What confirm resumes: the plan at the approved step.
Resumed(t) == [Idle EXCEPT !.pc = "resolve", !.plan = t.plan, !.pos = t.pos,
                           !.approval = t.id]

\* The text is the phrase: _execute_plan from the approved step.
ConfirmAccepted(r, t) ==
  /\ req[r].pc = "idle" /\ Told(t)
  /\ pending' = ConsumeTicket(t)
  /\ req' = [req EXCEPT ![r] = Resumed(t)]
  /\ UNCHANGED <<agents, issued, nextPlan, plan, histories>>

\* GETDEL raised, before or after Redis deleted the key.
ConfirmRaises(r, t) ==
  /\ req[r].pc = "idle" /\ Told(t)
  /\ \/ pending' = ConsumeTicket(t)
     \/ UNCHANGED pending
  /\ Answers(r, 0, FALSE)
  /\ UNCHANGED <<agents, issued, nextPlan, plan, histories>>

\* The TTL of a stored confirmation ends (SET ... EX).
Expire(t) ==
  /\ pending' = pending \ {t}
  /\ UNCHANGED <<agents, issued, nextPlan, plan, req, histories>>

----------------------------------------------------------------------------
(* The API process dies and starts again: its tasks and its registry are   *)
(* gone, Redis keeps the pending confirmations.                            *)

Restart ==
  /\ req' = [r \in Requests |-> Idle]
  /\ agents' = NativeAgents
  /\ UNCHANGED <<pending, issued, nextPlan, plan, histories>>

----------------------------------------------------------------------------

\* What the tasks of a request do by themselves.
Serve(r) ==
  \/ LlmRaises(r) \/ LlmUnparsable(r) \/ LlmProposes(r)
  \/ PlanCompleted(r) \/ AgentUnknown(r) \/ StepMustBeConfirmed(r) \/ StepStarts(r)
  \/ StoreConfirmation(r) \/ StoreConfirmationRaises(r)
  \/ DispatchRefused(r) \/ DispatchRuns(r)
  \/ StepSucceeds(r) \/ StepFails(r) \/ StepRaises(r) \/ CallRaises(r)
  \/ Remember(r)

\* What the user sends.
Receive(r) ==
  \/ Handle(r) \/ ConfirmUnknown(r)
  \/ \E t \in pending :
       ConfirmRejected(r, t) \/ ConfirmAccepted(r, t) \/ ConfirmRaises(r, t)

Environment ==
  \/ \E a \in PluginAgents : Register(a)
  \/ \E a \in PluginAgents : Unregister(AgentName[a])
  \/ \E t \in pending : Expire(t)
  \/ Restart

Next == (\E r \in Requests : Serve(r) \/ Receive(r)) \/ Environment

Spec == Init /\ [][Next]_vars

\* What a request does by itself, outside of the execute of an agent.
Proceeds(r) == req[r].pc # "running" /\ Serve(r)

\* The event loop runs every ready task, and the awaits on the LLM, on Redis and
\* on the memory end by their timeouts.  Nothing makes users send anything, and
\* nothing makes the execute of an agent (a plugin's) return.
Fairness == \A r \in Requests : WF_vars(Proceeds(r))

FairSpec == Spec /\ Fairness
----------------------------------------------------------------------------
(* Properties. *)

Events(q) == {q[i] : i \in 1..Len(q)}

\* An action whose agent asks for a confirmation is executed only by a request
\* that consumed a confirmation with the right phrase, whatever the plugins did
\* to the registry between the question, the answer and the dispatch.
ConfirmedBeforeRun ==
  \A p \in PlanIds : \A k \in 1..Len(ran[p]) :
    <<ran[p][k].agent, ran[p][k].action>> \in Asks => ran[p][k].approval # 0

\* One confirmation authorises one execution: neither a second POST with the
\* same id nor a later step of the plan runs on an approval already spent.
ApprovalsRunOnce ==
  \A p, q \in PlanIds : \A k \in 1..Len(ran[p]), l \in 1..Len(ran[q]) :
    /\ ran[p][k].approval # 0
    /\ ran[p][k].approval = ran[q][l].approval
    => p = q /\ k = l

\* The executions of a plan, over the request that created it and all the
\* confirmations that resumed it, are a prefix of its steps: none is skipped,
\* repeated or reordered, and each goes to an agent of the name the step has.
RunsFollowThePlan ==
  \A p \in PlanIds :
    /\ Len(ran[p]) <= Len(plan[p])
    /\ \A k \in 1..Len(ran[p]) :
         /\ ran[p][k].pos = k
         /\ ran[p][k].action = plan[p][k].action
         /\ AgentName[ran[p][k].agent] = plan[p][k].agent

\* Decision 6 of Planner.spec.md: a plan stops at its first step that did not
\* succeed, also when the rest of it waits for a confirmation.
StopsAtFirstFailure ==
  \A p \in PlanIds : \A k \in 1..Len(ran[p]) :
    k < Len(ran[p]) => ran[p][k].outcome = "success"

\* A plan announced or remembered as successful ran every step with success.
SuccessMeansAllRan ==
  \A p \in PlanIds :
    TRUE \in Events(announced[p]) \cup Events(remembered[p])
    => /\ Len(ran[p]) = Len(plan[p])
       /\ \A k \in 1..Len(ran[p]) : ran[p][k].outcome = "success"

\* Whoever listens hears the end of a plan at most once, and the conversation
\* holds one exchange about it at most.
EndsToldOnce ==
  \A p \in PlanIds : Len(announced[p]) <= 1 /\ Len(remembered[p]) <= 1

Over(p) == announced[p] # <<>> \/ remembered[p] # <<>> \/ p \in rejected

\* Once its end was announced, its exchange was stored, or its user answered
\* anything but the phrase, no step of a plan runs any more.
OverMeansOver == [][\A p \in PlanIds : Over(p) => ran'[p] = ran[p]]_vars

\* A request is answered in the end, its process died, or it waits for an agent
\* that never returns: nothing else holds it up.
Answered ==
  \A r \in Requests : req[r].pc # "idle" ~> req[r].pc \in {"idle", "running"}

\* The error texts "no se ejecutó nada" of planner.py are about plans none of
\* whose steps was executed.
NothingRanIsTrue ==
  \A r \in Requests :
    req[r].pc = "remember" /\ req[r].nothing /\ req[r].plan # 0
    => ran[req[r].plan] = <<>>

============================================================================
