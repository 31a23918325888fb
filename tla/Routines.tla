------------------------------ MODULE Routines ------------------------------
(***************************************************************************)
(* RoutineManager of Aries OS: check_due, called by Kernel.run every       *)
(* routines_check_interval_seconds, finds the routines whose time has come *)
(* and executes them, in the process of the API; what must be spoken goes  *)
(* to the stream "routines.due".                                           *)
(*                                                                         *)
(* Time is a counter: one unit is the interval between two checks, and the *)
(* clock may pass any moment while a check is at an await.  A disabled     *)
(* routine is never looked at, so `Routines` are the enabled ones.         *)
(***************************************************************************)
EXTENDS Naturals, Sequences

CONSTANTS
  NumRoutines,   \* routines, numbered in the order check_due visits them
  OnStartup,     \* [Routines -> BOOLEAN], on_startup
  Due,           \* [Routines -> SUBSET Times], when the cron expression fires
  Steps,         \* [Routines -> Seq(Kinds)], the action: a chain of steps
  MaxStaleness,  \* routines_max_staleness_seconds
  MaxTime        \* bound: the last value of the clock

Routines == 1..NumRoutines
Times == 1..MaxTime

\* Speak on the stream, dispatch to an agent, dispatch to an agent that asks
\* for a confirmation.
Kinds == {"speak", "agent", "guarded"}

ASSUME RoutinesAssumption ==
  /\ NumRoutines \in Nat \ {0} /\ MaxStaleness \in Nat /\ MaxTime \in Nat \ {0}
  /\ OnStartup \in [Routines -> BOOLEAN]
  /\ Due \in [Routines -> SUBSET Times]
  /\ Steps \in [Routines -> Seq(Kinds)]

VARIABLES
  clock,           \* datetime.now(UTC)
  loadedAt,        \* when this process loaded its routines
  lastFired,       \* last_fired_occurrence, 0 for None
  pending,         \* pending_occurrence, 0 for None
  firedOnStartup,  \* fired_on_startup
  check,           \* the local state of check_due
  stream,          \* what XADD wrote to "routines.due"
  took,            \* history: the steps that took effect
  resolved         \* history: the occurrences resolved, and how

state == <<lastFired, pending, firedOnStartup>>

vars == <<clock, loadedAt, state, check, stream, took, resolved>>

----------------------------------------------------------------------------
(* State. *)

Verdicts == {"done", "stale", "refused"}

Effect == [routine : Routines, occ : Times, step : Nat \ {0}]

\* `now` is the current_time of the last check (0 before the first), `routine`
\* the one it is at, `step` the one it executes of that routine's action.
Check == [pc : {"sleep", "evaluate", "execute"}, now : 0..MaxTime,
          routine : Routines, step : Nat \ {0}]

TypeOK ==
  /\ clock \in Times
  /\ loadedAt \in Times
  /\ lastFired \in [Routines -> 0..MaxTime]
  /\ pending \in [Routines -> 0..MaxTime]
  /\ firedOnStartup \in [Routines -> BOOLEAN]
  /\ check \in Check
  /\ stream \in Seq(Effect)
  /\ took \subseteq Effect
  /\ resolved \in [Routines -> Seq([occ : Times, how : Verdicts])]

Asleep == [pc |-> "sleep", now |-> 0, routine |-> 1, step |-> 1]

Init ==
  /\ clock = 1
  /\ loadedAt = 1
  /\ lastFired = [r \in Routines |-> 0]
  /\ pending = [r \in Routines |-> 0]
  /\ firedOnStartup = [r \in Routines |-> FALSE]
  /\ check = Asleep
  /\ stream = <<>>
  /\ took = {}
  /\ resolved = [r \in Routines |-> <<>>]

----------------------------------------------------------------------------
(* Time, and the process. *)

Tick ==
  /\ clock < MaxTime
  /\ clock' = clock + 1
  /\ UNCHANGED <<loadedAt, state, check, stream, took, resolved>>

\* The process dies, and a new one loads the routines: RoutineRuntimeState is
\* not persisted.
Restart ==
  /\ loadedAt < clock
  /\ clock + MaxStaleness < MaxTime
  /\ loadedAt' = clock
  /\ lastFired' = [r \in Routines |-> 0]
  /\ pending' = [r \in Routines |-> 0]
  /\ firedOnStartup' = [r \in Routines |-> FALSE]
  /\ check' = Asleep
  /\ UNCHANGED <<clock, stream, took, resolved>>

----------------------------------------------------------------------------
(* check_due. *)

\* check_due is called: its current_time holds for all the routines.  At the
\* bound of the clock the checks go on.
StartCheck ==
  /\ check.pc = "sleep"
  /\ clock > check.now \/ clock = MaxTime
  /\ check' = [pc |-> "evaluate", now |-> clock, routine |-> 1, step |-> 1]
  /\ UNCHANGED <<clock, loadedAt, state, stream, took, resolved>>

\* Mutated: the check goes on after the last routine.
Mut_NextRoutine ==
  check' = [check EXCEPT !.pc = "evaluate", !.routine = @ + 1, !.step = 1]

\* The loop goes on to the next routine, or the check ends.
NextRoutine ==
  check' = IF check.routine = NumRoutines
           THEN [check EXCEPT !.pc = "sleep"]
           ELSE [check EXCEPT !.pc = "evaluate", !.routine = @ + 1, !.step = 1]

\* The anchor croniter counts from.
Anchor(r) == IF lastFired[r] # 0 THEN lastFired[r] ELSE loadedAt

\* croniter.get_next: the first time after t, 0 for one past the bound.
GetNext(r, t) ==
  LET later == {d \in Due[r] : d > t}
  IN  IF later = {} THEN 0 ELSE CHOOSE d \in later : \A e \in later : d <= e

\* Mutated: what is due is what the cron expression has for the interval since
\* the last check, with no pending occurrence.
Mut_Occurrence(r) ==
  IF OnStartup[r] THEN loadedAt ELSE GetNext(r, IF check.now > 1 THEN check.now - 1 ELSE 0)

\* The occurrence _check_one looks at: the pending one is retried.
Occurrence(r) ==
  IF pending[r] # 0 THEN pending[r]
  ELSE IF OnStartup[r] THEN loadedAt
  ELSE GetNext(r, Anchor(r))

Owed(r) == ~firedOnStartup[r] /\ Occurrence(r) \in 1..check.now

\* Mutated: nothing is too old.
Mut_Stale(r) == FALSE

Stale(r) == check.now > Occurrence(r) + MaxStaleness

\* Mutated: the pending occurrence is left where it is.
Mut_Resolve(r, how) ==
  /\ UNCHANGED pending
  /\ IF OnStartup[r]
     THEN firedOnStartup' = [firedOnStartup EXCEPT ![r] = TRUE] /\ UNCHANGED lastFired
     ELSE lastFired' = [lastFired EXCEPT ![r] = Occurrence(r)] /\ UNCHANGED firedOnStartup
  /\ resolved' = [resolved EXCEPT ![r] = Append(@, [occ |-> Occurrence(r), how |-> how])]

\* _resolve: whatever the verdict, the occurrence is over.
Resolve(r, how) ==
  /\ pending' = [pending EXCEPT ![r] = 0]
  /\ IF OnStartup[r]
     THEN firedOnStartup' = [firedOnStartup EXCEPT ![r] = TRUE] /\ UNCHANGED lastFired
     ELSE lastFired' = [lastFired EXCEPT ![r] = Occurrence(r)] /\ UNCHANGED firedOnStartup
  /\ resolved' = [resolved EXCEPT ![r] = Append(@, [occ |-> Occurrence(r), how |-> how])]

NotDue(r) ==
  /\ ~Owed(r)
  /\ NextRoutine
  /\ UNCHANGED <<clock, loadedAt, state, stream, took, resolved>>

Discard(r) ==
  /\ Owed(r) /\ Stale(r)
  /\ Resolve(r, "stale")
  /\ NextRoutine
  /\ UNCHANGED <<clock, loadedAt, stream, took>>

\* pending_occurrence is set, and _try_execute starts.
BecomesDue(r) ==
  /\ Owed(r) /\ ~Stale(r)
  /\ pending' = [pending EXCEPT ![r] = Occurrence(r)]
  /\ check' = [check EXCEPT !.pc = "execute"]
  /\ UNCHANGED <<clock, loadedAt, lastFired, firedOnStartup, stream, took, resolved>>

\* _check_one, before anything is executed.
Evaluate ==
  /\ check.pc = "evaluate"
  /\ LET r == check.routine IN NotDue(r) \/ Discard(r) \/ BecomesDue(r)

----------------------------------------------------------------------------
(* _execute_action. *)

At(r, kind) == check.step <= Len(Steps[r]) /\ Steps[r][check.step] = kind

ThisEffect(r) == [routine |-> r, occ |-> Occurrence(r), step |-> check.step]

Publishes(r) == stream' = Append(stream, ThisEffect(r))

\* The step is done, and the chain goes on.
StepDone(r) ==
  /\ took' = took \cup {ThisEffect(r)}
  /\ check' = [check EXCEPT !.step = @ + 1]

SpeakPublished(r) ==
  /\ At(r, "speak")
  /\ Publishes(r)
  /\ StepDone(r)
  /\ UNCHANGED <<clock, loadedAt, state, resolved>>

\* dispatch returned SUCCESS.
AgentSucceeds(r) ==
  /\ At(r, "agent")
  /\ StepDone(r)
  /\ UNCHANGED <<clock, loadedAt, state, stream, resolved>>

\* Mutated: what failed is taken for completed.
Mut_RetryLater(r) ==
  /\ Resolve(r, "done")
  /\ NextRoutine

\* Mutated: the chain goes on behind the step that failed.
Mut_GoOn(r) ==
  /\ check' = [check EXCEPT !.step = @ + 1]
  /\ UNCHANGED <<state, resolved>>

\* _try_execute returns False: the occurrence stays pending, and the next check
\* runs its chain again from the first step.
RetryLater(r) ==
  /\ NextRoutine
  /\ UNCHANGED <<state, resolved>>

\* XADD raised, before or after Redis wrote the message.
SpeakFails(r) ==
  /\ At(r, "speak")
  /\ Publishes(r) \/ UNCHANGED stream
  /\ RetryLater(r)
  /\ UNCHANGED <<clock, loadedAt, took>>

\* No such agent or action, or the agent failed, or raised.
AgentFails(r) ==
  /\ At(r, "agent") \/ At(r, "guarded")
  /\ RetryLater(r)
  /\ UNCHANGED <<clock, loadedAt, stream, took>>

\* _ConfirmationRequiredError: nobody could confirm, the occurrence is over.
AgentRefused(r) ==
  /\ At(r, "guarded")
  /\ Resolve(r, "refused")
  /\ NextRoutine
  /\ UNCHANGED <<clock, loadedAt, stream, took>>

Completed(r) ==
  /\ check.step > Len(Steps[r])
  /\ Resolve(r, "done")
  /\ NextRoutine
  /\ UNCHANGED <<clock, loadedAt, stream, took>>

Execute ==
  /\ check.pc = "execute"
  /\ LET r == check.routine
     IN  \/ SpeakPublished(r) \/ AgentSucceeds(r) \/ SpeakFails(r) \/ AgentFails(r)
         \/ AgentRefused(r) \/ Completed(r)

----------------------------------------------------------------------------

Next == Tick \/ Restart \/ StartCheck \/ Evaluate \/ Execute

Spec == Init /\ [][Next]_vars

\* Kernel.run calls check_due again and again, its awaits return, and time goes
\* by; nothing makes Redis or an agent work.
Fairness ==
  WF_vars(Tick) /\ WF_vars(StartCheck) /\ WF_vars(Evaluate) /\ WF_vars(Execute)

FairSpec == Spec /\ Fairness
----------------------------------------------------------------------------
(* Properties. *)

\* The occurrences of r resolved so far.
Settled(r) == {resolved[r][k].occ : k \in 1..Len(resolved[r])}

\* e is for an occurrence of this life of the process that is not resolved.
StillOpen(e) == e.occ \notin Settled(e.routine) /\ e.occ >= loadedAt

\* Retries and discards never lose or repeat an occurrence while the process
\* lives: the resolved ones are exactly those between its start and
\* last_fired_occurrence, each once and in order (an on_startup routine has one
\* in each life of the process).
EachInTurn ==
  \A r \in Routines :
    /\ \A k \in 1..(Len(resolved[r]) - 1) : resolved[r][k].occ < resolved[r][k + 1].occ
    /\ ~OnStartup[r] => {o \in Settled(r) : o > loadedAt}
                        = {d \in Due[r] : loadedAt < d /\ d <= lastFired[r]}
    /\ OnStartup[r] => (loadedAt \in Settled(r) <=> firedOnStartup[r])

\* An occurrence resolved as completed had every step of its chain succeed, and
\* no step takes effect before the ones in front of it.
DoneMeansDone ==
  /\ \A r \in Routines : \A k \in 1..Len(resolved[r]) :
       resolved[r][k].how = "done" =>
         \A i \in 1..Len(Steps[r]) :
           [routine |-> r, occ |-> resolved[r][k].occ, step |-> i] \in took
  /\ \A e \in took : \A i \in 1..(e.step - 1) : [e EXCEPT !.step = i] \in took

\* What happens belongs to an occurrence of this life of the process that is not
\* resolved yet: after its last retry, its discard or a restart, no step of an
\* occurrence takes effect and nothing is published for it.
SettledIsFinal ==
  [][/\ \A e \in took' \ took : StillOpen(e)
     /\ \A i \in (Len(stream) + 1)..Len(stream') : StillOpen(stream'[i])]_vars

\* Every occurrence the process lives to see is resolved in the end, whatever
\* fails: neither a routine that always fails nor a backlog of old occurrences
\* holds up the others for good.
EveryOneSettled ==
  \A r \in Routines : \A d \in Due[r] :
    ~OnStartup[r] /\ loadedAt < d ~> d \in Settled(r) \/ d <= loadedAt

=============================================================================
