----------------------------- MODULE AgentCall -----------------------------
(***************************************************************************)
(* The calls of IAgent.execute in one process: each runs in the event loop *)
(* up to its asyncio.to_thread, then in a thread of the default executor,  *)
(* that all agents share, and is answered with an ActionResult.            *)
(*                                                                         *)
(* A request is a record with the agent, the action, a target, the options *)
(* in `flag` (force, mode hard, checkout, where, expires_at) and the       *)
(* operations of a database call.                                          *)
(***************************************************************************)
EXTENDS Naturals, Sequences, FiniteSets

CONSTANTS
  MaxCalls,   \* bound: calls in a behaviour, numbered as they come
  PoolSize,   \* max_workers of the default executor
  Requests    \* what may be asked

Calls == 1..MaxCalls

ASSUME CallAssumption == {MaxCalls, PoolSize} \subseteq Nat \ {0}

\* pc is where the call is: "working" and "midway" hold a thread; `seen` is what
\* it read before it had one, `at` how far it is, in the steps of its handler.
VARIABLE call

\* What a call can have read: what a path is.
Kinds == {"none", "dir", "file", "empty", "mixed"}

NoRequest == [agent |-> "none", action |-> "none", target |-> "none", flag |-> FALSE,
              ops |-> <<>>]

CallTypeOK ==
  call \in [Calls -> [pc : {"none", "queued", "working", "midway", "answered"},
                      req : Requests \cup {NoRequest}, seen : Kinds, at : Nat,
                      status : {"none", "SUCCESS", "FAILED", "RAISED"}]]

NewCall(pc, r, seen, s) == [pc |-> pc, req |-> r, seen |-> seen, at |-> 0, status |-> s]

CallInit == call = [c \in Calls |-> NewCall("none", NoRequest, "none", "none")]

\* c is the next call.
Next_(c) == call[c].pc = "none" /\ \A d \in 1..(c - 1) : call[d].pc # "none"

\* The call is answered without a thread, or has one to wait for.
AnswerAtOnce(c, r, s) == call' = [call EXCEPT ![c] = NewCall("answered", r, "none", s)]
ToThread(c, r, seen) == call' = [call EXCEPT ![c] = NewCall("queued", r, seen, "none")]

\* Mutated: a thread for every call.
Mut_TakeThread(c) == call[c].pc = "queued" /\ call' = [call EXCEPT ![c].pc = "working"]

\* A thread of the executor is free for c.
TakeThread(c) ==
  /\ call[c].pc = "queued"
  /\ Cardinality({d \in Calls : call[d].pc \in {"working", "midway"}}) < PoolSize
  /\ call' = [call EXCEPT ![c].pc = "working"]

\* c is at pc, for an action of the agent in A.
At(c, agent, pc, A) ==
  call[c].pc = pc /\ call[c].req.agent = agent /\ call[c].req.action \in A

Answer(c, s) == call' = [call EXCEPT ![c].pc = "answered", ![c].status = s]
GoOn(c, pc) == call' = [call EXCEPT ![c].pc = pc, ![c].at = @ + 1]

=============================================================================
