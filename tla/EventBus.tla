------------------------------ MODULE EventBus ------------------------------
(***************************************************************************)
(* AsyncEventBus and its Dispatcher: the handlers of each event, and the   *)
(* publications whose handlers are still running.                          *)
(*                                                                         *)
(* publish copies the handlers under the lock and runs the copy after it:  *)
(* what is subscribed or unsubscribed meanwhile changes nothing for a      *)
(* publication under way.  The lock is never held over an await that       *)
(* suspends, so that subscribe and unsubscribe are steps of their caller.  *)
(* The module has no specification of its own: tasks use its operations.   *)
(***************************************************************************)
EXTENDS FiniteSets

CONSTANTS
  Publishers,   \* the tasks that publish
  Events,       \* the event classes
  Handlers      \* one handler of each event per subscriber

VARIABLES
  handlers,     \* _handlers: the subscribers of each event
  delivering,   \* the handlers the dispatcher still runs for each publisher
  heard         \* history: whose handler of an event was run

busVars == <<handlers, delivering, heard>>

BusTypeOK ==
  /\ handlers \in [Events -> SUBSET Handlers]
  /\ delivering \in [Publishers -> SUBSET (Events \X Handlers)]
  /\ heard \in [Events -> SUBSET Handlers]

BusInit ==
  /\ handlers = [e \in Events |-> {}]
  /\ delivering = [t \in Publishers |-> {}]
  /\ heard = [e \in Events |-> {}]

\* The handlers with those of h for the events in E.
Subscribed(h, E) == [e \in Events |-> IF e \in E THEN handlers[e] \cup {h} ELSE handlers[e]]

\* The handlers without those of h.
Unsubscribed(h) == [e \in Events |-> handlers[e] \ {h}]

\* publish: task t waits until a copy of the handlers, taken from H, has run.
Publishing(t, e, H) == delivering' = [delivering EXCEPT ![t] = {e} \X H[e]]

\* The await of publish is over for task t: gather returned.
Published(t) == delivering[t] = {}

\* _run_handler: whatever the handler raises is logged, and the others go on.
RunHandler(t, e, h) ==
  /\ <<e, h>> \in delivering[t]
  /\ delivering' = [delivering EXCEPT ![t] = @ \ {<<e, h>>}]
  /\ heard' = [heard EXCEPT ![e] = @ \cup {h}]
  /\ UNCHANGED handlers

=============================================================================
