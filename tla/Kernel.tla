------------------------------- MODULE Kernel -------------------------------
(***************************************************************************)
(* One life of the API process: lifespan starts the Kernel, serves, and    *)
(* shuts it down (task "main"); Kernel.run is a task of its own ("run");   *)
(* GET /health is a request.  The plugins are loaded and unloaded by       *)
(* "main" through PluginRegistry, and hear of the Kernel on the event bus. *)
(*                                                                         *)
(* Time is counted in ticks of the loop of run: the smaller of its two     *)
(* intervals.  A routine dispatches at most once per check: Routines has   *)
(* the whole of check_due.                                                 *)
(***************************************************************************)
EXTENDS PluginRegistry

CONSTANTS
  HousekeepingTicks,  \* kernel_housekeeping_interval_seconds, in ticks
  RoutinesTicks       \* routines_check_interval_seconds, in ticks

ASSUME KernelAssumption ==
  /\ {HousekeepingTicks, RoutinesTicks} \subseteq Nat \ {0}
  /\ Publishers = {"main", "run"}
  /\ {"KERNEL_READY", "KERNEL_STARTING", "KERNEL_SHUTDOWN"} \subseteq Events

VARIABLES
  kernel,   \* _initialized, _running, _stop_event
  boot,     \* where lifespan is, and the next directory it loads
  run,      \* where the task of Kernel.run is, and its two counters
  health    \* a request of GET /health

kernelVars == <<kernel, boot, run, health>>
vars == <<busVars, registryVars, kernelVars>>

----------------------------------------------------------------------------
(* State. *)

KernelState == [initialized : BOOLEAN, running : BOOLEAN, stop : {"none", "clear", "set"}]

\* "failed": initialize raised, the application does not start.
\* "crashed": what run raised was raised again by lifespan, that awaits it.
Boot == [pc : {"off", "probe", "ready", "remember", "plugins", "serving", "unloading",
               "farewell", "join", "closing", "stopped", "failed", "crashed"},
         at : 1..(NumPlugins + 1)]

Run == [pc : {"none", "created", "starting", "head", "housekeeping", "routines",
              "executing", "waiting", "done", "raised"},
        sinceHousekeeping : 0..HousekeepingTicks, sinceRoutines : 0..RoutinesTicks]

Checks == {"redis", "ollama"}
Health == [pc : {"none", "probing", "answered"}, pending : SUBSET Checks,
           failed : SUBSET Checks, status : {"none", "ok", "degraded", "critical"}]

TypeOK ==
  /\ BusTypeOK /\ RegistryTypeOK
  /\ kernel \in KernelState
  /\ boot \in Boot
  /\ run \in Run
  /\ health \in Health

\* run starts with both intervals elapsed.
Init ==
  /\ BusInit /\ RegistryInit
  /\ kernel = [initialized |-> FALSE, running |-> FALSE, stop |-> "none"]
  /\ boot = [pc |-> "off", at |-> 1]
  /\ run = [pc |-> "none", sinceHousekeeping |-> HousekeepingTicks,
            sinceRoutines |-> RoutinesTicks]
  /\ health = [pc |-> "none", pending |-> {}, failed |-> {}, status |-> "none"]

----------------------------------------------------------------------------
(* Kernel.initialize, called by lifespan. *)

BootTo(pc) == boot' = [boot EXCEPT !.pc = pc]

StartUp ==
  /\ boot.pc = "off" /\ ~kernel.initialized
  /\ BootTo("probe")
  /\ UNCHANGED <<busVars, registryVars, kernel, run, health>>

\* is_available answered, either way, and the sleep is over.
Ready ==
  /\ boot.pc = "probe"
  /\ kernel' = [kernel EXCEPT !.initialized = TRUE]
  /\ Publishing("main", "KERNEL_READY", handlers)
  /\ BootTo("ready")
  /\ UNCHANGED <<handlers, heard, registryVars, run, health>>

ReadyPublished ==
  /\ boot.pc = "ready" /\ Published("main")
  /\ BootTo("remember")
  /\ UNCHANGED <<busVars, registryVars, kernel, run, health>>

Remembered ==
  /\ boot.pc = "remember"
  /\ BootTo("plugins")
  /\ UNCHANGED <<busVars, registryVars, kernel, run, health>>

\* _load_plugins: one directory after the other, whatever becomes of each.
LoadNext ==
  /\ boot.pc = "plugins" /\ op = Idle /\ boot.at <= NumPlugins
  /\ boot' = [boot EXCEPT !.at = @ + 1]
  /\ IF Loadable(boot.at) THEN StartLoad(boot.at) ELSE UNCHANGED <<busVars, registryVars>>
  /\ UNCHANGED <<kernel, run, health>>

\* _load_routines returned: lifespan creates the task of run and yields.
CreateRun ==
  /\ boot.pc = "plugins" /\ op = Idle /\ boot.at > NumPlugins
  /\ run' = [run EXCEPT !.pc = "created"]
  /\ BootTo("serving")
  /\ UNCHANGED <<busVars, registryVars, kernel, health>>

\* memory.store or load_routines raised: nothing of what was done is undone.
InitializeRaises ==
  /\ \/ boot.pc = "remember"
     \/ boot.pc = "plugins" /\ op = Idle /\ boot.at > NumPlugins
  /\ BootTo("failed")
  /\ UNCHANGED <<busVars, registryVars, kernel, run, health>>

----------------------------------------------------------------------------
(* Kernel.run. *)

\* Mutated: the loop never ends.
Mut_Stopping == FALSE

\* _stop_event.is_set().
Stopping == kernel.stop = "set"

RunTo(pc) == run' = [run EXCEPT !.pc = pc]

RunStarts ==
  /\ run.pc = "created" /\ kernel.initialized /\ ~kernel.running
  /\ kernel' = [kernel EXCEPT !.running = TRUE, !.stop = "clear"]
  /\ Publishing("run", "KERNEL_STARTING", handlers)
  /\ RunTo("starting")
  /\ UNCHANGED <<handlers, heard, registryVars, boot, health>>

StartingPublished ==
  /\ run.pc = "starting" /\ Published("run")
  /\ RunTo("head")
  /\ UNCHANGED <<busVars, registryVars, kernel, boot, health>>

\* The head of the loop: the task ends, or one of the two cycles is due, or it
\* waits.  clear_expired comes before check_due.
RunHead ==
  /\ run.pc = "head"
  /\ IF Stopping
     THEN RunTo("done") /\ kernel' = [kernel EXCEPT !.running = FALSE]
     ELSE /\ RunTo(IF run.sinceHousekeeping >= HousekeepingTicks THEN "housekeeping"
                   ELSE IF run.sinceRoutines >= RoutinesTicks THEN "routines" ELSE "waiting")
          /\ UNCHANGED kernel
  /\ UNCHANGED <<busVars, registryVars, boot, health>>

\* Mutated: the counter is not reset.
Mut_Housekept ==
  /\ run.pc = "housekeeping"
  /\ run' = [run EXCEPT !.pc = IF run.sinceRoutines >= RoutinesTicks THEN "routines"
                               ELSE "waiting"]
  /\ UNCHANGED <<busVars, registryVars, kernel, boot, health>>

\* clear_expired returned.
Housekept ==
  /\ run.pc = "housekeeping"
  /\ run' = [run EXCEPT !.sinceHousekeeping = 0,
                        !.pc = IF run.sinceRoutines >= RoutinesTicks THEN "routines"
                               ELSE "waiting"]
  /\ UNCHANGED <<busVars, registryVars, kernel, boot, health>>

\* clear_expired raised: the task is over, and nobody awaits it yet.
HousekeepingRaises ==
  /\ run.pc = "housekeeping"
  /\ RunTo("raised")
  /\ kernel' = [kernel EXCEPT !.running = FALSE]
  /\ UNCHANGED <<busVars, registryVars, boot, health>>

\* check_due finds nothing to do, or has an agent do it, and it never raises.
Checked ==
  /\ run.pc \in {"routines", "executing"}
  /\ run' = [run EXCEPT !.pc = "waiting", !.sinceRoutines = 0]
  /\ UNCHANGED <<busVars, registryVars, kernel, boot, health>>

DispatchRoutine ==
  /\ run.pc = "routines"
  /\ RunTo("executing")
  /\ UNCHANGED <<busVars, registryVars, kernel, boot, health>>

\* wait_for ends, by the timeout or by the stop event: both counters grow.
Waited ==
  /\ run.pc = "waiting"
  /\ run' = [run EXCEPT !.pc = "head", !.sinceHousekeeping = @ + 1, !.sinceRoutines = @ + 1]
  /\ UNCHANGED <<busVars, registryVars, kernel, boot, health>>

----------------------------------------------------------------------------
(* GET /health. *)

\* The port opens after run has taken its first step: the task was created
\* before lifespan yielded to the server.
Serving == boot.pc = "serving" /\ run.pc # "created"

\* Mutated: a task is a loop that lives.
Mut_KernelCheck == run.pc # "none"

\* _check_kernel: the task of run is not done.
KernelCheck == run.pc \notin {"none", "done", "raised"}

\* _derive_status, with the checks that failed.
DeriveStatus(failed) ==
  IF ~KernelCheck THEN "critical" ELSE IF failed # {} THEN "degraded" ELSE "ok"

AskHealth ==
  /\ Serving /\ health.pc # "probing"
  /\ health' = [pc |-> "probing", pending |-> Checks, failed |-> {}, status |-> "none"]
  /\ UNCHANGED <<busVars, registryVars, kernel, boot, run>>

\* _run_probe: PING or is_available came back in time, or it did not.
Probed(c) ==
  /\ health.pc = "probing" /\ c \in health.pending
  /\ \E bad \in SUBSET {c} :
       health' = [health EXCEPT !.pending = @ \ {c}, !.failed = @ \cup bad]
  /\ UNCHANGED <<busVars, registryVars, kernel, boot, run>>

\* asyncio.wait ends: a probe still pending counts as failed.
AnswerHealth ==
  /\ health.pc = "probing"
  /\ health' = [pc |-> "answered", pending |-> {}, failed |-> health.failed \cup health.pending,
                status |-> DeriveStatus(health.failed \cup health.pending)]
  /\ UNCHANGED <<busVars, registryVars, kernel, boot, run>>

----------------------------------------------------------------------------
(* Kernel.shutdown and the end of lifespan. *)

\* The server lets the requests end before it resumes lifespan.
BeginShutdown ==
  /\ Serving /\ health.pc # "probing" /\ kernel.initialized
  /\ kernel' = [kernel EXCEPT !.stop = IF @ = "none" THEN "none" ELSE "set"]
  /\ BootTo("unloading")
  /\ UNCHANGED <<busVars, registryVars, run, health>>

\* _unload_plugins: from the last one loaded to the first.
UnloadNext ==
  /\ boot.pc = "unloading" /\ registry # <<>>
  /\ StartUnload(registry[Len(registry)])
  /\ UNCHANGED kernelVars

Farewell ==
  /\ boot.pc = "unloading" /\ op = Idle /\ registry = <<>>
  /\ Publishing("main", "KERNEL_SHUTDOWN", handlers)
  /\ BootTo("farewell")
  /\ UNCHANGED <<handlers, heard, registryVars, kernel, run, health>>

\* The last sleep of shutdown is over.
ShutDown ==
  /\ boot.pc = "farewell" /\ Published("main")
  /\ kernel' = [kernel EXCEPT !.initialized = FALSE]
  /\ BootTo("join")
  /\ UNCHANGED <<busVars, registryVars, run, health>>

\* Mutated: the clients are closed while run goes on.
Mut_Join ==
  /\ boot.pc = "join"
  /\ BootTo(IF run.pc = "raised" THEN "crashed" ELSE "closing")
  /\ UNCHANGED <<busVars, registryVars, kernel, run, health>>

\* await kernel_run_task.
Join ==
  /\ boot.pc = "join" /\ run.pc \in {"done", "raised"}
  /\ BootTo(IF run.pc = "raised" THEN "crashed" ELSE "closing")
  /\ UNCHANGED <<busVars, registryVars, kernel, run, health>>

\* The three clients of this life are closed.
CloseClients ==
  /\ boot.pc = "closing"
  /\ BootTo("stopped")
  /\ UNCHANGED <<busVars, registryVars, kernel, run, health>>

----------------------------------------------------------------------------
(* The specification. *)

Registry == RegistryStep /\ UNCHANGED kernelVars

Deliver ==
  /\ \E t \in Publishers, e \in Events, h \in Handlers : RunHandler(t, e, h)
  /\ UNCHANGED <<registryVars, kernelVars>>

Main ==
  \/ StartUp \/ Ready \/ ReadyPublished \/ Remembered \/ LoadNext \/ CreateRun
  \/ InitializeRaises \/ UnloadNext \/ Farewell \/ ShutDown \/ Join \/ CloseClients

Loop ==
  \/ RunStarts \/ StartingPublished \/ RunHead \/ Housekept \/ HousekeepingRaises
  \/ Checked \/ DispatchRoutine \/ Waited

Over == boot.pc \in {"stopped", "failed", "crashed"} /\ UNCHANGED vars

Next ==
  \/ Main \/ Loop \/ Registry \/ Deliver \/ AskHealth \/ (\E c \in Checks : Probed(c))
  \/ AnswerHealth \/ BeginShutdown \/ Over

\* Each task goes on while it can; the plugins, the handlers, the agents and
\* the memory return.  Nobody has to ask for the health, or for the end.
Fairness ==
  /\ WF_vars(Main) /\ WF_vars(Loop) /\ WF_vars(Registry) /\ WF_vars(Deliver)
  /\ WF_vars(AnswerHealth)

Spec == Init /\ [][Next]_vars
FairSpec == Spec /\ Fairness

----------------------------------------------------------------------------
(* Properties. *)

\* Where a plugin can be reached from outside - a new event, a new dispatch -
\* it is initialised and not shut down yet, at every await of load and unload
\* (registry.py:135-251).  An adapter under another name than the manifest's
\* is left behind by unload (agent_adapter.py:51), and is not spoken of here.
OnlyTheLiving ==
  \A p \in Plugins :
    \/ p \in adapters /\ AgentName[p] = Name[p]
    \/ \E e \in Events : p \in handlers[e]
    => life[p] = "active"

Before(i, n) == \E j \in 1..(i - 1) : Name[registry[j]] = n

\* A loaded plugin has everything it requires: a package, or a plugin that was
\* loaded before it and is unloaded after it (installer.py, kernel.py:171).
DependenciesFirst ==
  \A i \in 1..Len(registry) :
    \A n \in Requires[registry[i]] \ Packages : Before(i, n)

\* GET /health says "critical" exactly when the loop of run is dead at the
\* moment of the answer, however long the probes took, and "ok" exactly when it
\* lives and every probe has come back in time and well (api.py:261-266, 335-347).
HealthTellsOfTheLoop ==
  [][health.pc = "probing" /\ health'.pc = "answered"
       => /\ health'.status = "critical" <=> ~kernel.running
          /\ health'.status = "ok" <=>
               kernel.running /\ health.failed \cup health.pending = {}]_vars

\* After an orderly end nothing of the Kernel goes on: run is over, no plugin is
\* left with the registry or - under the name of its manifest - AgentManager,
\* and who is still initialised could not have its hooks connected
\* (registry.py:191).
StoppedMeansStopped ==
  boot.pc = "stopped" =>
    /\ run.pc = "done" /\ ~kernel.running /\ ~kernel.initialized
    /\ registry = <<>> /\ \A p \in adapters : AgentName[p] # Name[p]
    /\ \A p \in Plugins : life[p] \in {"made", "active"} => Fault[p] = "half hooks"

\* A shutdown ends, whatever run was doing when it was asked for.
StopsInTheEnd == boot.pc = "unloading" ~> boot.pc \in {"stopped", "crashed"}

\* What the contract of IPlugin lists as available events and CONTRACT_EVENTS
\* has a class for: after an orderly life each handler connected to an event of
\* the Kernel was run.
KernelEventsReachPlugins ==
  boot.pc = "stopped" =>
    \A p \in Plugins, e \in {"KERNEL_READY", "KERNEL_STARTING", "KERNEL_SHUTDOWN"} :
      life[p] = "shut" /\ e \in HookedEvents(p) => p \in heard[e]

=============================================================================
