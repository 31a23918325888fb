# Aries OS in TLA+

A verification project for Aries OS, a local voice assistant: a FastAPI process
(Kernel, Planner, agents, plugins, memory, routines) and a voice process
(activation, recording, speech), with Redis between them. The modules here are
written from the Python source under `src/src/aries`; every definition that
stands for code is tied to its lines in `PROJECT.json` ("map").

Contents: 1. the system, 2. the modules, 3. the runs, 4. the proofs,
5. disagreements found, 6. what is not modelled, 7. the plan.

## 1. The system

### 1.1 Processes and shared state

| process | runs | shares |
|---|---|---|
| API (uvicorn, one event loop) | `lifespan`, `Kernel.run`, one task per HTTP request | `AgentManager._agents`, the plugin registry, the event bus, memory: all in process memory |
| voice (asyncio + PyAudio and hotkey threads) | `VoicePipeline.run_forever` and `_consume_routines` | the audio device, `_idle`, `_activation_event` |
| Redis | | pending confirmations (`SET` with a TTL, `GETDEL`), the stream `routines.due` |

Inside the API everything interleaves at `await`. Between the processes the only
links are HTTP (`POST /message`, `POST /message/confirm`) and the stream.

### 1.2 Components

| component | state | operations | what makes it correct |
|---|---|---|---|
| Planner | none of its own but the pending confirmations in Redis; each request has a plan, a position and the results so far | `handle`, `confirm` | nothing that must be confirmed runs unconfirmed; a confirmation is good for one execution; a plan runs in order, once, and stops at its first failure; its end is told once; every request ends |
| AgentManager | `_agents: dict[name, IAgent]` | `register`, `unregister`, `get_agent`, `dispatch` | a dispatch goes to an agent of that name, and to one that the confirmation covers |
| Agents (filesystem, process, git, database, plugin adapters) | the outside world; the aliases of the configuration; the threads of one executor | `execute`, `requires_confirmation` | what loses something asks first; a transaction is all or nothing; every call is answered |
| RoutineManager | per routine `last_fired_occurrence`, `pending_occurrence`, `fired_on_startup`, in memory only | `check_due` | each occurrence is settled once, in order; retries keep their occurrence; nothing blocks the rest |
| Message bus (Redis streams) | the stream, a consumer group, its pending entries list | `publish`, `subscribe`, `ack` | at least once: what was not confirmed is delivered again |
| Voice pipeline | `_idle`, the activation event, the turn | `run_forever`, `run_once`, `_consume_routines`, the hotkey callback | one turn at a time; a press counts exactly while nothing was activated; a turn ends whatever fails; every message of a routine is spoken or expires |
| Hotkey listener | the thread, `_ready`, `_startup_error`, `_hwnd` | `start`, `stop`, the message loop | once started it sees every press |
| Microphone | the stream and what it captured while nobody read | `read_frame`, `drain`, `record_until_silence` | a recording is one utterance, without the beep |
| Kernel | `_initialized`, `_running`, `_stop_event`, loaded plugins | `initialize`, `run`, `shutdown` | every loaded plugin is unloaded; a shutdown ends `run`; health tells whether the loop lives |
| Plugin registry | `_loaded`, the hooks of each plugin | `load`, `unload` | only a living plugin can be reached; what it requires is loaded before it and unloaded after it |
| Event bus | handlers by event type, under a lock | `publish`, `subscribe`, `unsubscribe` | one failing handler does not stop the others |
| Memory | a dict, or a SQLite table | `store`, `retrieve`, `search`, `clear_expired` | an entry stays until it is deleted, or has expired and is cleared; what expired is still found until then |
| Loader of routine files | none | `parse_routine`, `load_routines`, `schedule_to_cron` | an invalid file leaves the others alone; a schedule fires at its time on its days |
| API glue | singletons, task handles | `lifespan`, `health_check`, probes | the order of start and stop; the derived health |

### 1.3 What is hard

* two tasks serve the same plan: the one that created it and one or more that
  confirm it; two confirmations with the same id can arrive together;
* the agent that was asked `requires_confirmation` and the agent `dispatch` finds
  are looked up at two times with an `await` between them, and plugins come and
  go in the meantime;
* a confirmation outlives the process that asked for it, and may expire while it
  is answered;
* a plan fails in its middle, after some of its steps changed the world;
* `check_due` judges with one `current_time` while the clock goes on, retries,
  discards what is too old, and forgets its state at a restart;
* delivery of the spoken messages is at least once, across two processes;
* three threads share the activation of the voice turn without a lock;
* plugins come and go around awaits of their own code, with events and dispatches
  on their way to them;
* the agents check in the event loop and act in a thread later, out of one pool.

`PROJECT.json` ("hazards") lists each hazard at its line with the properties that
would catch it. One has none: the routine consumer and the turn may use the speaker
at the same time, and what two players do to one device is outside of the code.

## 2. The modules

| module | models | |
|---|---|---|
| `Planner` | `planner/planner.py`, `agents/manager.py`, the endpoints of `api.py` that call them | the component |
| `PlannerInvariant` | | the inductive invariant of the Planner |
| `PlanLedger` | | the abstract specification: what is promised about a plan |
| `PlannerLedger` | | the refinement mapping from `Planner` to `PlanLedger` |
| `PlannerProofs` | | theorems about `Planner` |
| `MCPlanner` | | instances for TLC |
| `Routines` | `routines/manager.py`, the loop of `Kernel.run` that calls it | the component |
| `RoutinesProofs` | | theorems about `Routines` |
| `RoutineFile` | `routines/loader.py`, `routines/cron.py` | functions on files and cron expressions |
| `RoutineFileProofs` | | theorems about `RoutineFile` |
| `MCRoutines` | | an instance for TLC, its routines loaded from files by `RoutineFile` |
| `RoutineDelivery` | `messaging/redis_streams_bus.py`, `_consume_routines` of `voice/pipeline.py` | the component |
| `RoutineDeliveryProofs` | | theorems about `RoutineDelivery` |
| `MCRoutineDelivery` | | an instance for TLC |
| `ProactiveSpeech` | `Routines` and `RoutineDelivery` on one stream and one clock | the composition |
| `ProactiveSpeechProofs` | | theorems about `ProactiveSpeech`, on those of its two parts |
| `MCProactiveSpeech` | | an instance for TLC |
| `EventBus` | `events/event_bus.py`, `events/dispatcher.py` | operations used by the next two |
| `PluginRegistry` | `plugins/registry.py`, `loader.py`, `manifest.py`, `installer.py` | the component, on `EventBus` |
| `Kernel` | `core/kernel.py`, `lifespan` and `/health` of `api.py` | the component, on `PluginRegistry` |
| `KernelProofs` | | theorems about `Kernel` and `PluginRegistry` |
| `MCKernel` | | instances for TLC |
| `HotkeyListener` | `voice/hotkey_listener.py` | steps used by `VoicePipeline` |
| `AudioIO` | `voice/audio_io.py` | steps used by `VoicePipeline` |
| `VoicePipeline` | `voice/pipeline.py` without the consumer of the routines | the component |
| `VoicePipelineProofs` | | theorems about `VoicePipeline` with its two parts |
| `MCVoicePipeline` | | an instance for TLC |
| `AgentCall` | `asyncio.to_thread` in the agents, `contracts/agent.py` | a call and the threads |
| `FileSystemAgent`, `DatabaseAgent`, `GitAgent`, `ProcessAgent` | `agents/*/agent.py` | one component each, on `AgentCall` |
| `MemoryStore` | `memory/in_memory.py`, `memory/sqlite_store.py` | the component, on `AgentCall` |
| `NativeAgents` | the five above in one process | the composition |
| `NativeAgentsProofs` | | theorems about `NativeAgents` and its five parts |
| `MCNativeAgents` | | an instance for TLC |

### 2.1 Planner

One record per request (`req[r]`), a set of pending confirmations (`pending`), the
registry (`agents`), and histories that only the properties read (`ran`,
`announced`, `remembered`, `rejected`). Actions are cut where the code awaits
something after which it reads shared state again:

| action | code |
|---|---|
| `Handle` | `handle` up to the call of the LLM |
| `LlmRaises`, `LlmUnparsable`, `LlmProposes` | `_parse_intent`: an exception ends the request, an unusable answer is tried again up to `_MAX_INTENT_ATTEMPTS`, a usable one is the plan |
| `AgentUnknown`, `StepMustBeConfirmed`, `StepStarts`, `PlanCompleted` | the head of the loop of `_execute_plan` |
| `StoreConfirmation`, `StoreConfirmationRaises` | `_store_pending_confirmation` |
| `DispatchRefused`, `DispatchRuns` | `AgentManager.dispatch` looking the agent up a second time |
| `StepSucceeds`, `StepFails`, `StepRaises` | the result of `execute` and what the loop does with it |
| `CallRaises` | an exception elsewhere, caught by `handle` or `confirm` |
| `Remember` | `_remember_exchange` and the return |
| `ConfirmUnknown`, `ConfirmRejected`, `ConfirmAccepted`, `ConfirmRaises` | `confirm`: GETDEL, the phrase, the resumed loop |
| `Register`, `Unregister` | what plugins do to the registry, at any time |
| `Expire` | the TTL of a pending confirmation |
| `Restart` | the process dies: the requests are gone, Redis is not |

Abstractions. A plan suffix is the position of its first step; a list of results
is its length, since all results but the last one of a plan are successes. Prompts,
texts, sessions and the context read from memory are left out; an empty input is
answered before any state changes. An LLM answer is any sequence of at most
`MaxSteps` steps. The model allows slightly more than the code in one place: after
a `Restart` a stored id can be confirmed even if the reply that names it was
never sent. A plugin may register under the name of a native agent and unregister
it; plugin agents never ask for a confirmation (`plugins/agent_adapter.py`).

### 2.2 Routines

`clock` advances by itself (`Tick`), also while `check_due` awaits. A check reads it
once (`StartCheck`), visits the routines in order (`Evaluate`: not due, too old,
due), and executes the chain of the one that is due step by step (`Execute`). What
failed leaves `pending` set, so the next check looks at the same occurrence and
runs its chain from its first step. `Restart` forgets everything, as the code
does: `Routines.spec.md` names this as a declared limit. A cron expression is the
set of moments it fires at (`Due`); an `on_startup` routine has one occurrence, the
start of the process. Steps of a chain speak, dispatch to an agent, or dispatch to
an agent that asks for a confirmation. A failing `XADD` may have written its
message or not. The clock is assumed not to run backwards. Disabled routines,
routines with the same id and errors of croniter are left out.

### 2.3 RoutineDelivery and ProactiveSpeech

Entries of the stream are numbered. Redis keeps how many were written, which of
them MAXLEN removed (`trimmed`: all or a part of what is in front of the last
`MaxLen`, as the `~` allows), the last delivered one and the pending entries list of
the one consumer, whose name never changes. `consumer` is the generator and the
loop together, since the loop runs only while the generator is suspended at a
`yield`: `Connect` (`_ensure_group`), `ReadOwn` (XREADGROUP from "0"), `ReadNew`
(from ">"), `YieldMessage` or `YieldRaises` (`_to_bus_message`), `Speak` or `GiveUp`
(expired, or the synthesis or playback failed), `Ack` or `AckFails`. `RedisFails` and
`ReplyLost` are the RedisErrors of the generator, before or after Redis carried out
the command; `Crash` is the death of the voice process at any point, also in the
middle of a sentence. The variable `replayed_own_pel` needs no counterpart: every
path to a connection leaves it false. Redis is assumed to keep its data.

`ProactiveSpeech` joins the two by INSTANCE: the stream `Routines` writes is the one
`RoutineDelivery` reads (`written` is its length, `expired` the entries whose
occurrence plus the maximal staleness is behind the clock). `SpeechAssumption` is what the
two assume of their constants.

A routine of `MCRoutines` comes from a file: `RoutineFile` says which of four files
`load_routines` takes (one is for the start, two have a schedule; one declares two
triggers) and at which moments they are
due, which are the `Due` and `OnStartup` of `Routines`. It is a module of functions: a
file is what `parse_routine` looks at, and a cron expression a minute, an hour and
days of the week. What it proves is in section 4.

### 2.4 Kernel, PluginRegistry and EventBus

`Kernel` is one life of the API process. `boot` is where `lifespan` is (task `main`),
`run` the task of `Kernel.run`, `health` a request of `GET /health`. `PluginRegistry` is
called by `main`, one call at a time, so its state (`op`) is where that call awaits:

| action | code |
|---|---|
| `StartUp`, `Ready`, `ReadyPublished`, `Remembered`, `CreateRun`, `InitializeRaises` | `initialize` from await to await, then `lifespan` |
| `LoadNext`, `StartLoad`, `InitializeFails`, `Activate`, `RegisterRaises`, `HooksRaise`, `Discarded`, `ConnectRaises`, `Announced` | `_load_plugins` and `load`: what is wrong with the directory (`Fault`, `Missing`), what `initialize`, `register_hooks` and `get_metadata` of the plugin do, the hook that cannot be connected |
| `UnloadNext`, `StartUnload`, `Unload` | `_unload_plugins` and `unload` |
| `RunStarts`, `StartingPublished`, `RunHead`, `Housekept`, `HousekeepingRaises`, `DispatchRoutine`, `Checked`, `Waited` | `run`; `check_due` is one dispatch at most here, `Routines` has it whole |
| `RunHandler` | the dispatcher, one handler of one publication at a time |
| `AskHealth`, `Probed`, `AnswerHealth` | `health_check`: two probes with a limit, and the state of the task when it answers |
| `BeginShutdown`, `Farewell`, `ShutDown`, `Join`, `CloseClients` | `shutdown` and the end of `lifespan` |

`publish` works on a copy of the handlers (`Publishing`), so a handler may run after its
plugin was unsubscribed; `heard` is a history. `life` is what each plugin has been
through, which the registry itself does not know after a failure. The server opens
its port after `run` has taken its first step and lets requests end before it goes
on with `lifespan`: both are how asyncio and uvicorn behave, so `shutdown` cannot come
before `_stop_event` exists. Time is counted in ticks of the loop.

### 2.5 VoicePipeline

Three threads: the event loop (`main` and `turn`), the thread of `to_thread` (`thread`)
and the hotkey's (`hotkey`). They share `idle` and `activation`, one read or write per
action: `PressRead` and `PressSet` are the two halves of `_on_hotkey_press`, `Poll` looks at
the event and clears it, `Detected` clears `_idle`. A recording is a sequence of frames,
`loud`, `quiet` or `beep`: the stream captures the pipeline's own beep while nobody
reads it (`mic.backlog`), which is what `drain` is for. The turn is the chain of awaits of
`run_once` and `_handle_confirmation`; what the API and the providers answer is a choice,
and each may raise (`TurnRaises`, `ThreadRaises`). `Cancel` is the end of the process by
cancellation: `to_thread` does not stop its thread, which goes on by itself. Start and
stop of the hotkey wait five seconds at most, which the model takes for any time.

### 2.6 The native agents

`AgentCall` numbers the calls of `execute`. A call is answered in the event loop, or
waits for one of `PoolSize` threads (`queued`), works there (`working`, `midway`) and is
answered; `kill_process` asks for a thread twice. The executor's queue is taken to be in
no order. Each agent has its part of the outside world and one action per step that
another call can fall between:

* `FileSystemAgent`: the checks, directories and deletions at once; reads, and writes as
  `TruncateFile` and `WriteFile`, in a thread. Two writes at a time leave a mixture.
* `DatabaseAgent`: the operations of one `engine.begin()`. pysqlite begins a transaction
  only before the first write: `DbDefine` in front of it commits by itself.
* `GitAgent`: where each piece of work is (working tree, index, branches or a detached
  HEAD, remote), in a repository as somebody left it. The arguments go to git as they
  are: a target is the name of a branch, `"commit"` (to check out, it detaches HEAD), or
  `"forced"`, what git takes for more than a name: the refspec `+main`, the option
  `--hard`, a path. One outcome or more of `GitEffects` per handler. git holds `index.lock`
  from `GitStarts` to `GitEnds`; `GitTimesOut` kills it before or after its work, and may
  leave the lock (`stale`), which nothing but a hand removes, or a helper of git with its
  pipes (`helpers`), for which the call waits in its thread until `GitLetsGo`. `NewWork` is
  somebody else at the repository.
* `ProcessAgent`: a child with a timeout. On Windows `subprocess.run` kills it and then
  reads its pipes without a limit, which a grandchild may hold (`lingering`). A pid may
  be another process's by the time it is killed.
* `MemoryStore`: each operation is one statement, or one step of the event loop under a
  lock. Expired entries are found by every operation until `clear_expired`.

`RequestsAssumption` says what the schemas of the requests do: the agent has the action,
`ops` are operations, the targets of git are of the kinds above, and the branches that are
created are among `Branches`.

## 3. The runs

| run | instance | states | shows |
|---|---|---|---|
| `planner_core` | one plan of at most 3 steps over 3 step kinds, 2 requests, a native agent that asks, a plugin of the same name, another plugin | 71 thousand | the safety properties, and `LedgerSpec`: the Planner implements `PlanLedger` (the types are part of `IInv`, in the next run) |
| `planner_two_plans` | two plans of one guarded step, 2 requests, the plugin of the same name | 85 thousand | `IInv` holds, no approval is used twice among plans, every request is answered |
| `planner_nothing_ran` | as `planner_core` | | a counterexample: see section 5 |
| `routines` | a greeting at start up, a chain of two steps due twice, a guarded action; five units of time, staleness one | 189 thousand | the safety and liveness properties of the routines |
| `delivery` | three entries, MAXLEN 2, two per read | 44 thousand | the safety and liveness properties of the delivery |
| `delivery_trimmed` | four entries, MAXLEN 2 | | a counterexample: see section 5 |
| `proactive_speech` | one routine that dispatches and speaks twice, three entries, MAXLEN 1 | 25 thousand | `HeardInTurn`, `DeliverySpec` and `DoneIsSaid`: the composition |
| `kernel_life` | four plugins: one requires another, two have the same name, one has a hook that fails, one an agent of another name; `get_metadata` may raise | 33 thousand | one life of the API process is orderly |
| `kernel_hooks` | one plugin that hooks KERNEL_READY | | a counterexample: see section 5 |
| `voice_turn` | recordings of at most five frames, confirmations of four, two of silence | 43 thousand | the turn and its threads |
| `native_agents` | three calls on two threads, one database, one repository with two branches and one piece of work, new or with its HEAD detached | 196 thousand | what concurrent calls may do to the disk, and that they end |
| `create_race` | as `native_agents` | | a counterexample: see section 5 |

Properties of the Planner:

* `ConfirmedBeforeRun`: an action whose agent asks is executed only by a request
  that consumed its confirmation, whatever happened to the registry meanwhile;
* `ApprovalsRunOnce`: an approval is spent by one execution;
* `RunsFollowThePlan`: over all requests that served it, what was executed of a
  plan is a prefix of its steps, by agents of the right name;
* `StopsAtFirstFailure`, `SuccessMeansAllRan`, `EndsToldOnce`, `OverMeansOver`: the
  end of a plan, and what listeners and the memory are told of it;
* `Answered`: every request ends, unless an agent never returns;
* `LedgerSpec`: the same seen as a small state machine per plan.

Properties of Routines:

* `EachInTurn`: the settled occurrences are exactly those between the start of the
  process and `last_fired_occurrence`, once each and in order;
* `DoneMeansDone`: completed means that every step of the chain succeeded for that
  occurrence, and steps take effect in order;
* `SettledIsFinal`: nothing takes effect or is published for an occurrence that is
  settled or belongs to an earlier life of the process;
* `EveryOneSettled`: every occurrence the process lives to see is settled in the
  end, although others fail for ever or are late.

Properties of RoutineDelivery and ProactiveSpeech:

* `NothingLost`: what Redis delivered is finished (spoken or given up), still in
  the pending entries list, or was removed by MAXLEN;
* `ConfirmedIsOver`: all that the loop has in hand is unconfirmed, so nothing is
  spoken after its confirmation (before it, it may be spoken twice: the documented
  choice of MessageBus.spec.md section 4);
* `OldBeforeNew`, `InOrder`: what an earlier connection left behind comes first, and
  entries are dealt with in the order of their publication;
* `EveryOneFinished`: the loop leaves no entry behind for good, but those that MAXLEN
  removed, and all of them once the consumer has died of one (`delivery_trimmed`);
* `DeliverySpec`: `RoutineManager` with its XADD is the publisher `RoutineDelivery`
  assumes, so that what holds there holds for the composition;
* `HeardInTurn`: a sentence is heard only after every step in front of it in its chain
  has succeeded, although the chain is started again in one process and the sentence
  delivered again in another;
* `DoneIsSaid`: each sentence of an occurrence that was completed is spoken, given up or
  removed by MAXLEN in the end, unless the consumer has died: an entry that is removed
  while it waits for its confirmation ends it (`delivery_trimmed`), and then a sentence
  completed later stays in the stream. Without that exception the run fails.

Properties of Kernel:

* `OnlyTheLiving`: the handlers subscribed on the bus, and the adapters under the name of
  their manifest, are of plugins that are initialised and not shut down, at every await
  of `load` and `unload`, failures included. An adapter under another name stays after
  its plugin (section 5), and a handler that an event has already copied still runs:
  neither is covered;
* `DependenciesFirst`: what a plugin requires is loaded before it and unloaded after
  it, although `check_requirements` looks only when it is loaded;
* `HealthTellsOfTheLoop`: `critical` exactly if the loop is dead at the moment of the
  answer, however long the probes took; `ok` exactly if it lives and no probe failed or
  is missing; `degraded` otherwise;
* `StoppedMeansStopped`, `StopsInTheEnd`: a shutdown comes to its end, whatever `run` was
  doing, and leaves nothing behind but a plugin whose hooks could not be connected
  (which no one shuts down).

Properties of VoicePipeline:

* `StartedMeansListening`: if `start` returned, the hotkey is seen until the end;
* `IdleTellsTheTurn`: presses count exactly until an activation is detected;
* `RecordingIsWhole`: a recording ends where a definition over its frames (`EndsAt`) says,
  no frame earlier or later, and holds nothing of the beep;
* `PressStartsATurn`: a press that was taken is not lost between two frames or two turns;
* `TurnsEnd`: the pipeline is idle again, whatever raised.

`IdleTellsTheTurn` allows one thing that a user may notice: a press that was found idle
just before a wake word was detected starts the turn after this one, because the
event is cleared only when the next turn listens (`voice/pipeline.py:183`).

Properties of NativeAgents:

* `DatabaseAtomic`: from its first write on, a call of the database agent is in the
  database whole, in its order and with nothing of another call among it, or not at
  all;
* `NothingLostUnasked`: no action that needs no confirmation loses the content of a file
  (other than the one its write names), a piece of git work or a memory entry that had not
  expired, whatever runs beside it and however it is cut off. The calls of git whose
  arguments discard work without their flag, or that leave a detached HEAD, are the
  exceptions (`Discards`): the agent asks for neither, and each of them is needed for the
  run to pass;
* `EveryCallAnswered`: calls end by answers or timeouts, or their threads wait for pipes
  that somebody holds: enough of those stop all agents.

### 3.1 Bounds

`MaxPlans`, `MaxSteps`, `MaxTime` and `NumMessages` bound the runs, nothing else does
(`MaxIntentAttempts`, `MaxStaleness`, `MaxLen`, `BatchSize` and `ReplayCount` are numbers of
the code, made small). Three steps are enough for a step before, at and after a confirmation, and
for a plan that is confirmed twice. Two requests are enough for a race of two
confirmations, and of a confirmation with the request that asked for it; two plans
of two steps each do not finish in a reasonable time, so that the two questions
(inside of a plan, between plans) have a run each. Both runs have every action.
Five moments hold a backlog, a retry, a discard and a restart with occurrences
before and after it; a restart needs `clock + MaxStaleness < MaxTime` so that the new
process has something to do, and happens once per moment. At the last moment the
checks go on, so that liveness does not end with the clock. In `delivery` three
entries are one more than a read and one more than MAXLEN, so that a batch is left
in the middle, a new read follows an interrupted one, and an entry is trimmed while
it waits; in all runs of the delivery a replay reads all that waits, which the code
has as long as fewer than 100 entries are unconfirmed. With more, the entries behind
the first 100 wait for the next connection, and neither the order nor `DoneIsSaid` is
kept: that is a hazard that no run reaches, and an assumption of the theorems on the order.
In `proactive_speech` the chain has three steps, so that its second sentence is written
while MAXLEN 1 removes the first, spoken or not, and the consumer may die before a
sentence that is completed later.

`kernel_life` has the smallest registry in which a requirement, a name that is taken, a
second name and a failing hook occur together; the loop counts up to two ticks. In
`voice_turn` five frames leave room for silence before speech, a silence that is
interrupted, one that ends the recording, and the limit; turns repeat without bound.
In `native_agents` three calls on two threads leave one to wait. The agents share no
state but the threads, so that the calls of a behaviour go to one agent, or are
commands that leave their pipes to others beside calls of the memory store; at most
two of the calls are to git, one if it discards work by its arguments or leaves HEAD
detached (a repository that begins with a detached HEAD makes one enough), and what others
do to the repository, to a pid or to the date of an entry happens while a call can tell (`Together` and `Alone` of `MCNativeAgents`,
which only restrict `Spec`). A run there stops after its three calls, so deadlock is
not checked; no other run leaves it out.

`HasRedis = FALSE` (the Planner as a library, without Redis) is covered by the
proofs, not by a run: nothing can be stored and no confirmation follows.

### 3.2 Fairness

* Planner: weak fairness of `Proceeds(r)`, the steps of a request outside of an
  agent's `execute`. The event loop runs ready tasks; the LLM has
  `llm_request_timeout_seconds`, the Redis client a socket timeout, the memory is
  local. Handlers of events are assumed to return. Nothing is assumed of users,
  plugins or of an agent's `execute`.
* Routines: weak fairness of the clock, of the start of a check and of each of its
  steps. The native agents have time limits and XADD has the socket timeout; a
  plugin that never returns stops the loop of `Kernel.run` for good, which is in
  the hazards and outside of this assumption. Nothing makes a step succeed.
* Delivery: strong fairness of each step of the loop. Redis may fail and the voice
  process may die again and again, at any point, but not each time for good: a
  step that is tried over and over succeeds in the end. The entries stay in Redis
  meanwhile, so that weaker assumptions (one period without failures) are special
  cases. `Crash`, `RedisFails`, `ReplyLost` and `AckFails` have no fairness.
* Kernel: weak fairness of the two tasks, the call in the registry, the handlers
  and the answer of `/health`, which has a limit. Plugins, handlers, agents and the
  memory are assumed to return: the code waits for them without a limit, and one that
  does not return stops the shutdown. Nobody has to ask for the health or for the end.
* Voice: weak fairness of the threads and of the turn; the API client and the
  recordings have limits, the providers are assumed to return. Strong fairness of
  opening the microphone: a device that fails now works at some later attempt. Nobody
  has to press or to speak.
* Agents: weak fairness of a free thread taking a call and of a thread's next step,
  which for a child, a git and SQLite's lock is their timeout. They need not end by
  themselves, nor need whoever holds the pipes of a dead child or git let go of them.

## 4. The proofs

`PlannerProofs` proves, for every value of the constants that satisfies
`AgentsAssumption` and `BoundsAssumption` (so for any number of plans, requests,
agents and steps, with and without Redis):

| theorem | statement |
|---|---|
| `Invariance` | `Spec => []IInv` |
| `TypeCorrect` | `Spec => []TypeOK` |
| `Confirmed` | `Spec => []ConfirmedBeforeRun` |
| `RunOnce` | `Spec => []ApprovalsRunOnce` |
| `Followed` | `Spec => []RunsFollowThePlan` |
| `Stopped` | `Spec => []StopsAtFirstFailure` |
| `Complete` | `Spec => []SuccessMeansAllRan` |
| `ToldOnce` | `Spec => []EndsToldOnce` |
| `NothingAfterTheEnd` | `Spec => OverMeansOver` |
| `Implements` | `Spec => LedgerSpec` |

None of the properties is inductive. `IInv` adds the reason they hold: a plan has at
most one holder at a time, a request in the loop, a request about to store its
exchange, or a pending confirmation (`OneHolder`), and the holder knows exactly
what was executed (`ServingFacts`, `TicketFacts`, `ClosingFacts`). A confirmation
moves the plan from one holder to the next, which is where the atomicity of
GETDEL matters: with a GET the plan would have two. `ApprovalInv` does the same for
approvals: pending ids, ids held by requests and spent ids are all different.
`UncheckedInv` is about the two lookups of the agent: an agent without the need to
ask can only be replaced by a plugin's, and those never ask. `RegistryInv` is what
the second lookup relies on for the name.

`Implements` is the refinement, step by step. `PlannerLedger` reads the place of a plan
in the ledger off its holder; since there is one at most (`OneHolder`), an action that
moves one request moves one plan, and the others stay where they are. So each action of
the Planner has a lemma that gives the one action of the ledger it is, or that it is
none: a `Restart` ends the plans of the requests that die, the rest leave the ledger alone
or take its plan one place further.

The assumptions that carry weight: `Asks \subseteq Natives \X Actions` (the adapter
of a plugin has `requires_confirmation` return False) and
`Natives \cap PluginAgents = {}`.

`RoutineDeliveryProofs` proves, from `DeliveryAssumption` (any number of entries, any
MAXLEN and counts):

| theorem | statement |
|---|---|
| `Invariance` | `Spec => []IInv` |
| `TypeCorrect` | `Spec => []TypeOK` |
| `AtLeastOnce` | `Spec => []NothingLost` |
| `NeverAfterAck` | `Spec => []ConfirmedIsOver` |
| `OldFirst` | `Spec /\ []FewWait => []OldBeforeNew` |
| `Ordered` | `Spec /\ []FewWait => []InOrder` |

The invariant adds what the loop has in hand at each point (`HandInv`). The lemma
`OldestNoGap` (a read skips nothing older than what it returns) carries the step of
XREADGROUP. The last two theorems need `FewWait`: no more entries wait for their confirmation
than the replay of a new connection reads (100 in the code; the stream may be of any
length). They say so because the code does not ensure it: with more of them, left by
confirmations that failed, an entry of a crashed process comes back only after newer
ones. `OrderedRuns` is the case of the runs, where the whole stream fits in one replay. The
argument: once the own entries were read, what waits and is not finished is in hand
(`OldInHand`), and a replay that is long enough leaves nothing out (`OldestAll`).

`RoutinesProofs` proves, from `RoutinesAssumption` (any number of routines, schedules
and actions, any staleness):

| theorem | statement |
|---|---|
| `Invariance` | `Spec => []IInv` |
| `TypeCorrect` | `Spec => []TypeOK` |
| `InTurn` | `Spec => []EachInTurn` |
| `Done` | `Spec => []DoneMeansDone` |
| `Final` | `Spec => SettledIsFinal` |

The invariant says that a pending occurrence is the very one croniter gives from
`last_fired_occurrence` (`PendingInv`), so a retry and a new evaluation look at the
same; that nothing is settled ahead of the anchor (`SettledInv`), so what is settled
next is new; and that the chain in progress has its earlier steps behind it
(`ExecInv`). The lemma `GetNextFirst` is what is used of croniter: it returns the
first moment after its argument, for which `Least` gives the minimum of a set of
numbers. `RestartInv` is the case of a new process: all that was settled lies at or
before `loadedAt`, so nothing of an earlier life comes back.

`RoutineFileProofs` proves of every schedule and every file:

| theorem | statement |
|---|---|
| `ScheduleKeepsItsDays` | `ScheduleToCron(s)` fires exactly at the time and on the days of `s`: Python's Monday is 0, cron's is 1, and no day is lost or moved |
| `LoadedSchedulesAreDue` | a file with a schedule that is taken is due at some moment of the week |

`KernelProofs` proves, from `PluginsAssumption` and `KernelAssumption` (any number of
plugins, any names, dependencies, hooks and faults, any periods of the loop):

| theorem | statement |
|---|---|
| `Invariance` | `Spec => []IInv` |
| `TypeCorrect` | `Spec => []TypeOK` |
| `Living` | `Spec => []OnlyTheLiving` |
| `Dependencies` | `Spec => []DependenciesFirst` |
| `Stopped` | `Spec => []StoppedMeansStopped` |
| `HealthTells` | `Spec => HealthTellsOfTheLoop` |

`OnlyTheLiving` looks from the handlers, and the adapters under their manifest's name, to the
plugins; it is kept because of
what the code awaits in which order, and the invariant says that order: at each await of
`load` and `unload` it names the plugin, its life and whether anything can reach it
(`OpInv`); a plugin is in the registry once and only while it lives (`LoadedInv`); an
adapter under the manifest's name belongs to a plugin of the registry, so `unload` takes it
away (`ReachInv`); who lives without being in the registry is at an await of `load` or
could not have its hooks connected (`LifeInv`); and a directory not visited yet has no
plugin (`FreshInv`). `unload` takes the newest plugin, and removing the last entry of the
registry leaves every dependency in front of who needs it. `StageInv`, `RunInv` and `HealthInv` say
which task may be where at each stage of `lifespan`: the probes of `/health` run only while
it serves, and then `running` is true exactly while the loop of `run` goes on.

`VoicePipelineProofs` proves, from `AudioAssumption` (any limits of a recording and any
silence that ends one):

| theorem | statement |
|---|---|
| `Invariance` | `Spec => []IInv` |
| `TypeCorrect` | `Spec => []TypeOK` |
| `Listening` | `Spec => []StartedMeansListening` |
| `IdleTells` | `Spec => []IdleTellsTheTurn` |
| `Whole` | `Spec => []RecordingIsWhole` |

`HotkeyInv` is what `start` may conclude from the two events of the thread of the hotkey:
once ready without an error it stays at its messages until it is asked to close.
`TurnInv` says which thread runs for which part of a turn, so that `_idle` has one writer at
a time. `SilenceInv` ties the counters of `record_until_silence` to its frames: the
last loud frame lies just in front of the silence that is counted. With it the lemma
`RecordedIsEndsAt` shows that the loop ends exactly where `EndsAt`, which looks
at the frames alone, says; and `DrainedInv`, that what the microphone held at the beep is gone.

`NativeAgentsProofs` proves, from `RequestsAssumption` and the assumptions of the parts (any
requests, any number of calls and threads, any paths and branches, any repository to begin
with):

| theorem | statement |
|---|---|
| `Invariance` | `Spec => []IInv` |
| `TypeCorrect` | `Spec => []TypeOK` |
| `Atomic` | `Spec => []DatabaseAtomic` |
| `NothingLost` | `Spec => NothingLostUnasked` |

`IInv` was an invariant of `MCNativeAgents` before it was proved. What `DatabaseAtomic` needs is
in its parts: the open transaction holds exactly what its call has logged so far and
nothing of another (`TxInv`), a call at work that has written is the one with the lock
(`ProgressInv`), and the log is never ahead of a call (`LogInv`). The rest says what a
call is between its checks and its end: what the checks in front of the thread let
through still holds of the request in the thread (`CheckedInv`), a child has the call
that waits for it (`ChildInv`), and no more calls work than there are threads (`PoolInv`, by
the cardinality of the calls at work). Each lemma about a step of an agent says first what
it does to its call (`CallStep`), then to the agent's world, and that the worlds of the
other agents stay. `NothingLost` is proved from the same invariant: the lemmas on
`GitEffects` show of each handler, but those that are confirmed and those of `Discards`, that
the work it takes out of one place is in another (`GitKeepsWork`), also when the timeout
comes in between; `Switches` is what becomes of the branches when HEAD moves. What the two
theorems leave out: `Atomic` speaks of the operations from the first write of a call on,
of the kinds read, write and DDL (DDL in front commits by itself); `NothingLost` of files
other than the one a write was given (`create_race` shows what happens to that one), of
git work and of memory entries, not of tables.

`ProactiveSpeechProofs` proves, from `SpeechAssumption`:

| theorem | statement |
|---|---|
| `Implements` | `Spec => DeliverySpec` |
| `SpokenInTurn` | `Spec => []HeardInTurn` |
| `NotLost` | `Spec => []DoneIsNotLost` |

The two processes are composed with their proofs: `Settling` and `Hearing` are instances of
`RoutinesProofs` and `RoutineDeliveryProofs`, and `SameManager` and `SameVoice` show that they
speak of the same steps as the instances of the composition. By `ManagerBehaves` the composition
is a behaviour of RoutineManager, so its invariant holds; with it each step of the
manager is an entry that is appended, too late already or not (`AppendLate`), the clock that
makes entries too late (`LaterIsLate`), or nothing that the voice process can see. That is
`Implements`, which carries the invariant of the delivery over. The last two theorems need
both, and `SpeechInv`: a sentence on the stream has its chain behind it (by `ExecInv` of the
routines), one that took effect is on the stream, and only what is on the stream is
heard (what is spoken is unconfirmed, so it was delivered). `DoneIsNotLost` is the safety half of
`DoneIsSaid`: at any time a sentence of a completed routine was spoken or given up, or it waits
to be delivered or confirmed, or MAXLEN took it.

Only model-checked: the liveness properties `Answered`,
`EveryOneSettled`, `EveryOneFinished`, `DoneIsSaid`, `StopsInTheEnd`, `PressStartsATurn`, `TurnsEnd` and
`EveryCallAnswered`: liveness under fairness is out of the reach of the prover. Every other property
of a passing run is a theorem.

## 5. Disagreements found

* `planner_nothing_ran`: when a confirmation comes with another phrase,
  `confirm` answers that nothing was executed, but the steps of the plan in front
  of the guarded one were. The text is right only for a confirmation of the first
  step.
* `create_race`: the docstring of `FileSystemAgent` (lines 31-34) promises that
  `create_file` fails where a file exists, since truncating it silently would be
  surprising. The check is made before the await of the thread that opens the file: of
  two calls that create one path at a time, both answer SUCCESS, and the second
  truncates what the first has just written.
* `delivery_trimmed`: the docstring of `_consume_routines` says that a malformed payload
  never takes down the loop. `_to_bus_message` is called in the generator, outside of
  the loop's `try`: an entry that MAXLEN removed while it was pending comes back
  without fields, the generator ends with a KeyError, and the task with it, also
  after each restart. It takes `maxlen` newer entries (10000) to get there.

* `kernel_hooks`: `KernelInitializedEvent` is published before the plugins are loaded, and
  `KernelShutdownEvent` after they are unloaded: the hooks `docs/contracts/IPlugin.md`
  lists for them are taken and never run.

Others were met while modelling. They need no run to be seen, and the models have
what the code does:

* `agents/database/agent.py:54-58` calls `execute_transaction` atomic. It is from its
  first write on; with the driver's default, a DDL statement in front of it commits by
  itself (`DbDefine`).
* `routines/models.py:74-77` documents `last_fired_occurrence` as the last occurrence
  executed with success and never updated for anything else; `_resolve` also sets it for
  occurrences that were discarded or refused. The code needs it that way (`EachInTurn` and
  `EveryOneSettled` rest on it): the docstring is out of date.
* `agents/git/agent.py:46-51` says that no action but the two that are confirmed rewrites
  history. `branch`, `remote`, `name` and `target` reach the command line as they are (lines
  266-274, 296-302, 423, 446): the refspec `+main` is a forced push without `force`, a
  target `--hard` after `--soft` a hard reset, and the name of a path, or `-f`, a checkout
  that discards changes. `requires_confirmation` looks at `force` and `mode` only. In
  `NothingLostUnasked` they are the exceptions of `Discards`; leaving a detached HEAD with
  commits of its own is the other.
* `agents/git/agent.py:186-194`: on Windows the timeout is no limit of the call. A helper of
  the killed git that keeps its pipes (ssh, a credential helper, a hook) makes
  `subprocess.run` wait without one, as with `ProcessAgent` (`GitTimesOut`).
* `plugins/registry.py:201`: `get_metadata()` that raises in `AgentManager.register` is caught by
  `load`, which answers that nothing was loaded; the plugin is in the registry with its
  hooks, without an adapter and without `PluginLoadedEvent` (`RegisterRaises`).
* `plugins/registry.py:191`: a hook that cannot be connected is caught by `load`, which
  answers that nothing was loaded; the plugin stays initialised, with the hooks before.
* `plugins/agent_adapter.py:51` registers the name of `get_metadata()`, `registry.py` unregisters
  the manifest's: with two names the adapter stays with `AgentManager` after `unload`.
* `api.py:134`: when `initialize` raises, `lifespan` is not yet in its `try`: plugins loaded
  by then are not shut down and the clients are not closed (`InitializeRaises`).
* `routines/loader.py` promises that an invalid file never stops the others. A file that is
  not UTF-8, or a time with a digit such as a superscript two, which `isdigit` accepts and
  `int` does not, raises what `load_routines` does not catch (`Escapes`).
* `agents/filesystem/agent.py`: a text that is not UTF-8, or cannot be encoded, raises out of
  `execute`, although `contracts/agent.py:53-55` and `dispatch` say that it never does.

## 6. Not modelled

* Logging, settings, wording, prompts, types and exceptions: they have no behaviour, and
  the settings that matter are constants.
* The third-party models (speech, wake word, LLM) and HTTP beyond their outcomes.
* What two players do to one speaker; the samples of a frame.
* git: conflicts of a merge, a reset to a commit that is not of the branch, several
  repositories; the conflict of a checkout with changes that are not committed.
* Database: COMMIT, ROLLBACK or another command of the transaction as the text of an
  `execute_query` inside of `execute_transaction` (`agents/database/agent.py:421-422`):
  operations are reads, writes and DDL, and `DatabaseAtomic` says nothing of others.
* Cron expressions with days of the month; routines that are disabled in `Routines`.
* What a search of the memory matches.
* The training tools (offline scripts around files and numerical libraries, without
  state that the assistant shares), the start script, the empty packages.

## 7. Plan

1. done: `Planner` with its proofs, `PlanLedger`; `Routines` with its proofs.
2. done: `RoutineDelivery` with its proofs, `ProactiveSpeech`.
3. done: `EventBus`, `PluginRegistry`, `Kernel`; `HotkeyListener`, `AudioIO`, `VoicePipeline`;
   the native agents and the memory; `RoutineFile` with its proofs.
4. done: `Kernel` and `VoicePipeline` with their proofs.
5. done: the native agents with their proofs; the refinements `LedgerSpec` and `DeliverySpec` proved.
6. Next: that the order of the delivery carries over to `ProactiveSpeech`; the lemmas that say why
   the liveness properties hold (which step of a task is enabled where, and what it makes
   progress in), as far as they are safety.
