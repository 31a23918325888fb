--------------------------- MODULE PluginRegistry ---------------------------
(***************************************************************************)
(* PluginRegistry: load and unload, their effects on the event bus and on  *)
(* AgentManager, and the plugins themselves.  Both are called by one task, *)
(* "main", one call at a time; what other tasks may see are the states at  *)
(* its awaits: initialize and shutdown of the plugin, and the publication  *)
(* that ends the call.                                                     *)
(*                                                                         *)
(* A plugin is the number of its directory, in the order of their names.   *)
(***************************************************************************)
EXTENDS EventBus, Naturals, Sequences

CONSTANTS
  NumPlugins,   \* directories under plugins_dir
  Names,        \* names of plugins and of packages
  Name,         \* [Plugins -> Names], the name in the manifest
  AgentName,    \* [Plugins -> Names], the name get_metadata() returns
  Requires,     \* [Plugins -> SUBSET Names], requires
  Packages,     \* the packages importlib.util.find_spec finds
  Hooks,        \* [Plugins -> Seq(HookNames)], what register_hooks returns
  Fault         \* [Plugins -> Faults], what is wrong with the directory

Plugins == 1..NumPlugins

\* What parse_manifest raises a ManifestError for.
ManifestErrors == {"no manifest", "unreadable", "not JSON", "missing field",
                   "bad name", "bad version", "bad requires", "bad entry_point"}

\* What load_plugin raises a LoaderError for.
LoaderErrors == {"no module", "import fails", "no class", "not a plugin", "constructor fails"}

\* What only the catch-all of load stops: a manifest that is not UTF-8.
OtherErrors == {"not UTF-8"}

\* "half hooks" is a plugin one of whose handlers cannot be subscribed.
Faults == {"none", "half hooks"} \cup ManifestErrors \cup LoaderErrors \cup OtherErrors

\* CONTRACT_EVENTS, and the names it has no class for.
NoClass == {"MEMORY_DELETED", "MEMORY_SEARCHED"}
HookNames == Events \cup NoClass

ASSUME PluginsAssumption ==
  /\ NumPlugins \in Nat /\ Handlers = Plugins
  /\ Name \in [Plugins -> Names] /\ AgentName \in [Plugins -> Names]
  /\ Requires \in [Plugins -> SUBSET Names]
  /\ Packages \subseteq Names
  /\ Hooks \in [Plugins -> Seq(HookNames)]
  /\ Fault \in [Plugins -> Faults]
  /\ {"PLUGIN_LOADED", "PLUGIN_UNLOADED"} \subseteq Events /\ "main" \in Publishers

VARIABLES
  registry,   \* _plugins: the loaded ones, in the order of their loads
  adapters,   \* AgentManager: the plugins whose adapter is registered
  life,       \* what each plugin object has been through
  op          \* the call of load or unload

registryVars == <<registry, adapters, life, op>>

----------------------------------------------------------------------------
(* State. *)

\* Not instantiated; waiting for initialize; given up before it worked;
\* initialised; shut down after register_hooks raised; unloaded.
Lives == {"absent", "made", "dropped", "active", "discarded", "shut"}

Op == [pc : {"idle", "initialize", "discard", "loaded", "shutdown", "unloaded"},
       plugin : 0..NumPlugins]

Idle == [pc |-> "idle", plugin |-> 0]

RegistryTypeOK ==
  /\ registry \in Seq(Plugins)
  /\ adapters \subseteq Plugins
  /\ life \in [Plugins -> Lives]
  /\ op \in Op

RegistryInit ==
  /\ registry = <<>>
  /\ adapters = {}
  /\ life = [p \in Plugins |-> "absent"]
  /\ op = Idle

\* list_plugins.
Loaded == {registry[i] : i \in 1..Len(registry)}

----------------------------------------------------------------------------
(* load. *)

\* Mutated: nothing is checked.
Mut_Missing(p) == {}

\* check_requirements: another plugin, or a package.
Missing(p) ==
  {n \in Requires[p] : n \notin Packages /\ \A q \in Loaded : Name[q] # n}

\* The manifest and the code are good, the name is free, nothing is missing.
Loadable(p) ==
  /\ Fault[p] \in {"none", "half hooks"}
  /\ \A q \in Loaded : Name[q] # Name[p]
  /\ Missing(p) = {}

\* load up to `await instance.initialize(context)`.
StartLoad(p) ==
  /\ op = Idle
  /\ Loadable(p)
  /\ life' = [life EXCEPT ![p] = "made"]
  /\ op' = [pc |-> "initialize", plugin |-> p]
  /\ UNCHANGED <<busVars, registry, adapters>>

\* initialize returned False, or raised.
InitializeFails ==
  /\ op.pc = "initialize"
  /\ life' = [life EXCEPT ![op.plugin] = "dropped"]
  /\ op' = Idle
  /\ UNCHANGED <<busVars, registry, adapters>>

\* The events in E are those a hook of p can be connected to.
HookedEvents(p) == {Hooks[p][i] : i \in 1..Len(Hooks[p])} \cap Events

\* AgentManager.register takes the name the plugin says it has, and
\* AgentManager.unregister the one of the manifest: nothing compares them.
Register(p) == adapters' = {q \in adapters : AgentName[q] # AgentName[p]} \cup {p}
Unregister(p) == adapters' = {q \in adapters : AgentName[q] # Name[p]}

\* initialize returned True: the hooks of p are connected, and p is entered in the
\* registry.
Enter(p) ==
  /\ life' = [life EXCEPT ![p] = "active"]
  /\ handlers' = Subscribed(p, HookedEvents(p))
  /\ registry' = Append(registry, p)

\* The plugin is entered in AgentManager too, and PluginLoadedEvent is published.
Activate ==
  /\ op.pc = "initialize" /\ Fault[op.plugin] = "none"
  /\ Enter(op.plugin) /\ Register(op.plugin)
  /\ Publishing("main", "PLUGIN_LOADED", handlers')
  /\ op' = [op EXCEPT !.pc = "loaded"]
  /\ UNCHANGED heard

\* get_metadata raised inside of AgentManager.register: the catch-all of load
\* answers that the plugin was not loaded, but it is, without an adapter.
RegisterRaises ==
  /\ op.pc = "initialize" /\ Fault[op.plugin] = "none"
  /\ Enter(op.plugin)
  /\ op' = Idle
  /\ UNCHANGED <<delivering, heard, adapters>>

\* register_hooks raised: the plugin is shut down again.
HooksRaise ==
  /\ op.pc = "initialize"
  /\ life' = [life EXCEPT ![op.plugin] = "active"]
  /\ op' = [op EXCEPT !.pc = "discard"]
  /\ UNCHANGED <<busVars, registry, adapters>>

\* _safe_shutdown has returned, whatever the plugin did.
Discarded ==
  /\ op.pc = "discard"
  /\ life' = [life EXCEPT ![op.plugin] = "discarded"]
  /\ op' = Idle
  /\ UNCHANGED <<busVars, registry, adapters>>

\* The loop over the hooks raises after the first n of them: the catch-all of
\* load answers, the plugin stays initialised with the hooks it has.
ConnectRaises ==
  /\ op.pc = "initialize" /\ Fault[op.plugin] = "half hooks"
  /\ \E n \in 0..(Len(Hooks[op.plugin]) - 1) :
       handlers' = Subscribed(op.plugin, {Hooks[op.plugin][i] : i \in 1..n} \cap Events)
  /\ life' = [life EXCEPT ![op.plugin] = "active"]
  /\ op' = Idle
  /\ UNCHANGED <<delivering, heard, registry, adapters>>

----------------------------------------------------------------------------
(* unload. *)

\* Mutated: the adapter stays with AgentManager until the plugin is gone.
Mut_StartUnload(p) ==
  /\ op = Idle /\ p \in Loaded
  /\ handlers' = Unsubscribed(p)
  /\ op' = [pc |-> "shutdown", plugin |-> p]
  /\ UNCHANGED <<delivering, heard, registry, adapters, life>>

\* unload up to `await instance.shutdown()`: nothing new reaches the plugin.
StartUnload(p) ==
  /\ op = Idle /\ p \in Loaded
  /\ handlers' = Unsubscribed(p)
  /\ Unregister(p)
  /\ op' = [pc |-> "shutdown", plugin |-> p]
  /\ UNCHANGED <<delivering, heard, registry, life>>

\* The registry without its i-th entry.
Without(i) == SubSeq(registry, 1, i - 1) \o SubSeq(registry, i + 1, Len(registry))

\* shutdown has returned, or raised: the plugin is removed all the same.
Unload ==
  /\ op.pc = "shutdown"
  /\ life' = [life EXCEPT ![op.plugin] = "shut"]
  /\ \E i \in 1..Len(registry) : registry[i] = op.plugin /\ registry' = Without(i)
  /\ Publishing("main", "PLUGIN_UNLOADED", handlers)
  /\ op' = [op EXCEPT !.pc = "unloaded"]
  /\ UNCHANGED <<handlers, heard, adapters>>

\* The handlers of PluginLoadedEvent or PluginUnloadedEvent are done.
Announced ==
  /\ op.pc \in {"loaded", "unloaded"} /\ Published("main")
  /\ op' = Idle
  /\ UNCHANGED <<busVars, registry, adapters, life>>

RegistryStep ==
  \/ InitializeFails \/ Activate \/ RegisterRaises \/ HooksRaise \/ Discarded
  \/ ConnectRaises \/ Unload \/ Announced

=============================================================================
