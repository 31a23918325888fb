---------------------------- MODULE KernelProofs ----------------------------
(***************************************************************************)
(* The safety properties of Kernel, for any plugins and whatever is wrong  *)
(* with them.                                                              *)
(***************************************************************************)
EXTENDS Kernel, TLAPS

----------------------------------------------------------------------------
(* The inductive invariant. *)

\* Nothing leads to p from outside.
Unreached(p) ==
  /\ \A e \in Events : p \notin handlers[e]
  /\ p \in adapters => AgentName[p] # Name[p]

\* The plugin that load or unload is at, and what it has been through.
OpInv ==
  /\ op.pc = "idle" => op = Idle
  /\ op.pc # "idle" => op.plugin \in Plugins
  /\ op.pc = "initialize" => life[op.plugin] = "made" /\ Missing(op.plugin) = {}
  /\ op.pc = "discard" =>
       life[op.plugin] = "active" /\ op.plugin \notin Loaded /\ Unreached(op.plugin)
  /\ op.pc = "shutdown" =>
       /\ Len(registry) > 0 /\ op.plugin = registry[Len(registry)]
       /\ Unreached(op.plugin)

\* The registry has each plugin once, and only those that live.
LoadedInv ==
  /\ \A i \in 1..Len(registry) : life[registry[i]] = "active"
  /\ \A i, j \in 1..Len(registry) : registry[i] = registry[j] => i = j

ReachInv ==
  /\ \A e \in Events : \A p \in handlers[e] : life[p] = "active"
  /\ \A p \in adapters : AgentName[p] = Name[p] => p \in Loaded

\* The directories that were not visited yet.
FreshInv == \A p \in Plugins : p >= boot.at => life[p] = "absent"

\* Who is initialised but not in the registry.
LifeInv ==
  \A p \in Plugins :
    /\ life[p] = "made" => op.pc = "initialize" /\ op.plugin = p
    /\ life[p] = "active" => \/ p \in Loaded \/ Fault[p] = "half hooks"
                             \/ op.pc = "discard" /\ op.plugin = p

RegistryInv ==
  /\ handlers \in [Events -> SUBSET Handlers] /\ RegistryTypeOK
  /\ boot.at \in 1..(NumPlugins + 1)
  /\ OpInv /\ LoadedInv /\ ReachInv /\ FreshInv /\ LifeInv /\ DependenciesFirst

\* What is called when, and what is over at the end.
StageInv ==
  /\ op.pc \in {"initialize", "discard", "loaded"} => boot.pc = "plugins"
  /\ op.pc \in {"shutdown", "unloaded"} => boot.pc = "unloading"
  /\ boot.pc \in {"farewell", "join", "closing", "stopped"} => registry = <<>>
  /\ boot.pc \in {"join", "closing", "stopped"} => ~kernel.initialized
  /\ boot.pc \in {"closing", "stopped"} => run.pc = "done"
  /\ run.pc = "none" <=> boot.pc \in {"off", "probe", "ready", "remember", "plugins"}
                          \/ boot.pc = "failed"

RunInv ==
  /\ kernel.running <=> run.pc \notin {"none", "created", "done", "raised"}
  /\ run.pc \in {"waiting", "routines", "executing"} => run.sinceHousekeeping < HousekeepingTicks
  /\ run.pc = "waiting" => run.sinceRoutines < RoutinesTicks

HealthInv ==
  health.pc = "probing" => boot.pc = "serving" /\ run.pc \notin {"none", "created"}

KernelInv ==
  /\ kernel \in KernelState /\ boot \in Boot /\ run \in Run /\ health \in Health
  /\ StageInv /\ RunInv /\ HealthInv

IInv == BusTypeOK /\ RegistryInv /\ KernelInv

----------------------------------------------------------------------------
(* The registry. *)

LEMMA Entries ==
  ASSUME registry \in Seq(Plugins)
  PROVE  Len(registry) \in Nat /\ \A i \in 1..Len(registry) : registry[i] \in Plugins
OBVIOUS

LEMMA RegistryKept ==
  ASSUME RegistryInv, UNCHANGED <<handlers, registryVars>>, boot'.at = boot.at
  PROVE  RegistryInv'
<1>1. UNCHANGED <<handlers, registry, adapters, life, op>>
  BY DEF registryVars
<1>2. Loaded' = Loaded /\ \A p \in Plugins : Missing(p)' = Missing(p)
  BY <1>1 DEF Loaded, Missing
<1>3. RegistryTypeOK' /\ LoadedInv'
  BY <1>1 DEF RegistryInv, RegistryTypeOK, LoadedInv
<1>4. OpInv'
  BY <1>1, <1>2 DEF RegistryInv, OpInv, Unreached
<1>5. ReachInv' /\ FreshInv' /\ LifeInv'
  BY <1>1, <1>2 DEF RegistryInv, ReachInv, FreshInv, LifeInv
<1>6. DependenciesFirst'
  BY <1>1 DEF RegistryInv, DependenciesFirst, Before
<1> QED
  BY <1>1, <1>3, <1>4, <1>5, <1>6 DEF RegistryInv

\* A directory is passed by.
LEMMA SkippedInv ==
  ASSUME RegistryInv, UNCHANGED <<handlers, registryVars>>, boot.at <= NumPlugins,
         boot'.at = boot.at + 1
  PROVE  RegistryInv'
<1>1. UNCHANGED <<handlers, registry, adapters, life, op>>
  BY DEF registryVars
<1>2. Loaded' = Loaded /\ \A p \in Plugins : Missing(p)' = Missing(p)
  BY <1>1 DEF Loaded, Missing
<1>3. RegistryTypeOK' /\ LoadedInv'
  BY <1>1 DEF RegistryInv, RegistryTypeOK, LoadedInv
<1>4. OpInv'
  BY <1>1, <1>2 DEF RegistryInv, OpInv, Unreached
<1>5. ReachInv' /\ LifeInv'
  BY <1>1, <1>2 DEF RegistryInv, ReachInv, LifeInv
<1>6. FreshInv' /\ boot'.at \in 1..(NumPlugins + 1)
  BY <1>1, PluginsAssumption DEF RegistryInv, FreshInv, Plugins
<1>7. DependenciesFirst'
  BY <1>1 DEF RegistryInv, DependenciesFirst, Before
<1> QED
  BY <1>1, <1>3, <1>4, <1>5, <1>6, <1>7 DEF RegistryInv

\* A load begins: the plugin was nothing yet, and it lacks nothing.
LEMMA StartLoadInv ==
  ASSUME RegistryInv, boot.at <= NumPlugins, StartLoad(boot.at), boot'.at = boot.at + 1
  PROVE  RegistryInv'
<1>0. PICK p \in Plugins : p = boot.at
  BY PluginsAssumption DEF RegistryInv, Plugins
<1>1. life[p] = "absent" /\ NumPlugins \in Nat /\ boot'.at = p + 1
  BY <1>0, PluginsAssumption DEF RegistryInv, FreshInv, Plugins
<1>2. /\ op = Idle /\ Missing(p) = {}
      /\ life' = [life EXCEPT ![p] = "made"] /\ op' = [pc |-> "initialize", plugin |-> p]
      /\ handlers' = handlers /\ registry' = registry /\ adapters' = adapters
  BY <1>0 DEF StartLoad, Loadable, busVars
<1>3. life \in [Plugins -> Lives] /\ registry \in Seq(Plugins)
  BY DEF RegistryInv, RegistryTypeOK
<1>4. RegistryTypeOK'
  BY <1>1, <1>2, <1>3 DEF RegistryInv, RegistryTypeOK, Lives, Op, Plugins
<1>5. \A q \in Plugins : q # p => life'[q] = life[q]
  BY <1>2, <1>3
<1>6. life'[p] = "made"
  BY <1>1, <1>2, <1>3
<1>7. Missing(p)' = {} /\ Loaded' = Loaded
  BY <1>2 DEF Missing, Loaded
<1>8. OpInv'
  BY <1>1, <1>2, <1>6, <1>7 DEF OpInv
<1>9. LoadedInv'
  BY <1>1, <1>2, <1>3, <1>5 DEF RegistryInv, LoadedInv
<1>10. ReachInv'
  <2>1. handlers \in [Events -> SUBSET Plugins]
    BY PluginsAssumption DEF RegistryInv
  <2> QED
    BY <1>1, <1>2, <1>5, <1>7, <2>1 DEF RegistryInv, ReachInv
<1>11. FreshInv'
  BY <1>1, <1>5 DEF RegistryInv, FreshInv, Plugins
<1>12. LifeInv'
  <2> SUFFICES ASSUME NEW q \in Plugins
               PROVE  /\ life'[q] = "made" => op'.pc = "initialize" /\ op'.plugin = q
                      /\ life'[q] = "active" => q \in Loaded' \/ Fault[q] = "half hooks"
    BY DEF LifeInv
  <2>1. CASE q = p
    BY <1>2, <1>6, <2>1
  <2>2. CASE q # p
    BY <1>2, <1>5, <1>7, <2>2 DEF RegistryInv, LifeInv, Idle
  <2> QED
    BY <2>1, <2>2
<1>13. DependenciesFirst'
  BY <1>2 DEF RegistryInv, DependenciesFirst, Before
<1>14. handlers' \in [Events -> SUBSET Handlers] /\ boot'.at \in 1..(NumPlugins + 1)
  BY <1>1, <1>2 DEF RegistryInv, Plugins
<1> QED
  BY <1>4, <1>8, <1>9, <1>10, <1>11, <1>12, <1>13, <1>14 DEF RegistryInv

\* A load ends without an entry in the registry: only the life of its plugin
\* and its hooks change.
LEMMA GivenUp ==
  ASSUME RegistryInv, op.pc \in {"initialize", "discard"}, op' = Idle,
         NEW l \in {"dropped", "discarded"}, life' = [life EXCEPT ![op.plugin] = l],
         UNCHANGED <<handlers, registry, adapters>>, boot'.at = boot.at
  PROVE  RegistryInv'
<1> DEFINE p == op.plugin
<1>1. /\ p \in Plugins /\ p \notin Loaded /\ life[p] \in {"made", "active"}
      /\ \A e \in Events : p \notin handlers[e]
  <2>1. p \in Plugins
    BY DEF RegistryInv, OpInv
  <2>2. CASE op.pc = "initialize"
    BY <2>1, <2>2 DEF RegistryInv, OpInv, LoadedInv, ReachInv, Loaded
  <2>3. CASE op.pc = "discard"
    BY <2>1, <2>3 DEF RegistryInv, OpInv, Unreached
  <2> QED
    BY <2>1, <2>2, <2>3
<1>2. life \in [Plugins -> Lives] /\ registry \in Seq(Plugins) /\ Loaded' = Loaded
  BY DEF RegistryInv, RegistryTypeOK, Loaded
<1>3. life'[p] = l /\ \A q \in Plugins : q # p => life'[q] = life[q]
  BY <1>1, <1>2
<1>4. RegistryTypeOK'
  <2>1. Idle \in Op
    BY PluginsAssumption DEF Idle, Op
  <2> QED
    BY <1>1, <1>2, <2>1 DEF RegistryInv, RegistryTypeOK, Lives
<1>5. OpInv'
  BY DEF OpInv, Idle
<1>6. LoadedInv'
  BY <1>1, <1>2, <1>3 DEF RegistryInv, LoadedInv, Loaded
<1>7. ReachInv'
  <2>1. handlers \in [Events -> SUBSET Plugins]
    BY PluginsAssumption DEF RegistryInv
  <2> QED
    BY <1>1, <1>2, <1>3, <2>1 DEF RegistryInv, ReachInv
<1>8. FreshInv'
  BY <1>1, <1>3 DEF RegistryInv, FreshInv
<1>9. LifeInv'
  BY <1>1, <1>2, <1>3 DEF RegistryInv, LifeInv
<1>10. DependenciesFirst'
  BY DEF RegistryInv, DependenciesFirst, Before
<1> QED
  BY <1>4, <1>5, <1>6, <1>7, <1>8, <1>9, <1>10 DEF RegistryInv

\* register_hooks raised: the plugin lives, and nothing leads to it.
LEMMA HooksRaiseInv ==
  ASSUME RegistryInv, HooksRaise, boot'.at = boot.at
  PROVE  RegistryInv'
<1> DEFINE p == op.plugin
<1>1. /\ p \in Plugins /\ life[p] = "made" /\ op.pc = "initialize"
      /\ op \in Op /\ life \in [Plugins -> Lives] /\ registry \in Seq(Plugins)
  BY DEF RegistryInv, RegistryTypeOK, OpInv, HooksRaise
<1>2. p \notin Loaded /\ Unreached(p)
  BY <1>1 DEF RegistryInv, LoadedInv, ReachInv, Loaded, Unreached
<1>3. /\ life' = [life EXCEPT ![p] = "active"] /\ op'.pc = "discard" /\ op'.plugin = p
      /\ op' \in Op
      /\ handlers' = handlers /\ registry' = registry /\ adapters' = adapters
  BY <1>1 DEF HooksRaise, busVars, Op
<1>4. life'[p] = "active" /\ \A q \in Plugins : q # p => life'[q] = life[q]
  BY <1>1, <1>3
<1>5. Loaded' = Loaded /\ Unreached(p)'
  BY <1>2, <1>3 DEF Loaded, Unreached
<1>6. RegistryTypeOK'
  BY <1>1, <1>3 DEF RegistryInv, RegistryTypeOK, Lives
<1>7. OpInv'
  BY <1>1, <1>2, <1>3, <1>4, <1>5 DEF OpInv, Unreached
<1>8. LoadedInv'
  BY <1>1, <1>3, <1>4 DEF RegistryInv, LoadedInv
<1>9. ReachInv'
  <2>1. handlers \in [Events -> SUBSET Plugins]
    BY PluginsAssumption DEF RegistryInv
  <2> QED
    BY <1>3, <1>4, <1>5, <2>1 DEF RegistryInv, ReachInv
<1>10. FreshInv'
  BY <1>1, <1>4 DEF RegistryInv, FreshInv
<1>11. LifeInv'
  BY <1>1, <1>3, <1>4, <1>5 DEF RegistryInv, LifeInv
<1>12. DependenciesFirst'
  BY <1>3 DEF RegistryInv, DependenciesFirst, Before
<1> QED
  BY <1>3, <1>6, <1>7, <1>8, <1>9, <1>10, <1>11, <1>12 DEF RegistryInv

\* The handlers after a subscription are those before it and p's.
LEMMA SubscribedHandlers ==
  ASSUME handlers \in [Events -> SUBSET Handlers], NEW p \in Plugins, NEW E
  PROVE  /\ Subscribed(p, E) \in [Events -> SUBSET Handlers]
         /\ \A e \in Events : Subscribed(p, E)[e] \subseteq handlers[e] \cup {p}
BY PluginsAssumption DEF Subscribed

LEMMA ConnectRaisesInv ==
  ASSUME RegistryInv, ConnectRaises, boot'.at = boot.at
  PROVE  RegistryInv'
<1> DEFINE p == op.plugin
<1>1. /\ p \in Plugins /\ life[p] = "made" /\ Fault[p] = "half hooks"
      /\ life \in [Plugins -> Lives] /\ registry \in Seq(Plugins)
      /\ handlers \in [Events -> SUBSET Handlers]
  BY DEF RegistryInv, RegistryTypeOK, OpInv, ConnectRaises
<1>2. /\ life' = [life EXCEPT ![p] = "active"] /\ op' = Idle
      /\ registry' = registry /\ adapters' = adapters /\ Loaded' = Loaded
  BY DEF ConnectRaises, Loaded
<1>3. /\ handlers' \in [Events -> SUBSET Handlers]
      /\ \A e \in Events : handlers'[e] \subseteq handlers[e] \cup {p}
  <2>1. PICK n \in 0..(Len(Hooks[p]) - 1) :
          handlers' = Subscribed(p, {Hooks[p][i] : i \in 1..n} \cap Events)
    BY DEF ConnectRaises
  <2> DEFINE E == {Hooks[p][i] : i \in 1..n} \cap Events
  <2>2. handlers' = Subscribed(p, E)
    BY <2>1
  <2> HIDE DEF E
  <2>3. /\ Subscribed(p, E) \in [Events -> SUBSET Handlers]
        /\ \A e \in Events : Subscribed(p, E)[e] \subseteq handlers[e] \cup {p}
    BY <1>1, SubscribedHandlers
  <2> QED
    BY <2>2, <2>3
<1>4. life'[p] = "active" /\ \A q \in Plugins : q # p => life'[q] = life[q]
  BY <1>1, <1>2
<1>5. RegistryTypeOK'
  <2>1. Idle \in Op
    BY PluginsAssumption DEF Idle, Op
  <2> QED
    BY <1>1, <1>2, <2>1 DEF RegistryInv, RegistryTypeOK, Lives
<1>6. OpInv'
  BY <1>2 DEF OpInv, Idle
<1>7. LoadedInv'
  <2>1. \A i \in 1..Len(registry) : registry[i] \in Plugins
    BY Entries DEF RegistryInv, RegistryTypeOK
  <2>2. \A i \in 1..Len(registry) : life'[registry[i]] = "active"
    BY <1>4, <2>1 DEF RegistryInv, LoadedInv
  <2> QED
    BY <1>2, <2>2 DEF RegistryInv, LoadedInv
<1>8. ReachInv'
  <2>1. \A e \in Events : \A q \in handlers'[e] : life'[q] = "active"
    BY <1>1, <1>3, <1>4, PluginsAssumption DEF RegistryInv, ReachInv
  <2> QED
    BY <1>2, <2>1 DEF RegistryInv, ReachInv
<1>9. FreshInv'
  BY <1>1, <1>4 DEF RegistryInv, FreshInv
<1>10. LifeInv'
  BY <1>1, <1>2, <1>4 DEF RegistryInv, LifeInv, ConnectRaises
<1>11. DependenciesFirst'
  BY <1>2 DEF RegistryInv, DependenciesFirst, Before
<1> QED
  BY <1>3, <1>5, <1>6, <1>7, <1>8, <1>9, <1>10, <1>11 DEF RegistryInv

\* A load ends with an entry: what the plugin requires is in front of it.
LEMMA EnterInv ==
  ASSUME RegistryInv, Activate \/ RegisterRaises, boot'.at = boot.at
  PROVE  RegistryInv'
<1>0. PICK p \in Plugins : p = op.plugin
  BY DEF RegistryInv, OpInv, Activate, RegisterRaises
<1>1. /\ life[p] = "made" /\ op.pc = "initialize" /\ Missing(p) = {}
      /\ life \in [Plugins -> Lives] /\ registry \in Seq(Plugins) /\ op \in Op
      /\ handlers \in [Events -> SUBSET Handlers] /\ adapters \subseteq Plugins
  BY <1>0 DEF RegistryInv, RegistryTypeOK, OpInv, Activate, RegisterRaises
<1>2. /\ life' = [life EXCEPT ![p] = "active"]
      /\ registry' = Append(registry, p)
      /\ adapters' \in {adapters, {q \in adapters : AgentName[q] # AgentName[p]} \cup {p}}
      /\ op' \in {Idle, [op EXCEPT !.pc = "loaded"]}
      /\ handlers' = Subscribed(p, HookedEvents(p))
  BY <1>0 DEF Activate, RegisterRaises, Enter, Register
<1>3. /\ handlers' \in [Events -> SUBSET Handlers]
      /\ \A e \in Events : handlers'[e] \subseteq handlers[e] \cup {p}
  BY <1>1, <1>2, SubscribedHandlers
<1>4. life'[p] = "active" /\ \A q \in Plugins : q # p => life'[q] = life[q]
  BY <1>1, <1>2
<1>5. /\ registry' \in Seq(Plugins) /\ Len(registry) \in Nat
      /\ Len(registry') = Len(registry) + 1 /\ registry'[Len(registry) + 1] = p
      /\ \A i \in 1..Len(registry) : registry'[i] = registry[i] /\ registry[i] \in Plugins
  BY <1>1, <1>2, Entries
<1>6. Loaded' = Loaded \cup {p}
  BY <1>5 DEF Loaded
<1>7. p \notin Loaded
  BY <1>1 DEF RegistryInv, LoadedInv, Loaded
<1>8. /\ op' \in Op /\ op'.pc \in {"idle", "loaded"}
      /\ op'.pc = "idle" => op' = Idle
      /\ op'.pc = "loaded" => op'.plugin = p
  <2>1. Idle \in Op
    BY PluginsAssumption DEF Idle, Op
  <2> QED
    BY <1>0, <1>1, <1>2, <2>1 DEF Op, Idle
<1>9. RegistryTypeOK'
  <2>1. life' \in [Plugins -> Lives] /\ adapters' \subseteq Plugins
    BY <1>1, <1>2 DEF Lives
  <2> QED
    BY <1>5, <1>8, <2>1 DEF RegistryTypeOK
<1>10. OpInv'
  BY <1>8 DEF OpInv, Idle
<1>11. LoadedInv'
  <2>1. \A i \in 1..Len(registry) : life[registry[i]] = "active" /\ registry[i] # p
    BY <1>7 DEF RegistryInv, LoadedInv, Loaded
  <2>2. \A i \in 1..Len(registry') : life'[registry'[i]] = "active"
    BY <1>4, <1>5, <2>1
  <2>3. \A i, j \in 1..Len(registry) : registry[i] = registry[j] => i = j
    BY DEF RegistryInv, LoadedInv
  <2>4. \A i, j \in 1..Len(registry') : registry'[i] = registry'[j] => i = j
    BY <1>5, <2>1, <2>3
  <2> QED
    BY <2>2, <2>4 DEF LoadedInv
<1>12. ReachInv'
  <2>1. \A e \in Events : \A q \in handlers'[e] : life'[q] = "active"
    BY <1>1, <1>3, <1>4, PluginsAssumption DEF RegistryInv, ReachInv
  <2>2. \A q \in adapters' : AgentName[q] = Name[q] => q \in Loaded'
    BY <1>2, <1>6 DEF RegistryInv, ReachInv
  <2> QED
    BY <2>1, <2>2 DEF ReachInv
<1>13. FreshInv'
  BY <1>1, <1>4 DEF RegistryInv, FreshInv
<1>14. LifeInv'
  <2>1. \A q \in Plugins : q # p =>
          /\ life[q] # "made"
          /\ life[q] = "active" => q \in Loaded \/ Fault[q] = "half hooks"
    BY <1>0, <1>1 DEF RegistryInv, LifeInv
  <2> QED
    BY <1>4, <1>6, <2>1 DEF LifeInv
<1>15. DependenciesFirst'
  <2> SUFFICES ASSUME NEW i \in 1..Len(registry'), NEW n \in Requires[registry'[i]] \ Packages
               PROVE  \E j \in 1..(i - 1) : Name[registry'[j]] = n
    BY DEF DependenciesFirst, Before
  <2>1. CASE i \in 1..Len(registry)
    <3>1. \E j \in 1..(i - 1) : Name[registry[j]] = n
      BY <1>5, <2>1 DEF RegistryInv, DependenciesFirst, Before
    <3> QED
      BY <1>5, <2>1, <3>1
  <2>2. CASE i = Len(registry) + 1
    <3>1. n \in Requires[p] /\ n \notin Packages
      BY <1>5, <2>2
    <3>2. \E q \in Loaded : Name[q] = n
      BY <1>1, <3>1 DEF Missing
    <3>3. \E j \in 1..Len(registry) : Name[registry[j]] = n
      BY <3>2 DEF Loaded
    <3> QED
      BY <1>5, <2>2, <3>3
  <2> QED
    BY <1>5, <2>1, <2>2
<1> QED
  BY <1>3, <1>9, <1>10, <1>11, <1>12, <1>13, <1>14, <1>15 DEF RegistryInv

\* The last plugin begins to be unloaded: nothing leads to it any more.
LEMMA StartUnloadInv ==
  ASSUME RegistryInv, registry # <<>>, StartUnload(registry[Len(registry)]), boot'.at = boot.at
  PROVE  RegistryInv'
<1>0. /\ registry \in Seq(Plugins) /\ Len(registry) \in Nat /\ Len(registry) > 0
      /\ handlers \in [Events -> SUBSET Handlers] /\ adapters \subseteq Plugins
      /\ op = Idle
  BY Entries DEF RegistryInv, RegistryTypeOK, StartUnload
<1>1. PICK p \in Plugins : p = registry[Len(registry)]
  BY <1>0, Entries
<1>2. /\ handlers' = Unsubscribed(p) /\ op' = [pc |-> "shutdown", plugin |-> p]
      /\ adapters' = {q \in adapters : AgentName[q] # Name[p]}
      /\ registry' = registry /\ life' = life /\ Loaded' = Loaded
  BY <1>1 DEF StartUnload, Unregister, Loaded
<1>3. /\ handlers' \in [Events -> SUBSET Handlers]
      /\ \A e \in Events : handlers'[e] = handlers[e] \ {p}
  BY <1>0, <1>2 DEF Unsubscribed
<1>4. RegistryTypeOK'
  <2>1. p \in 0..NumPlugins
    BY PluginsAssumption DEF Plugins
  <2>2. op' \in Op
    BY <1>2, <2>1 DEF Op
  <2> QED
    BY <1>0, <1>2, <2>2 DEF RegistryInv, RegistryTypeOK
<1>5. OpInv'
  <2>1. Unreached(p)'
    BY <1>2, <1>3 DEF Unreached
  <2> QED
    BY <1>0, <1>1, <1>2, <2>1 DEF OpInv, Unreached
<1>6. LoadedInv' /\ FreshInv'
  BY <1>2 DEF RegistryInv, LoadedInv, FreshInv
<1>7. ReachInv'
  BY <1>0, <1>2, <1>3 DEF RegistryInv, ReachInv
<1>8. LifeInv'
  BY <1>0, <1>2 DEF RegistryInv, LifeInv, Idle
<1>9. DependenciesFirst'
  BY <1>2 DEF RegistryInv, DependenciesFirst, Before
<1> QED
  BY <1>3, <1>4, <1>5, <1>6, <1>7, <1>8, <1>9 DEF RegistryInv

\* The registry loses its last entry.
LEMMA UnloadedLast ==
  ASSUME registry \in Seq(Plugins), NEW i \in 1..Len(registry), i = Len(registry),
         registry' = Without(i)
  PROVE  /\ registry' \in Seq(Plugins) /\ Len(registry') = Len(registry) - 1
         /\ \A k \in 1..Len(registry') : registry'[k] = registry[k]
<1> DEFINE f == SubSeq(registry, 1, i - 1)
           g == SubSeq(registry, i + 1, Len(registry))
<1>1. Len(registry) \in Nat /\ i \in Nat /\ i >= 1
  OBVIOUS
<1>2. f \in Seq(Plugins) /\ Len(f) = i - 1 /\ \A k \in 1..(i - 1) : f[k] = registry[k]
  BY <1>1
<1>3. g \in Seq(Plugins) /\ Len(g) = 0
  BY <1>1
<1>4. registry' = f \o g
  BY DEF Without
<1> HIDE DEF f, g
<1>5. /\ f \o g \in Seq(Plugins) /\ Len(f \o g) = i - 1
      /\ \A k \in 1..(i - 1) : (f \o g)[k] = f[k]
  BY <1>1, <1>2, <1>3
<1> QED
  BY <1>1, <1>2, <1>4, <1>5

LEMMA UnloadInv ==
  ASSUME RegistryInv, Unload, boot'.at = boot.at
  PROVE  RegistryInv'
<1>0. PICK p \in Plugins : p = op.plugin
  BY DEF RegistryInv, OpInv, Unload
<1>1. /\ life \in [Plugins -> Lives] /\ registry \in Seq(Plugins) /\ op \in Op
      /\ Len(registry) \in Nat /\ Len(registry) > 0 /\ p = registry[Len(registry)]
      /\ Unreached(p) /\ op.pc = "shutdown"
  BY <1>0, Entries DEF RegistryInv, RegistryTypeOK, OpInv, Unload
<1>2. /\ life' = [life EXCEPT ![p] = "shut"] /\ op' = [op EXCEPT !.pc = "unloaded"]
      /\ handlers' = handlers /\ adapters' = adapters
  BY <1>0 DEF Unload
<1>3. \A i, j \in 1..Len(registry) : registry[i] = registry[j] => i = j
  BY DEF RegistryInv, LoadedInv
<1>4. PICK i \in 1..Len(registry) : registry[i] = p /\ registry' = Without(i)
  BY <1>0 DEF Unload
<1>5. i = Len(registry)
  BY <1>1, <1>3, <1>4
<1>6. /\ registry' \in Seq(Plugins) /\ Len(registry') = Len(registry) - 1
      /\ \A k \in 1..Len(registry') : registry'[k] = registry[k]
  BY <1>1, <1>4, <1>5, UnloadedLast
<1>7. \A k \in 1..Len(registry') : k \in 1..Len(registry) /\ registry[k] # p /\ registry[k] \in Plugins
  BY <1>1, <1>3, <1>6, Entries
<1>8. life'[p] = "shut" /\ \A q \in Plugins : q # p => life'[q] = life[q]
  BY <1>1, <1>2
<1>9. Loaded' = Loaded \ {p}
  <2>1. Loaded' \subseteq Loaded \ {p}
    BY <1>6, <1>7 DEF Loaded
  <2>2. ASSUME NEW q \in Loaded, q # p
        PROVE  q \in Loaded'
    <3>1. PICK k \in 1..Len(registry) : registry[k] = q
      BY DEF Loaded
    <3>2. k \in 1..Len(registry')
      BY <1>1, <1>6, <2>2, <3>1
    <3> QED
      BY <1>6, <3>1, <3>2 DEF Loaded
  <2> QED
    BY <2>1, <2>2
<1>10. op' \in Op /\ op'.pc = "unloaded" /\ op'.plugin = p
  BY <1>0, <1>1, <1>2 DEF Op
<1>11. RegistryTypeOK'
  <2>1. life' \in [Plugins -> Lives] /\ adapters' \subseteq Plugins
    BY <1>1, <1>2 DEF RegistryInv, RegistryTypeOK, Lives
  <2> QED
    BY <1>6, <1>10, <2>1 DEF RegistryTypeOK
<1>12. OpInv'
  BY <1>10 DEF OpInv
<1>13. LoadedInv'
  <2>1. \A k \in 1..Len(registry') : life'[registry'[k]] = "active"
    BY <1>6, <1>7, <1>8 DEF RegistryInv, LoadedInv
  <2> QED
    BY <1>3, <1>6, <1>7, <2>1 DEF LoadedInv
<1>14. ReachInv'
  <2>1. handlers \in [Events -> SUBSET Plugins] /\ adapters \subseteq Plugins
    BY PluginsAssumption DEF RegistryInv, RegistryTypeOK
  <2>2. \A e \in Events : \A q \in handlers[e] : q # p
    BY <1>1 DEF Unreached
  <2>3. \A q \in adapters : AgentName[q] = Name[q] => q # p
    BY <1>1 DEF Unreached
  <2> QED
    BY <1>2, <1>8, <1>9, <2>1, <2>2, <2>3 DEF RegistryInv, ReachInv
<1>15. FreshInv'
  <2>1. life[p] = "active"
    BY <1>1 DEF RegistryInv, LoadedInv
  <2> QED
    BY <1>8, <2>1 DEF RegistryInv, FreshInv
<1>16. LifeInv'
  BY <1>1, <1>8, <1>9 DEF RegistryInv, LifeInv
<1>17. DependenciesFirst'
  <2> SUFFICES ASSUME NEW k \in 1..Len(registry'), NEW n \in Requires[registry'[k]] \ Packages
               PROVE  \E j \in 1..(k - 1) : Name[registry'[j]] = n
    BY DEF DependenciesFirst, Before
  <2>1. PICK j \in 1..(k - 1) : Name[registry[j]] = n
    BY <1>6, <1>7 DEF RegistryInv, DependenciesFirst, Before
  <2> QED
    BY <1>1, <1>6, <2>1
<1> QED
  BY <1>2, <1>11, <1>12, <1>13, <1>14, <1>15, <1>16, <1>17 DEF RegistryInv

LEMMA AnnouncedInv ==
  ASSUME RegistryInv, Announced, boot'.at = boot.at
  PROVE  RegistryInv'
<1>1. /\ op.pc \notin {"initialize", "discard", "shutdown"} /\ op' = Idle
      /\ UNCHANGED <<handlers, registry, adapters, life>> /\ Loaded' = Loaded
  BY DEF Announced, busVars, Loaded
<1>2. RegistryTypeOK'
  <2>1. Idle \in Op
    BY PluginsAssumption DEF Idle, Op
  <2> QED
    BY <1>1, <2>1 DEF RegistryInv, RegistryTypeOK
<1>3. OpInv'
  BY <1>1 DEF OpInv, Idle
<1>4. LoadedInv' /\ ReachInv' /\ FreshInv'
  BY <1>1 DEF RegistryInv, LoadedInv, ReachInv, FreshInv
<1>5. LifeInv'
  BY <1>1 DEF RegistryInv, LifeInv
<1>6. DependenciesFirst'
  BY <1>1 DEF RegistryInv, DependenciesFirst, Before
<1> QED
  BY <1>1, <1>2, <1>3, <1>4, <1>5, <1>6 DEF RegistryInv

LEMMA RegistrySteps ==
  ASSUME RegistryInv, RegistryStep, boot'.at = boot.at
  PROVE  RegistryInv'
<1>1. CASE InitializeFails
  <2>1. /\ op.pc \in {"initialize", "discard"} /\ op' = Idle
        /\ life' = [life EXCEPT ![op.plugin] = "dropped"]
        /\ UNCHANGED <<handlers, registry, adapters>>
    BY <1>1 DEF InitializeFails, busVars
  <2> QED
    BY <2>1, GivenUp
<1>2. CASE Discarded
  <2>1. /\ op.pc \in {"initialize", "discard"} /\ op' = Idle
        /\ life' = [life EXCEPT ![op.plugin] = "discarded"]
        /\ UNCHANGED <<handlers, registry, adapters>>
    BY <1>2 DEF Discarded, busVars
  <2> QED
    BY <2>1, GivenUp
<1> QED
  BY <1>1, <1>2, EnterInv, HooksRaiseInv, ConnectRaisesInv, UnloadInv, AnnouncedInv
     DEF RegistryStep

----------------------------------------------------------------------------
(* The bus. *)

LEMMA PublishingType ==
  ASSUME delivering \in [Publishers -> SUBSET (Events \X Handlers)],
         NEW t \in Publishers, NEW e \in Events, NEW H \in [Events -> SUBSET Handlers],
         Publishing(t, e, H)
  PROVE  delivering' \in [Publishers -> SUBSET (Events \X Handlers)]
<1>1. {e} \X H[e] \in SUBSET (Events \X Handlers)
  OBVIOUS
<1> QED
  BY <1>1 DEF Publishing

LEMMA BusSteps ==
  ASSUME BusTypeOK, handlers' \in [Events -> SUBSET Handlers], [Next]_vars
  PROVE  BusTypeOK'
<1>1. /\ handlers \in [Events -> SUBSET Handlers]
      /\ delivering \in [Publishers -> SUBSET (Events \X Handlers)]
      /\ heard \in [Events -> SUBSET Handlers]
  BY DEF BusTypeOK
<1>2. ASSUME UNCHANGED <<delivering, heard>> PROVE BusTypeOK'
  BY <1>1, <1>2 DEF BusTypeOK
<1>3. /\ {"main", "run"} \subseteq Publishers
      /\ {"KERNEL_READY", "KERNEL_STARTING", "KERNEL_SHUTDOWN", "PLUGIN_LOADED",
          "PLUGIN_UNLOADED"} \subseteq Events
  BY PluginsAssumption, KernelAssumption
<1>4. CASE Ready \/ RunStarts \/ Farewell
  <2>1. /\ heard' = heard
        /\ \E t \in Publishers, e \in Events : Publishing(t, e, handlers)
    BY <1>3, <1>4 DEF Ready, RunStarts, Farewell
  <2> QED
    BY <1>1, <2>1, PublishingType DEF BusTypeOK
<1>5. CASE Activate
  <2>1. heard' = heard /\ Publishing("main", "PLUGIN_LOADED", handlers')
    BY <1>5 DEF Activate
  <2>2. delivering' = [delivering EXCEPT !["main"] = {"PLUGIN_LOADED"} \X handlers'["PLUGIN_LOADED"]]
    BY <2>1 DEF Publishing
  <2>3. {"PLUGIN_LOADED"} \X handlers'["PLUGIN_LOADED"] \in SUBSET (Events \X Handlers)
    BY <1>3
  <2> QED
    BY <1>1, <2>1, <2>2, <2>3 DEF BusTypeOK
<1>6. CASE Unload
  <2>1. heard' = heard /\ Publishing("main", "PLUGIN_UNLOADED", handlers)
    BY <1>6 DEF Unload
  <2> QED
    BY <1>1, <1>3, <2>1, PublishingType DEF BusTypeOK
<1>7. CASE Deliver
  <2>1. PICK t \in Publishers, e \in Events, h \in Handlers : RunHandler(t, e, h)
    BY <1>7 DEF Deliver
  <2>2. /\ delivering' = [delivering EXCEPT ![t] = @ \ {<<e, h>>}]
        /\ heard' = [heard EXCEPT ![e] = @ \cup {h}]
    BY <2>1 DEF RunHandler
  <2> QED
    BY <1>1, <2>2 DEF BusTypeOK
<1>8. CASE StartUp \/ ReadyPublished \/ Remembered \/ CreateRun \/ InitializeRaises
           \/ ShutDown \/ Join \/ CloseClients
  BY <1>2, <1>8 DEF StartUp, ReadyPublished, Remembered, CreateRun, InitializeRaises, ShutDown,
                    Join, CloseClients, busVars
<1>9. CASE LoadNext \/ UnloadNext
  BY <1>2, <1>9 DEF LoadNext, UnloadNext, StartLoad, StartUnload, busVars
<1>10. CASE StartingPublished \/ RunHead \/ Housekept \/ HousekeepingRaises \/ Checked
            \/ DispatchRoutine \/ Waited
  BY <1>2, <1>10 DEF StartingPublished, RunHead, Housekept, HousekeepingRaises, Checked,
                     DispatchRoutine, Waited, busVars
<1>11. CASE InitializeFails \/ RegisterRaises \/ HooksRaise \/ Discarded \/ ConnectRaises
            \/ Announced
  BY <1>2, <1>11 DEF InitializeFails, RegisterRaises, HooksRaise, Discarded, ConnectRaises, Announced, busVars
<1>12. CASE AskHealth \/ (\E c \in Checks : Probed(c)) \/ AnswerHealth \/ BeginShutdown
            \/ Over \/ UNCHANGED vars
  BY <1>2, <1>12 DEF AskHealth, Probed, AnswerHealth, BeginShutdown, Over, vars, busVars
<1> QED
  BY <1>4, <1>5, <1>6, <1>7, <1>8, <1>9, <1>10, <1>11, <1>12
     DEF Next, Main, Loop, Registry, RegistryStep

----------------------------------------------------------------------------
(* The Kernel. *)

\* The calls of the registry, as far as the Kernel sees them.
LEMMA KernelRegistry ==
  ASSUME KernelInv, RegistryStep, UNCHANGED kernelVars
  PROVE  KernelInv'
<1>1. UNCHANGED <<kernel, boot, run, health>>
  BY DEF kernelVars
<1>2. /\ op'.pc \in {"initialize", "discard", "loaded"}
           => op.pc \in {"initialize", "discard", "loaded"}
      /\ op'.pc \in {"shutdown", "unloaded"} => op.pc \in {"shutdown", "unloaded"}
      /\ registry' # registry => op.pc \in {"initialize", "shutdown"}
  <2>1. CASE InitializeFails \/ RegisterRaises
    BY <2>1 DEF InitializeFails, RegisterRaises, Idle
  <2>2. CASE Activate
    <3>1. op.pc = "initialize" /\ op' = [op EXCEPT !.pc = "loaded"]
      BY <2>2 DEF Activate
    <3> QED
      BY <3>1
  <2>3. CASE HooksRaise
    <3>1. op.pc = "initialize" /\ op' = [op EXCEPT !.pc = "discard"] /\ registry' = registry
      BY <2>3 DEF HooksRaise
    <3> QED
      BY <3>1
  <2>4. CASE Discarded
    BY <2>4 DEF Discarded, Idle
  <2>5. CASE ConnectRaises
    BY <2>5 DEF ConnectRaises, Idle
  <2>6. CASE Unload
    <3>1. op.pc = "shutdown" /\ op' = [op EXCEPT !.pc = "unloaded"]
      BY <2>6 DEF Unload
    <3> QED
      BY <3>1
  <2>7. CASE Announced
    BY <2>7 DEF Announced, Idle
  <2> QED
    BY <2>1, <2>2, <2>3, <2>4, <2>5, <2>6, <2>7 DEF RegistryStep
<1>3. StageInv'
  BY <1>1, <1>2 DEF KernelInv, StageInv
<1> QED
  BY <1>1, <1>3 DEF KernelInv, RunInv, HealthInv

\* lifespan.
LEMMA KernelMain ==
  ASSUME KernelInv, op \in Op, Main \/ BeginShutdown
  PROVE  KernelInv' /\ boot'.at \in {boot.at, boot.at + 1}
<1> USE DEF KernelInv, StageInv, RunInv, HealthInv, BootTo
<1> USE DEF Boot, KernelState, Run
<1>1. CASE StartUp \/ ReadyPublished \/ Remembered \/ InitializeRaises \/ CloseClients
  <2>1. CASE StartUp
    BY <2>1 DEF StartUp, registryVars
  <2>2. CASE ReadyPublished
    BY <2>2 DEF ReadyPublished, registryVars
  <2>3. CASE Remembered
    BY <2>3 DEF Remembered, registryVars
  <2>4. CASE InitializeRaises
    BY <2>4 DEF InitializeRaises, registryVars, Idle
  <2>5. CASE CloseClients
    BY <2>5 DEF CloseClients, registryVars
  <2> QED
    BY <1>1, <2>1, <2>2, <2>3, <2>4, <2>5
<1>2. CASE Ready
  BY <1>2 DEF Ready, registryVars
<1>3. CASE LoadNext
  <2>1. /\ boot.pc = "plugins" /\ boot' = [boot EXCEPT !.at = @ + 1]
        /\ boot.at <= NumPlugins /\ UNCHANGED <<kernel, run, health>>
        /\ op'.pc = "initialize" \/ op' = op
    BY <1>3 DEF LoadNext, StartLoad, registryVars
  <2>2. boot' \in Boot
    BY <2>1, PluginsAssumption
  <2> QED
    BY <2>1, <2>2
<1>4. CASE CreateRun
  BY <1>4 DEF CreateRun, registryVars, Idle
<1>5. CASE UnloadNext
  BY <1>5 DEF UnloadNext, StartUnload, kernelVars
<1>6. CASE Farewell
  BY <1>6 DEF Farewell, registryVars, Idle
<1>7. CASE ShutDown
  BY <1>7 DEF ShutDown, registryVars
<1>8. CASE Join
  BY <1>8 DEF Join, registryVars
<1>9. CASE BeginShutdown
  BY <1>9 DEF BeginShutdown, Serving, registryVars
<1> QED
  BY <1>1, <1>2, <1>3, <1>4, <1>5, <1>6, <1>7, <1>8, <1>9 DEF Main

\* Kernel.run.
LEMMA KernelLoop ==
  ASSUME KernelInv, Loop
  PROVE  KernelInv' /\ UNCHANGED <<boot, registryVars, handlers>>
<1>0. /\ HousekeepingTicks \in Nat /\ HousekeepingTicks > 0
      /\ RoutinesTicks \in Nat /\ RoutinesTicks > 0
      /\ run.sinceHousekeeping \in 0..HousekeepingTicks /\ run.sinceRoutines \in 0..RoutinesTicks
      /\ 0 \in 0..HousekeepingTicks /\ 0 \in 0..RoutinesTicks
      /\ run \in Run /\ kernel \in KernelState
  BY KernelAssumption DEF KernelInv, Run
<1>1. UNCHANGED <<boot, registryVars, handlers, health>>
  BY DEF Loop, RunStarts, StartingPublished, RunHead, Housekept, HousekeepingRaises, Checked,
         DispatchRoutine, Waited, busVars
<1>2. run.pc \notin {"none", "done", "raised"}
  BY DEF Loop, RunStarts, StartingPublished, RunHead, Housekept, HousekeepingRaises, Checked,
         DispatchRoutine, Waited
<1>3. ASSUME run' \in Run, kernel' \in KernelState, kernel'.initialized = kernel.initialized,
             run'.pc \notin {"none", "created"}, RunInv'
      PROVE  KernelInv'
  <2>1. StageInv'
    BY <1>1, <1>2, <1>3 DEF KernelInv, StageInv, registryVars
  <2>2. HealthInv'
    BY <1>1, <1>3 DEF KernelInv, HealthInv
  <2> QED
    BY <1>1, <1>3, <2>1, <2>2 DEF KernelInv
<1> USE DEF RunTo
<1>4. CASE RunStarts
  <2>1. /\ run' = [run EXCEPT !.pc = "starting"]
        /\ kernel' = [kernel EXCEPT !.running = TRUE, !.stop = "clear"]
    BY <1>4 DEF RunStarts
  <2>7. run' \in Run /\ run'.pc \notin {"none", "created"}
    BY <1>0, <2>1 DEF Run
  <2>8. kernel' \in KernelState /\ kernel'.initialized = kernel.initialized
    BY <1>0, <2>1 DEF KernelState
  <2>9. RunInv'
    BY <1>0, <2>1 DEF Run, RunInv, KernelState
  <2> QED
    BY <1>1, <1>3, <2>7, <2>8, <2>9
<1>5. CASE StartingPublished \/ DispatchRoutine
  <2>1. /\ kernel' = kernel
        /\ \/ run.pc = "starting" /\ run' = [run EXCEPT !.pc = "head"]
           \/ run.pc = "routines" /\ run' = [run EXCEPT !.pc = "executing"]
    BY <1>5 DEF StartingPublished, DispatchRoutine
  <2>7. run' \in Run /\ run'.pc \notin {"none", "created"}
    BY <1>0, <2>1 DEF Run
  <2>8. kernel' \in KernelState /\ kernel'.initialized = kernel.initialized
    BY <1>0, <2>1 DEF KernelState
  <2>9. RunInv'
    BY <1>0, <2>1 DEF Run, RunInv, KernelInv
  <2> QED
    BY <1>1, <1>3, <2>7, <2>8, <2>9
<1>6. CASE RunHead
  <2>1. CASE Stopping
    <3>1. run' = [run EXCEPT !.pc = "done"] /\ kernel' = [kernel EXCEPT !.running = FALSE]
      BY <1>6, <2>1 DEF RunHead
    <3>7. run' \in Run /\ run'.pc \notin {"none", "created"}
      BY <1>0, <3>1 DEF Run
    <3>8. kernel' \in KernelState /\ kernel'.initialized = kernel.initialized
      BY <1>0, <3>1 DEF KernelState
    <3>9. RunInv'
      BY <1>0, <3>1 DEF Run, RunInv, KernelState
    <3> QED
      BY <1>1, <1>3, <3>7, <3>8, <3>9
  <2>2. CASE ~Stopping
    <3>1. /\ run.pc = "head" /\ kernel' = kernel
          /\ \/ run' = [run EXCEPT !.pc = "housekeeping"]
             \/ /\ run' = [run EXCEPT !.pc = "routines"]
                /\ ~(run.sinceHousekeeping >= HousekeepingTicks)
             \/ /\ run' = [run EXCEPT !.pc = "waiting"]
                /\ ~(run.sinceHousekeeping >= HousekeepingTicks)
                /\ ~(run.sinceRoutines >= RoutinesTicks)
      BY <1>6, <2>2 DEF RunHead
    <3>7. run' \in Run /\ run'.pc \notin {"none", "created"}
      BY <1>0, <3>1 DEF Run
    <3>8. kernel' \in KernelState /\ kernel'.initialized = kernel.initialized
      BY <1>0, <3>1 DEF KernelState
    <3>9. RunInv'
      BY <1>0, <3>1 DEF Run, RunInv, KernelInv
    <3> QED
      BY <1>1, <1>3, <3>7, <3>8, <3>9
  <2> QED
    BY <2>1, <2>2
<1>7. CASE Housekept
  <2>1. /\ run.pc = "housekeeping" /\ kernel' = kernel
        /\ \/ run' = [run EXCEPT !.sinceHousekeeping = 0, !.pc = "routines"]
           \/ /\ run' = [run EXCEPT !.sinceHousekeeping = 0, !.pc = "waiting"]
              /\ ~(run.sinceRoutines >= RoutinesTicks)
    BY <1>7 DEF Housekept
  <2>7. run' \in Run /\ run'.pc \notin {"none", "created"}
    BY <1>0, <2>1 DEF Run
  <2>8. kernel' \in KernelState /\ kernel'.initialized = kernel.initialized
    BY <1>0, <2>1 DEF KernelState
  <2>9. RunInv'
    <3>1. run'.pc \in {"routines", "waiting"} /\ run'.sinceHousekeeping = 0
      BY <1>0, <2>1 DEF Run
    <3>2. run'.pc = "waiting" => run'.sinceRoutines < RoutinesTicks
      <4>1. CASE run' = [run EXCEPT !.sinceHousekeeping = 0, !.pc = "routines"]
        BY <1>0, <4>1 DEF Run
      <4>2. CASE /\ run' = [run EXCEPT !.sinceHousekeeping = 0, !.pc = "waiting"]
                 /\ ~(run.sinceRoutines >= RoutinesTicks)
        <5>1. run'.sinceRoutines = run.sinceRoutines /\ run.sinceRoutines \in Nat
          BY <1>0, <4>2 DEF Run
        <5> QED
          BY <4>2, <5>1, KernelAssumption
      <4> QED
        BY <2>1, <4>1, <4>2
    <3>3. kernel'.running
      BY <2>1 DEF KernelInv, RunInv
    <3> QED
      BY <1>0, <3>1, <3>2, <3>3 DEF RunInv
  <2> QED
    BY <1>1, <1>3, <2>7, <2>8, <2>9
<1>8. CASE HousekeepingRaises
  <2>1. run' = [run EXCEPT !.pc = "raised"] /\ kernel' = [kernel EXCEPT !.running = FALSE]
    BY <1>8 DEF HousekeepingRaises
  <2>7. run' \in Run /\ run'.pc \notin {"none", "created"}
    BY <1>0, <2>1 DEF Run
  <2>8. kernel' \in KernelState /\ kernel'.initialized = kernel.initialized
    BY <1>0, <2>1 DEF KernelState
  <2>9. RunInv'
    BY <1>0, <2>1 DEF Run, RunInv, KernelState
  <2> QED
    BY <1>1, <1>3, <2>7, <2>8, <2>9
<1>9. CASE Checked
  <2>1. /\ run.pc \in {"routines", "executing"} /\ kernel' = kernel
        /\ run' = [run EXCEPT !.pc = "waiting", !.sinceRoutines = 0]
    BY <1>9 DEF Checked
  <2>7. run' \in Run /\ run'.pc \notin {"none", "created"}
    BY <1>0, <2>1 DEF Run
  <2>8. kernel' \in KernelState /\ kernel'.initialized = kernel.initialized
    BY <1>0, <2>1 DEF KernelState
  <2>9. RunInv'
    BY <1>0, <2>1 DEF Run, RunInv, KernelInv
  <2> QED
    BY <1>1, <1>3, <2>7, <2>8, <2>9
<1>10. CASE Waited
  <2>1. /\ run.pc = "waiting" /\ kernel' = kernel
        /\ run' = [run EXCEPT !.pc = "head",
                     !.sinceHousekeeping = run.sinceHousekeeping + 1,
                     !.sinceRoutines = run.sinceRoutines + 1]
    BY <1>10 DEF Waited
  <2>2. run.sinceHousekeeping < HousekeepingTicks /\ run.sinceRoutines < RoutinesTicks
    BY <2>1 DEF KernelInv, RunInv
  <2>3. /\ run.sinceHousekeeping + 1 \in 0..HousekeepingTicks
        /\ run.sinceRoutines + 1 \in 0..RoutinesTicks
    BY <1>0, <2>2
  <2>7. run' \in Run /\ run'.pc \notin {"none", "created"}
    BY <1>0, <2>1, <2>3 DEF Run
  <2>8. kernel' \in KernelState /\ kernel'.initialized = kernel.initialized
    BY <1>0, <2>1, <2>2 DEF KernelState
  <2>9. RunInv'
    BY <1>0, <2>1, <2>2 DEF Run, RunInv, KernelInv
  <2> QED
    BY <1>1, <1>3, <2>7, <2>8, <2>9
<1> QED
  BY <1>1, <1>4, <1>5, <1>6, <1>7, <1>8, <1>9, <1>10 DEF Loop

\* GET /health.
LEMMA KernelHealth ==
  ASSUME KernelInv, AskHealth \/ (\E c \in Checks : Probed(c)) \/ AnswerHealth
  PROVE  KernelInv' /\ UNCHANGED <<boot, registryVars, handlers>>
<1>1. /\ UNCHANGED <<kernel, boot, run, op, registry>> /\ UNCHANGED <<registryVars, handlers>>
  BY DEF AskHealth, Probed, AnswerHealth, busVars, registryVars
<1>2. StageInv' /\ RunInv'
  BY <1>1 DEF KernelInv, StageInv, RunInv
<1>3. health' \in Health
  <2>1. health \in Health
    BY DEF KernelInv
  <2>2. CASE AskHealth
    BY <2>2 DEF AskHealth, Health
  <2>3. CASE \E c \in Checks : Probed(c)
    <3>1. PICK c \in Checks : \E bad \in SUBSET {c} :
            health' = [health EXCEPT !.pending = @ \ {c}, !.failed = @ \cup bad]
      BY <2>3 DEF Probed
    <3> QED
      BY <2>1, <3>1 DEF Health
  <2>4. CASE AnswerHealth
    <3>1. PICK st \in {"ok", "degraded", "critical"} :
            health' = [pc |-> "answered", pending |-> {},
                       failed |-> health.failed \cup health.pending, status |-> st]
      BY <2>4 DEF AnswerHealth, DeriveStatus
    <3> QED
      BY <2>1, <3>1 DEF Health
  <2> QED
    BY <2>2, <2>3, <2>4
<1>4. HealthInv'
  BY <1>1 DEF KernelInv, StageInv, HealthInv, AskHealth, Probed, AnswerHealth, Serving
<1> QED
  BY <1>1, <1>2, <1>3, <1>4 DEF KernelInv

----------------------------------------------------------------------------
(* The invariant is inductive. *)

LEMMA InitInv == Init => IInv
<1> SUFFICES ASSUME Init PROVE IInv
  OBVIOUS
<1>1. BusTypeOK
  BY DEF Init, BusInit, BusTypeOK
<1>2. Len(registry) = 0 /\ registry \in Seq(Plugins) /\ Loaded = {}
  BY DEF Init, RegistryInit, Loaded
<1>3. RegistryTypeOK
  BY <1>2, PluginsAssumption DEF Init, RegistryInit, RegistryTypeOK, Lives, Op, Idle
<1>4. OpInv /\ LoadedInv /\ DependenciesFirst
  BY <1>2 DEF Init, RegistryInit, OpInv, Idle, LoadedInv, DependenciesFirst
<1>5. ReachInv
  BY DEF Init, BusInit, RegistryInit, ReachInv
<1>6. FreshInv /\ LifeInv
  BY DEF Init, RegistryInit, FreshInv, LifeInv
<1>7. boot.at \in 1..(NumPlugins + 1)
  BY PluginsAssumption DEF Init
<1>8. KernelInv
  BY PluginsAssumption, KernelAssumption
     DEF Init, RegistryInit, Idle, KernelInv, KernelState, Boot, Run, Health, StageInv, RunInv, HealthInv
<1> QED
  BY <1>1, <1>3, <1>4, <1>5, <1>6, <1>7, <1>8 DEF IInv, BusTypeOK, RegistryInv

\* The steps that leave the registry to itself.
LEMMA RegistryOnMain ==
  ASSUME RegistryInv, KernelInv, Main \/ BeginShutdown
  PROVE  RegistryInv'
<1>1. CASE LoadNext
  <2>1. boot.at <= NumPlugins /\ boot'.at = boot.at + 1
    BY <1>1 DEF LoadNext, KernelInv, Boot
  <2>2. CASE Loadable(boot.at)
    BY <1>1, <2>1, <2>2, StartLoadInv DEF LoadNext
  <2>3. CASE ~Loadable(boot.at)
    <3>1. UNCHANGED <<handlers, registryVars>>
      BY <1>1, <2>3 DEF LoadNext, busVars
    <3> QED
      BY <2>1, <3>1, SkippedInv
  <2> QED
    BY <2>2, <2>3
<1>2. CASE UnloadNext
  BY <1>2, StartUnloadInv DEF UnloadNext, kernelVars
<1>3. CASE ~LoadNext /\ ~UnloadNext
  <2>1. UNCHANGED <<handlers, registryVars>> /\ boot'.at = boot.at
    BY <1>3 DEF Main, StartUp, Ready, ReadyPublished, Remembered, CreateRun, InitializeRaises,
                Farewell, ShutDown, Join, CloseClients, BeginShutdown, BootTo, busVars,
                KernelInv, Boot
  <2> QED
    BY <2>1, RegistryKept
<1> QED
  BY <1>1, <1>2, <1>3

LEMMA NextInv == IInv /\ [Next]_vars => IInv'
<1> SUFFICES ASSUME IInv, [Next]_vars PROVE IInv'
  OBVIOUS
<1>1. RegistryInv /\ KernelInv /\ BusTypeOK /\ op \in Op
  BY DEF IInv, RegistryInv, RegistryTypeOK
<1>2. CASE Main \/ BeginShutdown
  BY <1>1, <1>2, RegistryOnMain, KernelMain, BusSteps DEF IInv, RegistryInv
<1>3. CASE Loop
  BY <1>1, <1>3, KernelLoop, RegistryKept, BusSteps DEF IInv, RegistryInv
<1>4. CASE Registry
  <2>1. RegistryStep /\ UNCHANGED kernelVars /\ boot' = boot
    BY <1>4 DEF Registry, kernelVars
  <2>2. RegistryInv' /\ KernelInv'
    BY <1>1, <2>1, RegistrySteps, KernelRegistry
  <2> QED
    BY <1>1, <2>2, BusSteps DEF IInv, RegistryInv
<1>5. CASE AskHealth \/ (\E c \in Checks : Probed(c)) \/ AnswerHealth
  BY <1>1, <1>5, KernelHealth, RegistryKept, BusSteps DEF IInv, RegistryInv
<1>6. CASE Deliver \/ Over \/ UNCHANGED vars
  <2>1. UNCHANGED <<handlers, registryVars, kernelVars>>
    BY <1>6 DEF Deliver, RunHandler, Over, vars, busVars
  <2>2. RegistryInv'
    BY <1>1, <2>1, RegistryKept DEF kernelVars
  <2>3. KernelInv'
    BY <1>1, <2>1 DEF KernelInv, StageInv, RunInv, HealthInv, kernelVars, registryVars
  <2> QED
    BY <1>1, <2>2, <2>3, BusSteps DEF IInv, RegistryInv
<1> QED
  BY <1>2, <1>3, <1>4, <1>5, <1>6 DEF Next

----------------------------------------------------------------------------
(* The theorems. *)

\* What leads to a plugin, what its life is and what load or unload is at go
\* together, and the tasks are where lifespan needs them.
THEOREM Invariance == Spec => []IInv
BY InitInv, NextInv, PTL DEF Spec

\* The variables keep their types, for any plugins and intervals.
THEOREM TypeCorrect == Spec => []TypeOK
<1>1. IInv => TypeOK
  BY DEF IInv, RegistryInv, KernelInv, TypeOK
<1> QED
  BY <1>1, Invariance, PTL

\* No handler subscribed on the bus, and no adapter that AgentManager has under the
\* name of the manifest, is of a plugin that is not initialised or was shut down.
THEOREM Living == Spec => []OnlyTheLiving
<1>1. IInv => OnlyTheLiving
  <2> SUFFICES ASSUME IInv, NEW p \in Plugins,
                      \/ p \in adapters /\ AgentName[p] = Name[p]
                      \/ \E e \in Events : p \in handlers[e]
               PROVE  life[p] = "active"
    BY DEF OnlyTheLiving
  <2>1. CASE p \in adapters /\ AgentName[p] = Name[p]
    BY <2>1 DEF IInv, RegistryInv, ReachInv, LoadedInv, Loaded
  <2>2. CASE \E e \in Events : p \in handlers[e]
    BY <2>2 DEF IInv, RegistryInv, ReachInv
  <2> QED
    BY <2>1, <2>2
<1> QED
  BY <1>1, Invariance, PTL

\* What a plugin requires is loaded before it and unloaded after it.
THEOREM Dependencies == Spec => []DependenciesFirst
<1>1. IInv => DependenciesFirst
  BY DEF IInv, RegistryInv
<1> QED
  BY <1>1, Invariance, PTL

\* An orderly end leaves nothing behind but a plugin whose hooks could not be
\* connected.
THEOREM Stopped == Spec => []StoppedMeansStopped
<1>1. IInv => StoppedMeansStopped
  <2> SUFFICES ASSUME IInv, boot.pc = "stopped"
               PROVE  /\ run.pc = "done" /\ ~kernel.running /\ ~kernel.initialized
                      /\ registry = <<>> /\ \A p \in adapters : AgentName[p] # Name[p]
                      /\ \A p \in Plugins :
                           life[p] \in {"made", "active"} => Fault[p] = "half hooks"
    BY DEF StoppedMeansStopped
  <2>1. /\ run.pc = "done" /\ ~kernel.initialized /\ registry = <<>>
        /\ op.pc \notin {"initialize", "discard"}
    BY DEF IInv, KernelInv, StageInv
  <2>2. ~kernel.running
    BY <2>1 DEF IInv, KernelInv, RunInv
  <2>3. Loaded = {}
    BY <2>1 DEF Loaded
  <2>4. \A p \in adapters : AgentName[p] # Name[p]
    BY <2>3 DEF IInv, RegistryInv, ReachInv
  <2>5. \A p \in Plugins : life[p] \in {"made", "active"} => Fault[p] = "half hooks"
    BY <2>1, <2>3 DEF IInv, RegistryInv, LifeInv
  <2> QED
    BY <2>1, <2>2, <2>4, <2>5
<1> QED
  BY <1>1, Invariance, PTL

\* GET /health answers "critical" exactly when the loop of run is dead, "ok" when
\* it lives and no probe failed or is missing, and else "degraded".
THEOREM HealthTells == Spec => HealthTellsOfTheLoop
<1>1. IInv /\ [Next]_vars =>
        [health.pc = "probing" /\ health'.pc = "answered"
           => /\ health'.status = "critical" <=> ~kernel.running
              /\ health'.status = "ok" <=>
                   kernel.running /\ health.failed \cup health.pending = {}]_vars
  <2> SUFFICES ASSUME IInv, Next, health.pc = "probing", health'.pc = "answered"
               PROVE  /\ health'.status = "critical" <=> ~kernel.running
                      /\ health'.status = "ok" <=>
                           kernel.running /\ health.failed \cup health.pending = {}
    OBVIOUS
  <2>1. AnswerHealth
    <3>1. health' # health
      OBVIOUS
    <3>2. ~AskHealth /\ \A c \in Checks : ~Probed(c)
      BY DEF AskHealth, Probed, IInv, KernelInv, Health
    <3>3. ~Main /\ ~BeginShutdown
      BY <3>1 DEF Main, StartUp, Ready, ReadyPublished, Remembered, LoadNext, CreateRun,
                  InitializeRaises, UnloadNext, Farewell, ShutDown, Join, CloseClients,
                  BeginShutdown, kernelVars
    <3>4. ~Loop
      BY <3>1 DEF Loop, RunStarts, StartingPublished, RunHead, Housekept, HousekeepingRaises,
                  Checked, DispatchRoutine, Waited
    <3>5. ~Registry /\ ~Deliver /\ ~Over
      BY <3>1 DEF Registry, Deliver, Over, kernelVars, vars
    <3> QED
      BY <3>2, <3>3, <3>4, <3>5 DEF Next
  <2>2. health'.status = DeriveStatus(health.failed \cup health.pending)
    BY <2>1 DEF AnswerHealth
  <2>3. KernelCheck <=> kernel.running
    BY DEF IInv, KernelInv, RunInv, HealthInv, KernelCheck
  <2> QED
    BY <2>2, <2>3 DEF DeriveStatus
<1> QED
  BY <1>1, Invariance, PTL DEF Spec, HealthTellsOfTheLoop

=============================================================================
