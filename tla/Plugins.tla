------------------------------ MODULE Plugins ------------------------------
(***************************************************************************)
(* runtime/plugins.js: PluginSystem.  Its operations check what is loaded  *)
(* and active, await the plugin, and then record what they did: callers    *)
(* overlap at every await.                                                 *)
(*                                                                         *)
(* Each load makes an object of its own, numbered; a plugin is its object  *)
(* in the maps, 0 for none.  A caller is idle or inside one operation; a   *)
(* load waits in a stack of frames, one per loadPlugin that called         *)
(* another.  `initialized` is kept for the property.  External plugins are *)
(* the four functions of loadExternalPlugin, which do not fail; the import *)
(* of a system plugin does, for it names a path that does not exist.  Left *)
(* out: categories, configuration, contexts and queries.                   *)
(***************************************************************************)
EXTENDS Integers, Sequences, SequencesExt, FiniteSets

CONSTANTS
    PluginIds, SystemPlugins,
    DependencyChoices,  \* functions from plugins to sequences of plugins
    Callers,
    MaxObjects          \* bound on the plugins initialized

ASSUME PluginsAssumption ==
    /\ SystemPlugins \subseteq PluginIds /\ IsFiniteSet(SystemPlugins) /\ MaxObjects \in Nat
    /\ DependencyChoices \subseteq [PluginIds -> Seq(PluginIds)]

VARIABLES
    dependencies,   \* of each plugin, fixed by its registration
    pluginRegistry, \* the plugins registered, in the order they were
    enabled,        \* those of them that are enabled
    plugins, activePlugins,  \* object of each plugin that is loaded, active
    active,         \* objects whose flag is set
    objects,        \* number of objects so far
    initialized,    \* plugins that were initialized, ever
    calls           \* what each caller waits for

pluginVars == <<dependencies, pluginRegistry, enabled, plugins, activePlugins, active,
                objects, initialized, calls>>

Idle == [at |-> "idle", frames |-> <<>>, plugin |-> <<>>, object |-> 0, next |-> <<>>]

PluginsInit ==
    /\ dependencies \in DependencyChoices
    /\ pluginRegistry = SetToSeq(SystemPlugins) /\ enabled = SystemPlugins
    /\ plugins = [p \in PluginIds |-> 0] /\ activePlugins = plugins
    /\ active = {} /\ objects = 0 /\ initialized = {}
    /\ calls = [c \in Callers |-> Idle]

Loaded(p) == plugins[p] # 0
Failed == <<"failed">>

\* The arguments of resolveDependencies.
Calls == [id : PluginIds, resolved : Seq(PluginIds), path : Seq(PluginIds)]

\* The plugin after all it depends on; Failed for a plugin that is not
\* registered or a cycle.  A plugin that is on the path is looked for before
\* one that is resolved.
resolveDependencies[call \in Calls] ==
    IF ~Contains(pluginRegistry, call.id) \/ Contains(call.path, call.id) THEN Failed
    ELSE IF Contains(call.resolved, call.id) THEN call.resolved
    ELSE LET before == FoldLeft(LAMBDA r, d :
                           IF r = Failed THEN Failed
                           ELSE resolveDependencies[[id |-> d, resolved |-> r,
                                                     path |-> Append(call.path, call.id)]],
                           call.resolved, dependencies[call.id])
         IN  IF before = Failed THEN Failed ELSE Append(before, call.id)

Order(p) == resolveDependencies[[id |-> p, resolved |-> <<>>, path |-> <<>>]]

\* The elements of a list that are in a set.
Only(list, set) ==
    FoldLeft(LAMBDA kept, x : IF x \in set THEN Append(kept, x) ELSE kept, <<>>, list)

\* Mutant: system plugins are taken to be loaded.
Before_NoSystem(p) == Only(Order(p), PluginIds \ ({p} \cup SystemPlugins))

Before(p) == Only(Order(p), PluginIds \ {p})

Frames == Seq([plugin : PluginIds, rest : Seq(PluginIds)]) \ {<<>>}

\* loadPlugin up to its first await: the next dependency that is not loaded
\* is loaded first, by a call of its own.
Descend[frames \in Frames] ==
    LET top == Head(frames)
        i == SelectInSeq(top.rest, LAMBDA d : ~Loaded(d))
        d == top.rest[i]
        waiting == <<[top EXCEPT !.rest = SubSeq(@, i + 1, Len(@))]>> \o Tail(frames)
    IN  IF i = 0 THEN <<[top EXCEPT !.rest = <<>>]>> \o Tail(frames)
        ELSE IF Order(d) = Failed THEN <<>>
        ELSE Descend[<<[plugin |-> d, rest |-> Before(d)]>> \o waiting]

\* A call for p; next are those that follow it in startAllPlugins and stopAllPlugins,
\* or where loadInstalledPlugins is in the registry.
Loading(p, next) ==
    LET frames == Descend[<<[plugin |-> p, rest |-> Before(p)]>>]
    IN  IF Loaded(p) \/ Order(p) = Failed \/ frames = <<>> THEN Idle
        ELSE [Idle EXCEPT !.at = "entry", !.next = next, !.frames = frames]
OnObject(at, p, next) == [Idle EXCEPT !.at = at, !.plugin = <<p>>, !.object = plugins[p], !.next = next]

\* The awaited calls of loadInstalledPlugins, startAllPlugins and
\* stopAllPlugins one after the other; what has nothing to wait for is passed over,
\* and what throws ends the loop.  The first walks the registry itself, with what is
\* registered, enabled and loaded by then; the others the plugins of the start.
LoadAfter(n) ==
    LET Missing(p) == p \in enabled \ SystemPlugins /\ ~Loaded(p)
        i == SelectInSubSeq(pluginRegistry, n + 1, Len(pluginRegistry), Missing)
    IN  IF i = 0 THEN Idle ELSE Loading(pluginRegistry[i], <<pluginRegistry[i]>>)

\* The call for the i-th of those ahead, unless there is none or it throws.
WaitFor(at, todo, i) ==
    IF i = 0 \/ ~Loaded(todo[i]) THEN Idle
    ELSE OnObject(at, todo[i], SubSeq(todo, i + 1, Len(todo)))
StartEach(todo) ==
    WaitFor("start", todo,
       SelectInSeq(todo, LAMBDA p : activePlugins[p] = 0 /\ ~(Loaded(p) /\ plugins[p] \in active)))
StopEach(todo) ==
    WaitFor("stop", todo, SelectInSeq(todo, LAMBDA p : ~Loaded(p) \/ plugins[p] \in active))

Call(c, call) ==
    /\ calls[c] = Idle /\ call # Idle
    /\ calls' = [calls EXCEPT ![c] = call]
    /\ UNCHANGED <<dependencies, pluginRegistry, enabled, plugins, activePlugins, active, objects,
                   initialized>>

registerPlugin(p) ==
    /\ ~Contains(pluginRegistry, p)
    /\ pluginRegistry' = Append(pluginRegistry, p) /\ enabled' = enabled \cup {p}
    /\ UNCHANGED <<dependencies, plugins, activePlugins, active, objects, initialized, calls>>

enablePlugin(p) ==
    /\ Contains(pluginRegistry, p) /\ enabled' = enabled \cup {p}
    /\ UNCHANGED <<dependencies, pluginRegistry, plugins, activePlugins, active, objects,
                   initialized, calls>>

disablePlugin(p) ==
    /\ p \in enabled /\ enabled' = enabled \ {p}
    /\ UNCHANGED <<dependencies, pluginRegistry, plugins, activePlugins, active, objects,
                   initialized, calls>>

loadPlugin(c, p) == Call(c, Loading(p, <<>>))
startPlugin(c, p) == Loaded(p) /\ plugins[p] \notin active /\ Call(c, OnObject("start", p, <<>>))
stopPlugin(c, p) == Loaded(p) /\ plugins[p] \in active /\ Call(c, OnObject("stop", p, <<>>))
\* One that is active is stopped first; who depends on it is not asked.
unloadPlugin(c, p) ==
    Loaded(p) /\ Call(c, OnObject(IF plugins[p] \in active THEN "stop for unload" ELSE "destroy", p, <<>>))
loadInstalledPlugins(c) == Call(c, LoadAfter(0))
startAllPlugins(c) == Call(c, StartEach(Only(pluginRegistry, enabled)))
\* In the order they became active, which is any.
stopAllPlugins(c) ==
    \E todo \in SetToSeqs({p \in PluginIds : activePlugins[p] # 0}) : Call(c, StopEach(todo))

\* loadPluginEntry came back: the import of a system plugin fails, and with
\* it every load that waits for it.
loadPluginEntry(c) ==
    /\ calls[c].at = "entry"
    /\ calls' = [calls EXCEPT ![c] =
           IF Head(@.frames).plugin \in SystemPlugins THEN Idle ELSE [@ EXCEPT !.at = "initialize"]]
    /\ UNCHANGED <<dependencies, pluginRegistry, enabled, plugins, activePlugins, active, objects,
                   initialized>>

\* It is recorded whatever was recorded meanwhile; the load that called this
\* one goes on after the await.
Initialize(c) ==
    LET frames == calls[c].frames  p == Head(frames).plugin IN
    /\ calls[c].at = "initialize" /\ objects < MaxObjects
    /\ objects' = objects + 1
    /\ plugins' = [plugins EXCEPT ![p] = objects']
    /\ initialized' = initialized \cup {p}
    /\ calls' = [calls EXCEPT ![c] = [@ EXCEPT !.at = "return", !.frames = Tail(frames)]]
    /\ UNCHANGED <<dependencies, pluginRegistry, enabled, activePlugins, active>>

\* A dependency that cannot be resolved any more throws through all frames.
Return(c) ==
    /\ calls[c].at = "return"
    /\ calls' = [calls EXCEPT ![c] =
           IF @.frames = <<>>
           THEN IF @.next = <<>> THEN Idle
                ELSE LoadAfter(SelectInSeq(pluginRegistry, LAMBDA p : p = @.next[1]))
           ELSE LET deeper == Descend[@.frames]
                IN  IF deeper = <<>> THEN Idle ELSE [@ EXCEPT !.at = "entry", !.frames = deeper]]
    /\ UNCHANGED <<dependencies, pluginRegistry, enabled, plugins, activePlugins, active, objects,
                   initialized>>

Started(c) ==
    LET p == calls[c].plugin[1] IN
    /\ calls[c].at = "start"
    /\ active' = active \cup {calls[c].object}
    /\ activePlugins' = [activePlugins EXCEPT ![p] = calls[c].object]
    /\ calls' = [calls EXCEPT ![c] = [@ EXCEPT !.at = "started"]]
    /\ UNCHANGED <<dependencies, pluginRegistry, enabled, plugins, objects, initialized>>

Stopped(c) ==
    LET p == calls[c].plugin[1] IN
    /\ calls[c].at \in {"stop", "stop for unload"}
    /\ active' = active \ {calls[c].object}
    /\ activePlugins' = [activePlugins EXCEPT ![p] = 0]
    /\ calls' = [calls EXCEPT ![c].at = IF @ = "stop" THEN "stopped" ELSE "destroy"]
    /\ UNCHANGED <<dependencies, pluginRegistry, enabled, plugins, objects, initialized>>

\* The loops of startAllPlugins and stopAllPlugins go on after the await.
NextOfAll(c) ==
    /\ calls[c].at \in {"started", "stopped"}
    /\ calls' = [calls EXCEPT ![c] =
           IF @.at = "started" THEN StartEach(@.next) ELSE StopEach(@.next)]
    /\ UNCHANGED <<dependencies, pluginRegistry, enabled, plugins, activePlugins, active, objects,
                   initialized>>

\* What is loaded by now is unloaded, the same object or another.
Destroyed(c) ==
    /\ calls[c].at = "destroy"
    /\ plugins' = [plugins EXCEPT ![calls[c].plugin[1]] = 0]
    /\ calls' = [calls EXCEPT ![c] = Idle]
    /\ UNCHANGED <<dependencies, pluginRegistry, enabled, activePlugins, active, objects, initialized>>

PluginsNext ==
    \/ \E p \in PluginIds : registerPlugin(p) \/ enablePlugin(p) \/ disablePlugin(p)
    \/ \E c \in Callers :
           \/ \E p \in PluginIds :
                  loadPlugin(c, p) \/ startPlugin(c, p) \/ stopPlugin(c, p) \/ unloadPlugin(c, p)
           \/ loadInstalledPlugins(c) \/ startAllPlugins(c) \/ stopAllPlugins(c)
           \/ loadPluginEntry(c) \/ Initialize(c) \/ Return(c)
           \/ Started(c) \/ Stopped(c) \/ NextOfAll(c) \/ Destroyed(c)

PluginsSpec == PluginsInit /\ [][PluginsNext]_pluginVars

-----------------------------------------------------------------------------

\* However loads, starts, stops and unloads overlap, no plugin is initialized
\* before everything it depends on has been, and the object kept as active is
\* one that has been started and not been stopped (loadPlugin, startPlugin,
\* stopPlugin).
PluginsInOrder ==
    \A p \in PluginIds :
        /\ p \in initialized => ToSet(dependencies[p]) \subseteq initialized
        /\ activePlugins[p] # 0 => activePlugins[p] \in active
=============================================================================
