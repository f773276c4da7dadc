------------------------------ MODULE PluginHooks ------------------------------
(***************************************************************************)
(* Plugins that are enabled, disabled and unloaded while their hooks run:  *)
(* PluginLoaderService and HookManager, on the handlers of one event.      *)
(*                                                                         *)
(* HookManager keeps one array of registrations per event.  register       *)
(* changes it in place and unregisterPlugin replaces it by a filtered      *)
(* copy, so an execution, which walks the array it found and waits for     *)
(* each handler, sees the former and not the latter.  The loader waits for *)
(* the plugin's own callbacks in the middle of enable, disable and unload. *)
(***************************************************************************)
EXTENDS Integers, SequencesExt

CONSTANTS
  Plugins,     \* plugins loaded from the plugins directory
  Handlers,    \* functions they register
  HooksOf,     \* what onEnable of a plugin registers: [handler, priority] in order
  Requests,    \* requests to enable, disable or unload a plugin
  Executions,  \* events that are fired
  NoPlugin     \* a request not made yet

Offer == [handler : Handlers, priority : Nat]

\* A handler stands for one call of registerHook in the code of one plugin.
ASSUME PluginAssumption ==
  /\ HooksOf \in [Plugins -> Seq(Offer)]
  /\ \A p, q \in Plugins : \A i \in DOMAIN HooksOf[p], j \in DOMAIN HooksOf[q] :
       HooksOf[p][i].handler = HooksOf[q][j].handler => p = q /\ i = j
  /\ NoPlugin \notin Plugins

VARIABLES
  hooks,        \* HookManager.hooks of the event, in the order of execution
  pluginHooks,  \* the plugins HookManager.pluginHooks has an entry for
  status,       \* PluginInstance.status
  call,         \* what each request does, to which plugin
  exec,         \* what each execution does
  untidy        \* plugins enabled twice at a time, or again after an error

manager == <<hooks, pluginHooks>>
vars == <<manager, status, call, exec, untidy>>

PluginStatus == {"installed", "enabled", "disabled", "error", "unloaded"}
Registration == [handler : Handlers, plugin : Plugins, priority : Nat]

\* The awaits of a request: the plugin's onLoad and onEnable, which are alike, its
\* onDisable, on behalf of unloadPlugin too, and its onUnload; "done" is how many of
\* its hooks it has registered.
Awaits == {"onEnable", "onDisable", "onDisableFirst", "onUnload"}
Calls == [at : Awaits \cup {"idle", "over"}, plugin : Plugins \cup {NoPlugin}, done : Nat]

\* An execution walks the live array until unregisterPlugin replaces it; "seen" is
\* the array it then keeps, "due" what was in it at the start and has not been called,
\* and "cut" that unregister has taken an element out of it.
Walks == [at : {"idle", "walking", "calling", "ended", "stopped"}, live : BOOLEAN,
          seen : Seq(Registration), index : Nat, due : SUBSET Registration,
          cut : BOOLEAN]

TypeOK ==
  /\ hooks \in Seq(Registration)
  /\ pluginHooks \in SUBSET Plugins
  /\ status \in [Plugins -> PluginStatus]
  /\ call \in [Requests -> Calls]
  /\ exec \in [Executions -> Walks]
  /\ untidy \in SUBSET Plugins

Init ==
  /\ hooks = <<>> /\ pluginHooks = {}
  /\ status = [p \in Plugins |-> "installed"]
  /\ call = [r \in Requests |-> [at |-> "idle", plugin |-> NoPlugin, done |-> 0]]
  /\ exec = [e \in Executions |-> [at |-> "idle", live |-> TRUE, seen |-> <<>>, index |-> 0,
                                   due |-> {}, cut |-> FALSE]]
  /\ untidy = {}

-----------------------------------------------------------------------------
(* HookManager                                                             *)

\* Every element is sorted stably by priority: the new one comes after its equals.
Sorted(list, x) == InsertAt(list, SelectLastInSeq(list, LAMBDA y : y.priority <= x.priority) + 1, x)

\* register
Register(p, offer) ==
  /\ hooks' = Sorted(hooks, [handler |-> offer.handler, plugin |-> p, priority |-> offer.priority])
  /\ pluginHooks' = pluginHooks \cup {p}

\* The filter of unregisterPlugin, element by element.
Without(list, p) ==
  LET kept[n \in 0..Len(list)] ==
        IF n = 0 THEN <<>>
        ELSE IF list[n].plugin = p THEN kept[n - 1] ELSE Append(kept[n - 1], list[n])
  IN  kept[Len(list)]

Others(p) == Without(hooks, p)

\* Mutant: the elements of the plugin are taken out of the array itself.
UnregisterPluginInPlace(p) ==
  /\ hooks' = IF p \in pluginHooks THEN Others(p) ELSE hooks
  /\ pluginHooks' = pluginHooks \ {p}
  /\ UNCHANGED exec

OnHooks(e) == exec[e].at \in {"walking", "calling"} /\ exec[e].live

\* unregisterPlugin: nothing to do for a plugin without an entry.
UnregisterPlugin(p) ==
  IF p \in pluginHooks
    THEN /\ hooks' = Others(p)
         /\ pluginHooks' = pluginHooks \ {p}
         /\ exec' = [e \in Executions |-> IF OnHooks(e)
                       THEN [exec[e] EXCEPT !.live = FALSE, !.seen = hooks] ELSE exec[e]]
    ELSE UNCHANGED <<hooks, pluginHooks, exec>>

Cut == exec' = [e \in Executions |-> IF OnHooks(e) THEN [exec[e] EXCEPT !.cut = TRUE] ELSE exec[e]]

\* Mutant: a plugin without a tracked id has no entry any more, and equal ids are one.
UnregisterUntracks(i) ==
  /\ hooks' = RemoveAt(hooks, i)
  /\ pluginHooks' = pluginHooks \ {hooks[i].plugin}
  /\ Cut
  /\ UNCHANGED <<status, call, untidy>>

\* unregister, which a plugin reaches through its context: the first registration
\* with an id leaves the array.  Ids repeat within a millisecond, so it may be any of
\* the plugin's; the plugin keeps its entry.
Unregister(i) ==
  /\ hooks' = RemoveAt(hooks, i)
  /\ Cut
  /\ UNCHANGED <<pluginHooks, status, call, untidy>>

Array(e) == IF exec[e].live THEN hooks ELSE exec[e].seen

\* execute: an empty array ends it at once.
Execute(e) ==
  /\ exec[e].at = "idle"
  /\ exec' = [exec EXCEPT ![e].at = IF hooks = <<>> THEN "ended" ELSE "walking",
                          ![e].due = ToSet(hooks)]
  /\ UNCHANGED <<manager, status, call, untidy>>

\* The handler at the next index is called, or the array is exhausted.
Step(e) ==
  /\ exec[e].at = "walking"
  /\ LET next == exec[e].index + 1
     IN  exec' = [exec EXCEPT ![e] =
           IF next <= Len(Array(e))
             THEN [exec[e] EXCEPT !.at = "calling", !.index = next, !.due = @ \ {Array(e)[next]}]
             ELSE [exec[e] EXCEPT !.at = "ended", !.seen = <<>>, !.index = 0]]
  /\ UNCHANGED <<manager, status, call, untidy>>

\* The handler answers: continue = false ends the chain, an error does not.
HandlerDone(e) ==
  /\ exec[e].at = "calling"
  /\ \E next \in {"walking", "stopped"} : exec' = [exec EXCEPT ![e].at = next]
  /\ UNCHANGED <<manager, status, call, untidy>>

-----------------------------------------------------------------------------
(* PluginLoaderService                                                     *)

Goto(r, await, p) == call' = [call EXCEPT ![r] = [at |-> await, plugin |-> p, done |-> 0]]
Over(r) == Goto(r, "over", NoPlugin)
\* What is unloaded is no longer in the map, whatever its object still does.
SetStatus(p, s) == status' = [status EXCEPT ![p] = IF @ = "unloaded" THEN @ ELSE s]
Enabling(p) == {r \in Requests : call[r].plugin = p /\ call[r].at = "onEnable"}

\* Mutant: the status is not looked at.
EnableAnyway(r, p) ==
  /\ call[r].at = "idle" /\ status[p] # "unloaded"
  /\ Goto(r, "onEnable", p)
  /\ untidy' = IF status[p] = "error" \/ Enabling(p) # {} THEN untidy \cup {p} ELSE untidy
  /\ UNCHANGED <<manager, status, exec>>

\* enablePlugin up to its awaits; it returns at once for an enabled plugin.
Enable(r, p) ==
  /\ call[r].at = "idle" /\ status[p] # "unloaded"
  /\ IF status[p] = "enabled" THEN Over(r) ELSE Goto(r, "onEnable", p)
  /\ untidy' = IF status[p] # "enabled" /\ (status[p] = "error" \/ Enabling(p) # {})
                 THEN untidy \cup {p} ELSE untidy
  /\ UNCHANGED <<manager, status, exec>>

\* onEnable registers the hooks of the plugin, one after another.
RegisterHook(r) ==
  /\ call[r].at = "onEnable"
  /\ LET p == call[r].plugin
         next == call[r].done + 1
     IN  /\ next \in DOMAIN HooksOf[p]
         /\ Register(p, HooksOf[p][next])
         /\ call' = [call EXCEPT ![r].done = next]
  /\ UNCHANGED <<status, exec, untidy>>

\* onLoad or onEnable fails somewhere, and takes no hook away.
EnableFails(r) ==
  /\ call[r].at = "onEnable"
  /\ SetStatus(call[r].plugin, "error")
  /\ Over(r)
  /\ UNCHANGED <<manager, exec, untidy>>

Enabled(r) ==
  /\ call[r].at = "onEnable"
  /\ call[r].done = Len(HooksOf[call[r].plugin])
  /\ SetStatus(call[r].plugin, "enabled")
  /\ Over(r)
  /\ UNCHANGED <<manager, exec, untidy>>

\* disablePlugin up to onDisable; only an enabled plugin is disabled.
Disable(r, p) ==
  /\ call[r].at = "idle" /\ status[p] # "unloaded"
  /\ IF status[p] = "enabled" THEN Goto(r, "onDisable", p) ELSE Over(r)
  /\ UNCHANGED <<manager, status, exec, untidy>>

\* unloadPlugin disables an enabled plugin first.
Unload(r, p) ==
  /\ call[r].at = "idle" /\ status[p] # "unloaded"
  /\ Goto(r, IF status[p] = "enabled" THEN "onDisableFirst" ELSE "onUnload", p)
  /\ UNCHANGED <<manager, status, exec, untidy>>

Disabled(r) ==
  /\ call[r].at \in {"onDisable", "onDisableFirst"}
  /\ UnregisterPlugin(call[r].plugin)
  /\ SetStatus(call[r].plugin, "disabled")
  /\ IF call[r].at = "onDisable" THEN Over(r) ELSE Goto(r, "onUnload", call[r].plugin)
  /\ UNCHANGED untidy

\* onDisable throws: the hooks stay, and unloadPlugin goes no further.
DisableFails(r) ==
  /\ call[r].at \in {"onDisable", "onDisableFirst"}
  /\ SetStatus(call[r].plugin, "error")
  /\ Over(r)
  /\ UNCHANGED <<manager, exec, untidy>>

Unloaded(r) ==
  /\ call[r].at = "onUnload"
  /\ SetStatus(call[r].plugin, "unloaded")
  /\ Over(r)
  /\ UNCHANGED <<manager, exec, untidy>>

\* Mutant: a plugin that cannot be unloaded gets a status the type does not have.
UnloadFailsLocked(r) ==
  /\ call[r].at = "onUnload"
  /\ SetStatus(call[r].plugin, "locked")
  /\ Over(r)
  /\ UNCHANGED <<manager, exec, untidy>>

UnloadFails(r) ==
  /\ call[r].at = "onUnload"
  /\ Over(r)
  /\ UNCHANGED <<manager, status, exec, untidy>>

Request(r) ==
  \/ \E p \in Plugins : Enable(r, p) \/ Disable(r, p) \/ Unload(r, p)
  \/ RegisterHook(r) \/ EnableFails(r) \/ Enabled(r)
  \/ Disabled(r) \/ DisableFails(r) \/ Unloaded(r) \/ UnloadFails(r)

Next ==
  \/ \E r \in Requests : Request(r)
  \/ \E e \in Executions : Execute(e) \/ Step(e) \/ HandlerDone(e)
  \/ \E i \in DOMAIN hooks : Unregister(i)

Spec == Init /\ [][Next]_vars

-----------------------------------------------------------------------------
(* Properties                                                              *)

\* A disabled plugin has no handler left in the array, unless a request is
\* enabling it again: every way to a registration leaves the entry that
\* unregisterPlugin looks for, although ids repeat within a millisecond.
DisabledIsSilent ==
  \A p \in Plugins :
    status[p] = "disabled" /\ Enabling(p) = {} => \A x \in ToSet(hooks) : x.plugin # p

\* An execution that runs to its end has called every handler that was registered
\* when it began, whatever was registered or disabled between two of them.
NoneSkipped ==
  \A e \in Executions :
    exec[e].at = "ended" /\ ~exec[e].cut => exec[e].due = {}

\* A handler is registered twice only if its plugin was enabled by two requests at
\* a time, or again after an error that had left its hooks behind.
RegisteredOnce ==
  \A i, j \in DOMAIN hooks :
    i # j /\ hooks[i].handler = hooks[j].handler => hooks[i].plugin \in untidy
=============================================================================
