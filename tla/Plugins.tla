------------------------------- MODULE Plugins -------------------------------
(***************************************************************************)
(* PluginManager: plugins register their states under prefixed names, with *)
(* hooks and middleware, run an install hook that may register more        *)
(* plugins, and are unregistered when nothing depends on them.  A          *)
(* registration that throws leaves behind what it had done.  Install hooks *)
(* are taken not to unregister plugins.                                    *)
(***************************************************************************)
EXTENDS Naturals, Sequences, SequencesExt

CONSTANTS
  Plugins,
  Requires,  \* of a plugin: the plugins it depends on
  Names,     \* of a plugin: for each namespace, the full names of its states;
             \* prefixes joined by underscores can give two plugins one name
  Installs,  \* plugins with an install hook
  MaxHooks   \* bound on the registrations of one plugin's hooks

VARIABLES
  strict,      \* options.strict, chosen once
  plugins,     \* _plugins: of a registered plugin, its full names; else Absent
  states,      \* _states: the plugin whose configuration serves a full name
  hooks,       \* _hooks and _middlewares: how often each plugin's are there
  installing   \* the registrations whose install hook runs: [plugin, names]
pluginVars == <<strict, plugins, states, hooks, installing>>

Absent == "none"

ASSUME PluginsAssumption ==
  /\ Absent \notin Plugins
  /\ \A p \in Plugins :
       /\ Requires[p] \subseteq Plugins
       /\ \A names \in Names[p] : names \in Seq(ToSet(names)) /\ names # Absent
  /\ MaxHooks \in Nat

FullNames == UNION {UNION {ToSet(names) : names \in Names[p]} : p \in Plugins}
Registered == {p \in Plugins : plugins[p] # Absent}

\* The states a registration sets: all of them, or in strict mode those
\* before the first conflict, where it throws.
Taken(names) == {i \in DOMAIN names : strict /\ states[names[i]] # Absent}
SetBefore(p, names) ==
  {names[i] : i \in {j \in DOMAIN names : \A c \in Taken(names) : j < c}}
StatesSet(p, names) ==
  states' = [n \in FullNames |-> IF n \in SetBefore(p, names) THEN p ELSE states[n]]

MayRegister(p) == plugins[p] = Absent /\ Requires[p] \subseteq Registered

\* register, up to the install hook; inside an install hook as well.
Register(p, names) ==
  /\ MayRegister(p)
  /\ StatesSet(p, names)
  /\ IF Taken(names) # {} THEN UNCHANGED <<plugins, hooks, installing>>
     ELSE /\ hooks[p] < MaxHooks /\ hooks' = [hooks EXCEPT ![p] = @ + 1]
          /\ IF p \in Installs
             THEN installing' = Append(installing, [plugin |-> p, names |-> names])
                  /\ UNCHANGED plugins
             ELSE plugins' = [plugins EXCEPT ![p] = names] /\ UNCHANGED installing
  /\ UNCHANGED strict

\* The install hook returns and the plugin is registered, or it throws, and
\* so may the hook that called it.
Installed ==
  /\ installing # <<>>
  /\ installing' = Front(installing)
  /\ plugins' = [plugins EXCEPT ![Last(installing).plugin] = Last(installing).names]
  /\ UNCHANGED <<strict, states, hooks>>

InstallThrows ==
  /\ installing # <<>>
  /\ installing' = Front(installing)
  /\ UNCHANGED <<strict, plugins, states, hooks>>

DependedOn(name) == \E other \in Registered \ {name} : name \in Requires[other]

UnregisterAny(name) ==  \* mutant: dependents are not looked for
  /\ installing = <<>> /\ name \in Registered
  /\ states' = [n \in FullNames |-> IF n \in ToSet(plugins[name]) THEN Absent ELSE states[n]]
  /\ hooks' = [hooks EXCEPT ![name] = 0]
  /\ plugins' = [plugins EXCEPT ![name] = Absent]
  /\ UNCHANGED <<strict, installing>>

Unregister(name) ==
  /\ installing = <<>> /\ name \in Registered /\ ~DependedOn(name)
  /\ states' = [n \in FullNames |-> IF n \in ToSet(plugins[name]) THEN Absent ELSE states[n]]
  /\ hooks' = [hooks EXCEPT ![name] = 0]
  /\ plugins' = [plugins EXCEPT ![name] = Absent]
  /\ UNCHANGED <<strict, installing>>

PluginInit ==
  /\ strict \in BOOLEAN
  /\ plugins = [p \in Plugins |-> Absent] /\ states = [n \in FullNames |-> Absent]
  /\ hooks = [p \in Plugins |-> 0] /\ installing = <<>>

PluginNext ==
  \/ \E p \in Plugins : Unregister(p) \/ \E names \in Names[p] : Register(p, names)
  \/ Installed \/ InstallThrows

PluginSpec == PluginInit /\ [][PluginNext]_pluginVars

-----------------------------------------------------------------------------
(* Properties                                                              *)

\* A registered plugin can be used: what it depends on is registered, its
\* hooks are there, and in strict mode each of its states is there and its
\* own, whatever registrations failed half way, and whatever was removed.
PluginsUsable ==
  \A p \in Registered :
    /\ Requires[p] \subseteq Registered
    /\ hooks[p] > 0
    /\ strict => \A n \in ToSet(plugins[p]) : states[n] = p
=============================================================================
