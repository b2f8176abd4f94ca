--------------------------- MODULE PluginDispatch ---------------------------
(***************************************************************************)
(* contracts/OP_NET.ts, plugins/Plugin.ts and exports/index.ts: one entry  *)
(* into a contract, from the host's call to the result.  The contract's    *)
(* own methods and the plugins share one reader of the calldata, of which  *)
(* only the position is kept here.  What a plugin does is its author's     *)
(* choice: whether it handles the method, how far it reads, and whether it *)
(* throws.                                                                 *)
(***************************************************************************)
EXTENDS Integers, Sequences

CONSTANTS
    Plugins,        \* the number of registered plugins, tried in order
    MaxOffset       \* length of the calldata

SelectorLength == 1     \* 4 bytes in the code
Own == 0                \* the contract itself, deployer() included

VARIABLES
    entry,          \* the export the host has called
    phase,
    plugin,         \* the plugin whose turn it is
    offset,         \* position of the reader
    startOffset,    \* where the method's arguments start
    handlers,       \* who handles the method: Own and plugins
    seen,           \* the position at which each plugin was asked
    hooks,          \* the hooks that have run, in order
    answer          \* who has handled the method

vars == <<entry, phase, plugin, offset, startOffset, handlers, seen, hooks, answer>>

Init ==
    /\ entry = "none" /\ phase = "idle" /\ plugin = 1 /\ offset = 0 /\ startOffset = 0
    /\ handlers = {} /\ seen = <<>> /\ hooks = <<>> /\ answer = "none"

\* The host calls execute, onDeploy or onUpdate of a new instance.
Enter(name, who) ==
    /\ phase = "idle" /\ (name # "execute" => who = {})
    /\ entry' = name /\ handlers' = who
    /\ phase' = "started"
    /\ offset' = IF name = "execute" THEN SelectorLength ELSE 0
    /\ UNCHANGED <<plugin, startOffset, seen, hooks, answer>>

Reads(n) == offset + n <= MaxOffset /\ offset' = offset + n

\* A hook of the next plugin runs with the shared reader.
Hook(n) ==
    /\ phase \in {"started", "body", "completed"} /\ plugin <= Plugins
    /\ Reads(n)
    /\ hooks' = Append(hooks, <<phase, plugin>>)
    /\ plugin' = plugin + 1
    /\ UNCHANGED <<entry, phase, startOffset, handlers, seen, answer>>

\* onExecutionStarted has run for all: the method, or onDeployment or onUpdate, is next.
Started ==
    /\ phase = "started" /\ plugin > Plugins
    /\ plugin' = 1
    /\ phase' = IF entry = "execute" THEN "dispatch" ELSE "body"
    /\ startOffset' = offset
    /\ UNCHANGED <<entry, offset, handlers, seen, hooks, answer>>

OwnMethod(n) ==
    /\ phase = "dispatch" /\ plugin = 1 /\ Own \in handlers
    /\ Reads(n)
    /\ answer' = Own /\ phase' = "completed"
    /\ UNCHANGED <<entry, plugin, startOffset, handlers, seen, hooks>>

\* A plausible slip: the position is only restored when the loop is over.
OffsetLeft(n) == offset + n

OffsetAfterRefusal(n) == startOffset

\* The next plugin is asked; when it does not handle the method, the position is restored.
TryPlugin(n) ==
    /\ phase = "dispatch" /\ plugin <= Plugins /\ Own \notin handlers
    /\ offset + n <= MaxOffset
    /\ seen' = Append(seen, offset)
    /\ IF plugin \in handlers
       THEN answer' = plugin /\ offset' = offset + n /\ phase' = "completed" /\ plugin' = 1
       ELSE offset' = OffsetAfterRefusal(n) /\ plugin' = plugin + 1 /\ UNCHANGED <<answer, phase>>
    /\ UNCHANGED <<entry, startOffset, handlers, hooks>>

\* onDeployment or onUpdate has run for all.
Bodied ==
    /\ phase = "body" /\ plugin > Plugins
    /\ phase' = "completed" /\ plugin' = 1
    /\ UNCHANGED <<entry, offset, startOffset, handlers, seen, hooks, answer>>

Return ==
    /\ phase = "completed" /\ plugin > Plugins
    /\ phase' = "returned"
    /\ UNCHANGED <<entry, plugin, offset, startOffset, handlers, seen, hooks, answer>>

\* No plugin has handled the method, or code of the contract or of a plugin throws.
Throws ==
    /\ phase \in {"started", "dispatch", "body", "completed"}
    /\ phase' = "reverted"
    /\ UNCHANGED <<entry, plugin, offset, startOffset, handlers, seen, hooks, answer>>

\* The host destroys the instance.
Leave ==
    /\ phase \in {"returned", "reverted"}
    /\ entry' = "none" /\ phase' = "idle" /\ plugin' = 1 /\ offset' = 0 /\ startOffset' = 0
    /\ handlers' = {} /\ seen' = <<>> /\ hooks' = <<>> /\ answer' = "none"

Next ==
    \/ \E name \in {"execute", "onDeploy", "onUpdate"}, who \in SUBSET (Own .. Plugins) :
          Enter(name, who)
    \/ \E n \in 0 .. 1 : Hook(n) \/ OwnMethod(n) \/ TryPlugin(n)
    \/ Started \/ Bodied \/ Return \/ Throws \/ Leave

Spec == Init /\ [][Next]_vars

-----------------------------------------------------------------------------
\* Every plugin that is asked finds the reader at the method's arguments, whatever the
\* plugins before it have read; and a call that returns was answered by the contract or
\* by the first plugin registered for the method, between the hooks of every plugin.
ArgumentsReachTheHandler ==
    /\ \A i \in DOMAIN seen : seen[i] = startOffset
    /\ phase = "returned" =>
          /\ entry = "execute" =>
                answer \in handlers /\ \A h \in handlers : answer <= h
          /\ hooks = [i \in 1 .. Plugins |-> <<"started", i>>]
                     \o (IF entry = "execute" THEN <<>>
                         ELSE [i \in 1 .. Plugins |-> <<"body", i>>])
                     \o [i \in 1 .. Plugins |-> <<"completed", i>>]
=============================================================================
