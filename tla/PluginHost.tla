----------------------------- MODULE PluginHost -----------------------------
(***************************************************************************)
(* One plugin on the server: the worker its code runs in, the requests     *)
(* posted to it (plugins/host/workerPool.ts, rpc.ts), what it registered   *)
(* with the host, the recovery from a crash (crashRecovery.ts) and the     *)
(* tasks that load and unload it (plugins/runtime.ts, handlers/cms/        *)
(* plugins/state.ts and lifecycle.ts): enable, disable, restart, recovery, *)
(* and the activation of all plugins.                                      *)
(*                                                                         *)
(* A task runs on after an answer in a microtask; here any step may come   *)
(* first.  A worker may answer a request, crash or say nothing; terminate  *)
(* discards what it said and nobody has heard yet.                         *)
(***************************************************************************)
EXTENDS Integers

CONSTANTS
    Operators,      \* requests of administrators, over and over
    Recoveries,     \* bound: recoveries at a time; a crash beyond it is not recovered from
    Rpcs,           \* routes, hooks, schedules: requests of nobody's task
    Workers,        \* names of workers
    NoWorker,       \* no worker
    Threshold       \* CRASH_THRESHOLD

Tasks == Operators \cup Recoveries

Callers == Tasks \cup Rpcs

ASSUME PluginHostAssumption ==
    /\ NoWorker \notin Workers /\ Threshold \in Nat \ {0}
    /\ Operators \cap Recoveries = {} /\ Tasks \cap Rpcs = {}

(* There is always a worker that nobody awaits: `new Worker` *)
ASSUME WorkersAssumption ==
    \A awaited \in [Callers -> Workers \cup {NoWorker}] :
        \E w \in Workers : \A c \in Callers : awaited[c] # w

VARIABLES
    plugin,         \* the row of installed_plugins
    host,           \* what the host keeps of the plugin
    mapped,         \* workers: the worker requests are posted to
    worker,         \* each worker: gone, without the plugin, or with it
    task,           \* the tasks under way
    sent            \* pendingRequests: the worker a caller awaits

hostVars == <<plugin, host, mapped, worker, task, sent>>

Plugin == [enabled : BOOLEAN, status : {"active", "disabled", "error"}]

(* hooks: on the hook bus.  sources: loop sources, media adapters and      *)
(* variant delegates, each in a registry of its own.                       *)
Places == {"hooks", "sources"}

(* record: in hostPlugins *)
Host == [record : BOOLEAN, registered : SUBSET Places, crashes : 0..Threshold]

(* hook: how the lifecycle hook of the task went *)
Task == [what : {"none", "enable", "disable", "restart", "recover", "rebind"},
         pc : {"idle", "unload", "unloading", "reset", "read", "load", "loading", "hook", "running", "status"},
         hook : {"todo", "ok", "failed"}]

HostTypeOK ==
    /\ plugin \in Plugin /\ host \in Host
    /\ mapped \in Workers \cup {NoWorker} /\ worker \in [Workers -> {"gone", "empty", "loaded"}]
    /\ task \in [Tasks -> Task] /\ sent \in [Callers -> Workers \cup {NoWorker}]

Idle == [what |-> "none", pc |-> "idle", hook |-> "todo"]

HostInit ==
    /\ plugin = [enabled |-> FALSE, status |-> "disabled"]
    /\ host = [record |-> FALSE, registered |-> {}, crashes |-> 0]
    /\ mapped = NoWorker /\ worker = [w \in Workers |-> "gone"]
    /\ task = [t \in Tasks |-> Idle] /\ sent = [c \in Callers |-> NoWorker]

-----------------------------------------------------------------------------
(* A worker that is not in the map and that nobody awaits is not told      *)
(* apart from one that was never started.                                  *)
Unused(w) == w # mapped /\ \A c \in Callers : sent[c] # w

(* requestFromWorker: ensureWorkerFor, then the request and its timer *)
Post(c) ==
    LET w == IF mapped # NoWorker THEN mapped ELSE CHOOSE w \in Workers : Unused(w)
    IN /\ sent' = [sent EXCEPT ![c] = w]
       /\ mapped' = w
       /\ worker' = IF mapped # NoWorker THEN worker ELSE [worker EXCEPT ![w] = "empty"]

(* The teardown of a record, if there is one: every registry is asked to   *)
(* unregister the plugin.                                                  *)
Unregistered(h) == [h EXCEPT !.registered = IF h.record THEN {} ELSE @]

Dropped(h) == [Unregistered(h) EXCEPT !.record = FALSE]

(* After unloadPluginInWorker *)
Unloaded(k) ==
    [k EXCEPT !.pc = IF k.hook # "todo" THEN "status" ELSE IF k.what = "restart" THEN "read" ELSE "load"]

(* The hook returned. *)
Succeeded(k) ==
    IF k.what \in {"recover", "rebind"} THEN Idle
    ELSE [k EXCEPT !.hook = "ok", !.pc = IF k.what = "disable" THEN "unload" ELSE "status"]

(* The load or the hook failed: only an enabling unloads again, and a      *)
(* recovery logs.                                                          *)
Failed(k) ==
    IF k.what = "recover" THEN Idle
    ELSE [k EXCEPT !.hook = "failed", !.pc = IF k.what = "enable" THEN "unload" ELSE "status"]

(* The task once its request has been answered, or rejected *)
Resumed(k, ok) ==
    CASE k.pc = "unloading"          -> Unloaded(k)
      [] k.pc = "loading" /\ ok      -> [k EXCEPT !.pc = "hook"]
      [] k.pc = "running" /\ ok      -> Succeeded(k)
      [] k.pc \in {"loading", "running"} /\ ~ok -> Failed(k)
      [] OTHER                       -> k

(* The workers that the tasks that unload have in hand: terminated by each *)
(* when its request ends                                                   *)
Ending(C) == {sent[t] : t \in {t \in C \cap Tasks : task[t].pc = "unloading"}}

-----------------------------------------------------------------------------
(* setPluginEnabledFromRequest *)
SetEnabled(o, on) ==
    /\ task[o].pc = "idle"
    /\ plugin' = [plugin EXCEPT !.enabled = on]
    /\ task' = [task EXCEPT ![o] = [what |-> IF on THEN "enable" ELSE "disable", pc |-> "unload", hook |-> "todo"]]
    /\ UNCHANGED <<host, mapped, worker, sent>>

(* handlePluginRestart *)
Restart(o) ==
    /\ task[o].pc = "idle" /\ plugin.enabled
    /\ task' = [task EXCEPT ![o] = [what |-> "restart", pc |-> "unload", hook |-> "todo"]]
    /\ host' = [host EXCEPT !.crashes = 0]
    /\ UNCHANGED <<plugin, mapped, worker, sent>>

(* activateInstalledServerPlugins, when another plugin is disabled or      *)
(* removed                                                                 *)
Rebind(o) ==
    /\ task[o].pc = "idle"
    /\ task' = [task EXCEPT ![o] = [what |-> "rebind", pc |-> "reset", hook |-> "todo"]]
    /\ UNCHANGED <<plugin, host, mapped, worker, sent>>

(* unloadPluginInWorker, up to its request *)
Unload(t) ==
    /\ task[t].pc = "unload"
    /\ host' = Dropped(host)
    /\ IF mapped = NoWorker
       THEN task' = [task EXCEPT ![t] = Unloaded(@)] /\ UNCHANGED sent
       ELSE task' = [task EXCEPT ![t].pc = "unloading"] /\ sent' = [sent EXCEPT ![t] = mapped]
    /\ UNCHANGED <<plugin, mapped, worker>>

(* resetPluginWorker and hookBus.reset: the records and the other          *)
(* registries stay as they are                                             *)
Reset(t) ==
    /\ task[t].pc = "reset"
    /\ host' = [host EXCEPT !.registered = @ \ {"hooks"}]
    /\ mapped' = NoWorker
    /\ worker' = [w \in Workers |-> IF w \in {mapped} \cup Ending(Tasks) THEN "gone" ELSE worker[w]]
    /\ sent' = [c \in Callers |-> NoWorker]
    /\ task' = [k \in Tasks |-> IF k = t THEN [task[k] EXCEPT !.pc = "read"] ELSE Resumed(task[k], FALSE)]
    /\ UNCHANGED plugin

(* reloadAndActivatePlugin and the loop over all plugins: is it enabled?   *)
(* The settings are loaded before what follows.                            *)
ReadRow(t) ==
    /\ task[t].pc = "read"
    /\ task' = [task EXCEPT ![t] = IF plugin.enabled THEN [@ EXCEPT !.pc = "load"]
                                   ELSE IF @.what = "restart" THEN [@ EXCEPT !.hook = "ok", !.pc = "status"]
                                   ELSE Idle]
    /\ UNCHANGED <<plugin, host, mapped, worker, sent>>

(* loadPluginInWorker *)
Load(t) ==
    /\ task[t].pc = "load"
    /\ host' = [Unregistered(host) EXCEPT !.record = TRUE]
    /\ Post(t)
    /\ task' = [task EXCEPT ![t].pc = "loading"]
    /\ UNCHANGED plugin

(* runLifecycleInWorker *)
RunHook(t) ==
    /\ task[t].pc = "hook"
    /\ Post(t)
    /\ task' = [task EXCEPT ![t].pc = "running"]
    /\ UNCHANGED <<plugin, host>>

(* setPluginLifecycleStatus; a plugin that was disabled is followed by the *)
(* activation of the others                                                *)
SetStatus(t) ==
    /\ task[t].pc = "status"
    /\ plugin' = [plugin EXCEPT !.status = IF task[t].hook = "failed" THEN "error"
                                           ELSE IF task[t].what = "disable" THEN "disabled" ELSE "active"]
    /\ task' = [task EXCEPT ![t] = IF @.what = "disable" THEN [what |-> "rebind", pc |-> "reset", hook |-> "todo"]
                                   ELSE Idle]
    /\ UNCHANGED <<host, mapped, worker, sent>>

-----------------------------------------------------------------------------
(* Any other request: it is posted, to a new worker if there is none *)
CallPlugin(q) ==
    /\ sent[q] = NoWorker
    /\ Post(q)
    /\ UNCHANGED <<plugin, host, task>>

(* The worker answers: handleWorkerMessage *)
Answer(c, ok) ==
    LET w  == sent[c]
        pc == IF c \in Tasks THEN task[c].pc ELSE "request"
    IN /\ w # NoWorker /\ worker[w] # "gone"
       /\ pc = "running" /\ ok => worker[w] = "loaded"
       /\ pc = "unloading" => ok
       /\ sent' = [sent EXCEPT ![c] = NoWorker]
       /\ task' = IF c \in Tasks THEN [task EXCEPT ![c] = Resumed(@, ok)] ELSE task
       /\ mapped' = IF pc = "unloading" THEN NoWorker ELSE mapped
       /\ worker' = IF pc = "unloading" THEN [worker EXCEPT ![w] = "gone"]
                    ELSE IF pc = "loading" THEN [worker EXCEPT ![w] = IF ok THEN "loaded" ELSE "empty"]
                    ELSE worker
       /\ UNCHANGED <<plugin, host>>

(* Mutant: a handler that awaits before it registers with the entry it has *)
RegistersLate(w, p) ==
    /\ worker[w] = "loaded"
    /\ host' = [host EXCEPT !.registered = @ \cup {p}]
    /\ UNCHANGED <<plugin, mapped, worker, task, sent>>

(* dispatchApiCall: the plugin registers something *)
Registers(w, p) ==
    /\ worker[w] = "loaded" /\ host.record
    /\ host' = [host EXCEPT !.registered = @ \cup {p}]
    /\ UNCHANGED <<plugin, mapped, worker, task, sent>>

(* handleWorkerCrash: the worker in the map goes, whichever it is; all     *)
(* requests are rejected, the record is dropped, and a recovery follows    *)
HandleCrash(dead) ==
    LET resumed == [t \in Tasks |-> Resumed(task[t], FALSE)]
        free    == {r \in Recoveries : resumed[r].pc = "idle"}
        giveUp  == host.crashes + 1 >= Threshold
        next    == IF giveUp THEN [what |-> "recover", pc |-> "status", hook |-> "failed"]
                   ELSE [what |-> "recover", pc |-> "read", hook |-> "todo"]
    IN /\ mapped' = NoWorker
       /\ worker' = [w \in Workers |-> IF w \in dead \cup {mapped} \cup Ending(Tasks) THEN "gone" ELSE worker[w]]
       /\ sent' = [c \in Callers |-> NoWorker]
       /\ host' = [Dropped(host) EXCEPT !.crashes = IF giveUp THEN Threshold ELSE @ + 1]
       /\ task' = IF free = {} THEN resumed ELSE [resumed EXCEPT ![CHOOSE r \in free : TRUE] = next]
       /\ UNCHANGED plugin

(* An uncaught error in a worker *)
WorkerDies(w) == worker[w] # "gone" /\ HandleCrash({w})

(* Mutant: the timers of a worker that is terminated are cleared *)
TimerFiresIfMapped(c) == sent[c] # NoWorker /\ sent[c] = mapped /\ HandleCrash({})

(* No answer within the budget: the request is rejected, and what follows  *)
(* is a crash of whatever worker the plugin has                            *)
TimerFires(c) == sent[c] # NoWorker /\ HandleCrash({})

(* A crash drops out of the window of five minutes. *)
WindowMoves ==
    /\ host.crashes > 0
    /\ host' = [host EXCEPT !.crashes = @ - 1]
    /\ UNCHANGED <<plugin, mapped, worker, task, sent>>

TaskStep(t) == Unload(t) \/ Reset(t) \/ ReadRow(t) \/ Load(t) \/ RunHook(t) \/ SetStatus(t)

HostNext ==
    \/ \E o \in Operators : Restart(o) \/ Rebind(o) \/ \E on \in BOOLEAN : SetEnabled(o, on)
    \/ \E t \in Tasks : TaskStep(t)
    \/ \E q \in Rpcs : CallPlugin(q)
    \/ \E c \in Callers : TimerFires(c) \/ \E ok \in BOOLEAN : Answer(c, ok)
    \/ \E w \in Workers : WorkerDies(w) \/ \E p \in Places : Registers(w, p)
    \/ WindowMoves

HostSpec == HostInit /\ [][HostNext]_hostVars

(* A task goes on when nothing keeps it waiting, and timers fire (any does *)
(* the same to all who wait).  Workers owe nothing.                        *)
HostFairness ==
    /\ \A t \in Tasks : WF_hostVars(TaskStep(t))
    /\ WF_hostVars(\E c \in Callers : TimerFires(c))

-----------------------------------------------------------------------------
(* crashRecovery.ts, rpc.ts: a teardown terminates the worker in the map   *)
(* and unregisters what is on record, and reaches nothing else ("so we     *)
(* don't keep a dead worker process around").  So no worker of the plugin  *)
(* is alive but the one in the map, and nothing is registered without a    *)
(* record, in whatever order tasks, crashes, timers and answers come.      *)
TeardownReachesAll ==
    /\ \A w \in Workers : worker[w] # "gone" => w = mapped
    /\ host.registered # {} => host.record

(* workerPool.ts "without a deadline this pending promise [...] would hang *)
(* forever": a request is settled, whatever the worker it was sent to does *)
(* and though another task that terminates that worker tells nobody.       *)
NobodyWaitsForever == \A c \in Callers : sent[c] # NoWorker ~> sent[c] = NoWorker

=============================================================================
