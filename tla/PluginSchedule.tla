--------------------------- MODULE PluginSchedule ---------------------------
(***************************************************************************)
(* One schedule of a plugin: its row (repositories/pluginSchedules.ts) and *)
(* the runs that ticks and the "Run now" button start (plugins/            *)
(* scheduler.ts).  A run claims the row with a token of its own until a    *)
(* lease ends, calls the plugin's worker and records the outcome.  A tick  *)
(* may begin while the one before it is awaiting its run.                  *)
(*                                                                         *)
(* Time is left out: a schedule becomes due at any moment, and the lease   *)
(* of a run that is under way ends before the run does MaxLate times at    *)
(* most.                                                                   *)
(***************************************************************************)
EXTENDS Integers

CONSTANTS
    Ticks,          \* ticks of the scheduler, over and over
    Clicks,         \* presses of "Run now"
    NoClaim,        \* no claim
    Lost,           \* the claim of a run that a crash ended
    Cap,            \* FAILURE_CAP
    MaxFailures,    \* bound: consecutive failures that are counted
    MaxLate,        \* bound: leases that end before their run
    MaxCrashes      \* bound: crashes of the server

ASSUME PluginScheduleAssumption ==
    /\ NoClaim \notin Ticks \cup Clicks /\ Lost \notin Ticks \cup Clicks /\ NoClaim # Lost
    /\ Cap \in Nat /\ MaxFailures \in Nat /\ MaxLate \in Nat /\ MaxCrashes \in Nat

VARIABLES
    sched,          \* the row of plugin_schedules
    run,            \* the runs under way
    late, crashes   \* how often either has happened

schedVars == <<sched, run, late, crashes>>

Runs == Ticks \cup Clicks

(* enabled: registered.  plugin: its plugin is enabled.  due: next_run_at   *)
(* is past.  lapsed: lock_until is.                                        *)
Sched == [enabled : BOOLEAN, plugin : BOOLEAN, paused : BOOLEAN, due : BOOLEAN, failures : 0..MaxFailures,
          token : Runs \cup {NoClaim, Lost}, lapsed : BOOLEAN]

(* failures: consecutiveFailures as the row was listed *)
Run == [pc : {"idle", "listed", "claimed", "called", "failed", "succeeded", "recorded", "over"},
        failures : 0..MaxFailures]

SchedTypeOK ==
    /\ sched \in Sched /\ run \in [Runs -> Run]
    /\ late \in 0..MaxLate /\ crashes \in 0..MaxCrashes

SchedInit ==
    /\ sched = [enabled |-> TRUE, plugin |-> TRUE, paused |-> FALSE, due |-> FALSE, failures |-> 0,
                token |-> NoClaim, lapsed |-> FALSE]
    /\ run = [r \in Runs |-> [pc |-> "idle", failures |-> 0]]
    /\ late = 0 /\ crashes = 0

-----------------------------------------------------------------------------
Due == sched.enabled /\ sched.plugin /\ ~sched.paused /\ sched.due

(* A tick may come again; a press is one run. *)
Back(r) == [pc |-> IF r \in Ticks THEN "idle" ELSE "over", failures |-> 0]

(* selectDueSchedules *)
SelectDue(r) ==
    /\ r \in Ticks /\ run[r].pc = "idle"
    /\ Due /\ (sched.token = NoClaim \/ sched.lapsed)
    /\ run' = [run EXCEPT ![r] = [pc |-> "listed", failures |-> sched.failures]]
    /\ UNCHANGED <<sched, late, crashes>>

(* runScheduleNow: due or not, paused or not, whatever the plugin is *)
RunNow(r) ==
    /\ r \in Clicks /\ run[r].pc = "idle"
    /\ run' = [run EXCEPT ![r] = [pc |-> "listed", failures |-> sched.failures]]
    /\ UNCHANGED <<sched, late, crashes>>

(* Mutant: a claim that is never given back is never taken over *)
ClaimableReleased == sched.enabled /\ sched.token = NoClaim

(* tryClaimSchedule's condition *)
Claimable == sched.enabled /\ (sched.token = NoClaim \/ sched.lapsed)

TryClaim(r) ==
    /\ run[r].pc = "listed"
    /\ IF Claimable
       THEN /\ run' = [run EXCEPT ![r].pc = "claimed"]
            /\ sched' = [sched EXCEPT !.token = r, !.lapsed = FALSE]
       ELSE run' = [run EXCEPT ![r] = Back(r)] /\ UNCHANGED sched
    /\ UNCHANGED <<late, crashes>>

(* insertScheduleRun, markScheduleRunStarted, runScheduleInWorker *)
CallWorker(r) ==
    /\ run[r].pc = "claimed"
    /\ run' = [run EXCEPT ![r].pc = "called"]
    /\ UNCHANGED <<sched, late, crashes>>

(* The result, the in-VM deadline, or the timer of the call *)
WorkerAnswers(r) ==
    /\ run[r].pc = "called"
    /\ \E outcome \in {"failed", "succeeded"} : run' = [run EXCEPT ![r].pc = outcome]
    /\ UNCHANGED <<sched, late, crashes>>

OneMore(n) == IF n < MaxFailures THEN n + 1 ELSE n

(* recordScheduleRunOutcome, for the row that still has this run's token *)
RecordOutcome(r) ==
    LET ok == run[r].pc = "succeeded"
    IN /\ run[r].pc \in {"failed", "succeeded"}
       /\ run' = [run EXCEPT ![r] = IF ok THEN Back(r) ELSE [@ EXCEPT !.pc = "recorded"]]
       /\ sched' = IF sched.token = r
                   THEN [sched EXCEPT !.token = NoClaim, !.lapsed = FALSE, !.due = FALSE,
                                      !.failures = IF ok THEN 0 ELSE OneMore(@)]
                   ELSE sched
       /\ UNCHANGED <<late, crashes>>

(* The pause after a failure, from the failures that were listed *)
PauseAtCap(r) ==
    /\ run[r].pc = "recorded"
    /\ run' = [run EXCEPT ![r] = Back(r)]
    /\ sched' = [sched EXCEPT !.paused = @ \/ run[r].failures + 1 >= Cap]
    /\ UNCHANGED <<late, crashes>>

-----------------------------------------------------------------------------
BecomesDue == ~sched.due /\ sched' = [sched EXCEPT !.due = TRUE] /\ UNCHANGED <<run, late, crashes>>

Pause == ~sched.paused /\ sched' = [sched EXCEPT !.paused = TRUE] /\ UNCHANGED <<run, late, crashes>>

Resume ==
    /\ sched.paused \/ sched.failures # 0
    /\ sched' = [sched EXCEPT !.paused = FALSE, !.failures = 0]
    /\ UNCHANGED <<run, late, crashes>>

(* upsertPluginSchedule, whenever the plugin is activated: the next run is *)
(* computed anew.  A claim outlives it, and the others below.              *)
Register ==
    /\ ~sched.enabled \/ sched.due
    /\ sched' = [sched EXCEPT !.enabled = TRUE, !.due = FALSE]
    /\ UNCHANGED <<run, late, crashes>>

(* disablePluginSchedule, the sweep of what was not registered again *)
Unregister == sched.enabled /\ sched' = [sched EXCEPT !.enabled = FALSE] /\ UNCHANGED <<run, late, crashes>>

(* The plugin is enabled or disabled *)
TogglePlugin == sched' = [sched EXCEPT !.plugin = ~@] /\ UNCHANGED <<run, late, crashes>>

(* The lease of a claim ends: of one that a crash left behind *)
LostLeaseEnds ==
    /\ sched.token = Lost /\ ~sched.lapsed
    /\ sched' = [sched EXCEPT !.lapsed = TRUE]
    /\ UNCHANGED <<run, late, crashes>>

(* or of a run that takes longer than twice its declared duration *)
LeaseEndsFirst ==
    /\ sched.token \in Runs /\ ~sched.lapsed /\ late < MaxLate
    /\ sched' = [sched EXCEPT !.lapsed = TRUE] /\ late' = late + 1
    /\ UNCHANGED <<run, crashes>>

ServerCrashes ==
    /\ crashes < MaxCrashes /\ crashes' = crashes + 1
    /\ run' = [r \in Runs |-> IF run[r].pc \in {"idle", "over"} THEN run[r] ELSE Back(r)]
    /\ sched' = [sched EXCEPT !.token = IF @ \in Runs THEN Lost ELSE @]
    /\ UNCHANGED late

RunStep(r) ==
    \/ SelectDue(r) \/ TryClaim(r) \/ CallWorker(r) \/ WorkerAnswers(r) \/ RecordOutcome(r) \/ PauseAtCap(r)

SchedNext ==
    \/ \E r \in Runs : RunStep(r) \/ RunNow(r)
    \/ BecomesDue \/ Pause \/ Resume \/ Register \/ Unregister \/ TogglePlugin
    \/ LostLeaseEnds \/ LeaseEndsFirst \/ ServerCrashes

SchedSpec == SchedInit /\ [][SchedNext]_schedVars

(* The scheduler ticks, calls come back (a timer ends those the worker     *)
(* leaves), leases end.                                                    *)
SchedFairness == WF_schedVars(LostLeaseEnds) /\ \A r \in Runs : WF_schedVars(RunStep(r))

-----------------------------------------------------------------------------
(* scheduler.ts "so a crashed worker doesn't deadlock the row": a schedule *)
(* that is due is run and its outcome recorded, unless it is paused, or    *)
(* registered anew or no longer, meanwhile; even if the run that had       *)
(* claimed it was lost to a crash or taken over when its lease ended.      *)
DueSchedulesRun == Due ~> ~Due

=============================================================================
