----------------------------- MODULE Scheduler -----------------------------
(***************************************************************************)
(* RefreshScheduler: the startup refresh, a loop per source that sleeps    *)
(* until its next target and then refreshes, and stop().  One loop stands  *)
(* for the interval and the cron expressions of its source.                *)
(*                                                                         *)
(* A definition that says "Variant" is a fault put into the one after it;  *)
(* no other definition uses it.                                            *)
(***************************************************************************)
EXTENDS RefreshCalls

VARIABLES
    tasks,     \* the startup calls among _tasks
    loop       \* per source, its loop: "off", "sleep" or "refresh"

schedulerVars == <<tasks, loop>>

LoopSources == config.loops
StartupMode == config.startup

Startup == {<<"startup", s, 1>> : s \in Sources}
LoopCall(s) == <<"loop", s, 1>>

LoopsStart ==
    loop' = [s \in Sources |-> IF s \in LoopSources THEN "sleep" ELSE "off"]

StartupCalls ==
    call' = [t \in Calls |-> IF t \in Startup THEN "created" ELSE call[t]]

----------------------------------------------------------------------------
(* start(): with blocking startup, up to the end of the gather; else to    *)
(* its end.                                                                *)
Start ==
    \/ /\ StartupMode = "blocking"
       /\ StartupCalls
       /\ UNCHANGED schedulerVars
    \/ /\ StartupMode = "background"
       /\ StartupCalls
       /\ tasks' = Startup
       /\ LoopsStart
    \/ /\ StartupMode = "skip"
       /\ LoopsStart
       /\ UNCHANGED <<tasks, call>>

(* gather() has all results.                                               *)
StartGathered ==
    /\ \A t \in Startup : call[t] = "returned"
    /\ LoopsStart
    /\ UNCHANGED tasks

(* gather() raises as soon as one refresh does; the others go on.          *)
StartRaises == \E t \in Startup : call[t] = "raised"

\* Variant: the loops only see _stopping when they wake up.
StopSleepers ==
    /\ Cancel(tasks)
    /\ loop' = [s \in Sources |-> "off"]
    /\ UNCHANGED tasks

(* stop(): every task in _tasks is cancelled and awaited.                  *)
StopTasks ==
    /\ Cancel(tasks \cup {LoopCall(s) : s \in Sources})
    /\ loop' = [s \in Sources |-> "off"]
    /\ UNCHANGED tasks

----------------------------------------------------------------------------
(* _interval_loop() and _cron_loop()                                       *)

(* The sleep, which includes the jitter, is over.                          *)
LoopWakes(s) ==
    /\ loop[s] = "sleep"
    /\ Entered(LoopCall(s))
    /\ loop' = [loop EXCEPT ![s] = "refresh"]
    /\ UNCHANGED <<cache, tasks>>

(* The refresh returned or raised; the loop sleeps until its next target.  *)
LoopAgain(s) ==
    /\ loop[s] = "refresh" /\ call[LoopCall(s)] \notin Live
    /\ loop' = [loop EXCEPT ![s] = "sleep"]
    /\ UNCHANGED <<callVars, tasks>>

SchedulerInit ==
    /\ tasks = {}
    /\ loop = [s \in Sources |-> "off"]

SchedulerTypeOK ==
    /\ tasks \subseteq Calls
    /\ loop \in [Sources -> {"off", "sleep", "refresh"}]
=============================================================================
