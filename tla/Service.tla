------------------------------ MODULE Service ------------------------------
(***************************************************************************)
(* The server: the scheduler, the requests, the refreshes both start, and  *)
(* the lifespan that brings them up and down.  The web server takes        *)
(* requests after the startup and lets them finish before the shutdown.    *)
(***************************************************************************)
EXTENDS ProviderRoute, Scheduler

VARIABLE phase    \* where lifespan() is

vars == <<config, callVars, routeVars, schedulerVars, phase>>

Phases == {"off", "starting", "serving", "stopping", "stopped", "failed"}

----------------------------------------------------------------------------
(* lifespan()                                                              *)

StartUp ==
    /\ phase = "off"
    /\ Start
    /\ phase' = IF StartupMode = "blocking" THEN "starting" ELSE "serving"
    /\ UNCHANGED <<config, cache, job, routeVars>>

StartUpDone ==
    /\ phase = "starting"
    /\ StartGathered
    /\ phase' = "serving"
    /\ UNCHANGED <<config, callVars, routeVars>>

(* start() raised: stop(), and the exception ends the server.              *)
StartUpFails ==
    /\ phase = "starting"
    /\ StartRaises
    /\ StopTasks
    /\ phase' = "failed"
    /\ UNCHANGED <<config, routeVars>>

StopScheduler ==
    /\ phase = "serving"
    /\ \A r \in Requests : pc[r] \in {"idle", "done"}
    /\ StopTasks
    /\ Discard
    /\ phase' = "stopping"
    /\ UNCHANGED <<config, pc, next, records, due, missing, status, always, ever>>

StopBackground ==
    /\ phase = "stopping"
    /\ Cancel(background)
    /\ Discard
    /\ phase' = "stopped"
    /\ UNCHANGED <<config, pc, next, records, due, missing, status, always, ever, schedulerVars>>

----------------------------------------------------------------------------
Older ==
    /\ \E s \in Sources : GetsOlder(s)
    /\ Observe
    /\ UNCHANGED <<config, pc, next, records, due, missing, status, background, schedulerVars, phase>>

Handler(r) ==
    /\ phase = "serving"
    /\ Arrive(r) \/ Refuse(r) \/ Handle(r)
    /\ UNCHANGED <<config, schedulerVars, phase>>

Loop(s) ==
    /\ phase = "serving"
    /\ LoopWakes(s) \/ LoopAgain(s)
    /\ UNCHANGED <<config, routeVars, phase>>

Refresh ==
    /\ \/ \E t \in Calls : Begin(t) \/ WaitExpires(t)
       \/ \E s \in Sources : JobEnds(s)
    /\ Discard /\ Observe
    /\ UNCHANGED <<config, pc, next, records, due, missing, status, schedulerVars, phase>>

Ended == phase \in {"stopped", "failed"} /\ UNCHANGED vars

Init ==
    /\ CallsInit /\ RouteInit /\ SchedulerInit
    /\ phase = "off"

Next ==
    \/ StartUp \/ StartUpDone \/ StartUpFails \/ StopScheduler \/ StopBackground
    \/ Older \/ Refresh \/ Ended
    \/ \E r \in Requests : Handler(r)
    \/ \E s \in Sources : Loop(s)

Spec == Init /\ [][Next]_vars

(* The event loop runs what is ready, the timer of a wait included; a      *)
(* refresh may take for ever.                                              *)
LoopFairness ==
    /\ \A r \in Requests :
          WF_vars(phase = "serving" /\ Handle(r) /\ UNCHANGED <<config, schedulerVars, phase>>)
    /\ \A t \in Calls : WF_vars(Begin(t) /\ Refresh)

FairSpec == Spec /\ LoopFairness

CallsEnd == \A s \in Sources : WF_vars(JobEnds(s) /\ Refresh)

----------------------------------------------------------------------------
TypeOK == CallsTypeOK /\ RouteTypeOK /\ SchedulerTypeOK /\ phase \in Phases

(* A call is inside refresh() only as long as a job of its source is in    *)
(* flight, and the owner of that job is inside refresh() itself: nobody    *)
(* waits on a job that no one runs (refresher.py:104-136).                 *)
OwnersAreAlive ==
    /\ \A t \in Calls : call[t] = "running" => job[SourceOf(t)] # NoCall
    /\ \A s \in Sources :
          job[s] # NoCall => SourceOf(job[s]) = s /\ call[job[s]] = "running"

(* An answer takes each place of its route at most once and in order, so   *)
(* no node is served twice although there are two readings; on a route     *)
(* that requires all its sources it takes each (app.py:502-539).           *)
AnswersAreOnePass ==
    \A r \in Requests :
        status[r] = "ok" /\ pc[r] = "audit" =>
            /\ \A i, j \in DOMAIN records[r] : i < j => records[r][i] < records[r][j]
            /\ r \in RequireAll => ToSet(records[r]) = DOMAIN Route[r]

(* An answer holds no node of a record that was expired all the time since *)
(* its reading, the second if there are two, began ("Caches older than     *)
(* cache.max_stale are unavailable even if they can be read"), and it is   *)
(* never without records (app.py:467-476, 524-555).                        *)
NothingExpiredServed ==
    \A r \in Requests :
        status[r] = "ok" /\ pc[r] = "audit" =>
            records[r] # <<>> /\ Collected(r) \subseteq ever[r]

(* A request is turned away only if no source of its route has been valid  *)
(* since its reading began or, where all are required, one has not: what   *)
(* was valid when it came is served, whatever becomes of the refreshes,    *)
(* and so is what they brought in time (app.py:491-555).                   *)
ServesWhatIsValid ==
    \A r \in Requests :
        status[r] = "unavailable" /\ pc[r] = "audit" =>
            \/ RouteSources(r) \cap always[r] = {}
            \/ r \in RequireAll /\ ~(RouteSources(r) \subseteq always[r])

(* A refresh that a request started and that is not done is either awaited *)
(* by the request or known to the shutdown (app.py:411-416, 503-547).      *)
RequestCallsTracked ==
    \A r \in Requests : \A i \in DOMAIN Route[r] :
        call[CallOf(r, i)] \in Live =>
            \/ CallOf(r, i) \in background
            \/ pc[r] = "wait" /\ i \in missing[r]

(* When the lifespan is over no refresh goes on, whoever started it: it    *)
(* would write the cache of a server that is gone (app.py:627-635,         *)
(* scheduler.py:88-98).                                                    *)
NothingRunsAfterStop ==
    phase = "stopped" =>
        /\ \A t \in Calls : call[t] \notin Live
        /\ \A s \in Sources : job[s] = NoCall /\ loop[s] = "off"

(* Every request is answered, even if no refresh ever ends                 *)
(* (app.py:503-505).                                                       *)
RequestsAnswered == \A r \in Requests : pc[r] # "idle" ~> pc[r] = "done"

(* A source found due or missing by a request is refreshed: its call ends, *)
(* unless the server stops first (app.py:486-547).                         *)
DueIsRefreshed ==
    CallsEnd => \A r \in Requests : \A i \in Places :
        i \in due[r] \cup missing[r] ~>
            call[CallOf(r, i)] \notin Live \cup {"none"} \/ phase \in {"stopping", "stopped"}
=============================================================================
