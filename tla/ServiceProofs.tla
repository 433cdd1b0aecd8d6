--------------------------- MODULE ServiceProofs ---------------------------
(***************************************************************************)
(* Theorems about Service for every set of sources and requests and every  *)
(* configuration: the refreshes that share a job have an owner that lives, *)
(* and those a request starts are known to the shutdown, which leaves none *)
(* behind.                                                                 *)
(***************************************************************************)
EXTENDS Service, TLAPS

----------------------------------------------------------------------------
(* The inductive invariant.                                                *)

(* No route names a source twice; else a refresh may be lost (run          *)
(* service_listed_twice).                                                  *)
SourcesOnce ==
    \A c \in Configs, r \in Requests : \A i, j \in DOMAIN c.route[r] :
        c.route[r][i] = c.route[r][j] => i = j

CallTypes ==
    /\ config \in Configs
    /\ call \in [Calls -> CallStates]
    /\ job \in [Sources -> Calls \cup {NoCall}]

HandlerTypes ==
    /\ pc \in [Requests -> PCs] /\ next \in [Requests -> Nat]
    /\ due \in [Requests -> SUBSET Nat] /\ missing \in [Requests -> SUBSET Nat]

LifeTypes ==
    /\ loop \in [Sources -> {"off", "sleep", "refresh"}]
    /\ tasks \subseteq Startup
    /\ phase \in Phases

(* A request puts each place of its route into one set at most.            *)
PlacesOK(r) ==
    /\ due[r] \cup missing[r] \subseteq DOMAIN Route[r] /\ due[r] \cap missing[r] = {}
    /\ pc[r] = "idle" => due[r] \cup missing[r] = {}
    /\ pc[r] = "read" => next[r] \in DOMAIN Route[r] /\ \A i \in due[r] \cup missing[r] : i < next[r]

(* The calls of a request: it makes each once, and tracks those that live. *)
CallsOK(r) ==
    \A s \in Sources, i \in Places :
        /\ call[<<r, s, i>>] # "none" => i \in DOMAIN Route[r] /\ s = Route[r][i]
        /\ pc[r] \in {"idle", "read"} => call[<<r, s, i>>] = "none"
        /\ pc[r] = "yield" => i \in due[r] \/ call[<<r, s, i>>] = "none"
        /\ SourcesOnce /\ call[<<r, s, i>>] \in Live =>
              <<r, s, i>> \in background \/ (pc[r] = "wait" /\ i \in missing[r])

HandlersOK == \A r \in Requests : PlacesOK(r) /\ CallsOK(r)

(* The calls of the scheduler.                                             *)
LoopsOK ==
    \A s \in Sources :
        /\ loop[s] # "refresh" => call[LoopCall(s)] \notin Live
        /\ phase \in {"off", "starting", "stopping", "stopped"} => loop[s] = "off"

StartupOK ==
    /\ phase = "off" => \A t \in Calls : call[t] = "none"
    /\ \A t \in Startup : call[t] \in Live => t \in tasks \/ phase \in {"starting", "failed"}

(* stop() leaves what the requests have started, and the shutdown nothing. *)
StopOK ==
    /\ SourcesOnce /\ phase = "stopping" => \A t \in Calls : call[t] \in Live => t \in background
    /\ SourcesOnce /\ phase = "stopped" => \A t \in Calls : call[t] \notin Live

Types == CallTypes /\ HandlerTypes /\ LifeTypes

ServiceInv == Types /\ OwnersAreAlive /\ HandlersOK /\ LoopsOK /\ StartupOK /\ StopOK

----------------------------------------------------------------------------
(* Calls                                                                   *)

LEMMA CallKinds ==
    /\ \A r \in Requests, s \in Sources, i \in Places :
          <<r, s, i>> \in Calls /\ <<r, s, i>> \notin Startup /\ \A q \in Sources : <<r, s, i>> # LoopCall(q)
    /\ \A t \in Startup : t \in Calls /\ \A q \in Sources : t # LoopCall(q)
    /\ \A s \in Sources : LoopCall(s) \in Calls /\ LoopCall(s)[2] = s
    /\ \A t \in Calls : /\ SourceOf(t) \in Sources
                        /\ \/ t \in Startup
                           \/ \E s \in Sources : t = LoopCall(s)
                           \/ \E r \in Requests, s \in Sources, i \in Places : t = <<r, s, i>>
BY CallerAssumption DEF Calls, Startup, LoopCall, SourceOf

LEMMA RoutePlaces ==
    ASSUME CallTypes, NEW r \in Requests
    PROVE  /\ Route[r] \in Seq(Sources) /\ DOMAIN Route[r] \subseteq Places
           /\ DOMAIN Route[r] = 1..Len(Route[r]) /\ Len(Route[r]) \in Nat
           /\ \A i \in DOMAIN Route[r] : Route[r][i] \in Sources
BY ConfigAssumption DEF CallTypes, Route

(* What moves only calls that live, and leaves them owners that live.      *)
Narrows ==
    /\ CallTypes' /\ OwnersAreAlive'
    /\ \A t \in Calls : call'[t] = call[t] \/ call[t] \in Live

LEMMA EnteredKeeps ==
    ASSUME CallTypes, OwnersAreAlive, NEW t \in Calls, Entered(t), UNCHANGED config
    PROVE  /\ CallTypes' /\ OwnersAreAlive'
           /\ call'[t] = "running" /\ \A u \in Calls : u # t => call'[u] = call[u]
<1>1. call' = [call EXCEPT ![t] = "running"]
  BY DEF Entered
<1>2. call'[t] = "running" /\ \A u \in Calls : u # t => call'[u] = call[u]
  BY <1>1 DEF CallTypes
<1>3. SourceOf(t) \in Sources
  BY CallKinds
<1>4. \A s \in Sources : job'[s] = IF s = SourceOf(t) /\ job[s] = NoCall THEN t ELSE job[s]
  BY <1>3 DEF Entered, CallTypes
<1>5. CallTypes'
  BY <1>1, <1>3 DEF Entered, CallTypes, CallStates
<1>6. OwnersAreAlive'
  <2>1. ASSUME NEW u \in Calls, call'[u] = "running"
        PROVE  job'[SourceOf(u)] # NoCall
    <3>1. CASE u = t
      BY <1>3, <1>4, <3>1, NoCallAssumption
    <3>2. CASE u # t
      BY <1>2, <1>4, <2>1, <3>2, CallKinds, NoCallAssumption DEF OwnersAreAlive
    <3> QED
      BY <3>1, <3>2
  <2>2. ASSUME NEW s \in Sources, job'[s] # NoCall
        PROVE  SourceOf(job'[s]) = s /\ call'[job'[s]] = "running"
    <3>1. CASE s = SourceOf(t) /\ job[s] = NoCall
      BY <1>2, <1>4, <3>1
    <3>2. CASE ~(s = SourceOf(t) /\ job[s] = NoCall)
      <4>1. job'[s] = job[s] /\ job[s] \in Calls
        BY <1>4, <2>2, <3>2 DEF CallTypes
      <4> QED
        BY <1>2, <2>2, <4>1 DEF OwnersAreAlive
    <3> QED
      BY <3>1, <3>2
  <2> QED
    BY <2>1, <2>2 DEF OwnersAreAlive
<1> QED
  BY <1>2, <1>5, <1>6

LEMMA BeginNarrows ==
    ASSUME CallTypes, OwnersAreAlive, NEW t \in Calls, Begin(t), UNCHANGED config
    PROVE  Narrows
BY EnteredKeeps DEF Begin, Narrows, Live

LEMMA WaitNarrows ==
    ASSUME CallTypes, OwnersAreAlive, NEW t \in Calls, WaitExpires(t), UNCHANGED config
    PROVE  Narrows
<1>1. call' = [call EXCEPT ![t] = "returned"] /\ job' = job /\ call[t] = "running"
      /\ job[SourceOf(t)] # t
  BY DEF WaitExpires
<1>2. call'[t] = "returned" /\ \A u \in Calls : u # t => call'[u] = call[u]
  BY <1>1 DEF CallTypes
<1>3. CallTypes'
  BY <1>1 DEF CallTypes, CallStates
<1>4. \A s \in Sources : job[s] # t
  BY <1>1, NoCallAssumption DEF OwnersAreAlive
<1>5. OwnersAreAlive'
  BY <1>1, <1>2, <1>4 DEF OwnersAreAlive, CallTypes
<1> QED
  BY <1>1, <1>2, <1>3, <1>5 DEF Narrows, Live

LEMMA JobEndsNarrows ==
    ASSUME CallTypes, OwnersAreAlive, NEW s \in Sources, JobEnds(s), UNCHANGED config
    PROVE  Narrows
<1>1. PICK o \in {"returned", "raised"} :
        call' = [t \in Calls |-> IF SourceOf(t) = s /\ call[t] = "running" THEN o ELSE call[t]]
  BY DEF JobEnds
<1>2. job' = [job EXCEPT ![s] = NoCall]
  BY DEF JobEnds
<1>3. \A t \in Calls : call'[t] = IF SourceOf(t) = s /\ call[t] = "running" THEN o ELSE call[t]
  BY <1>1
<1>4. \A q \in Sources : job'[q] = IF q = s THEN NoCall ELSE job[q]
  BY <1>2 DEF CallTypes
<1>5. CallTypes'
  BY <1>1, <1>2 DEF CallTypes, CallStates
<1>6. OwnersAreAlive'
  BY <1>3, <1>4, CallKinds DEF OwnersAreAlive, CallTypes
<1> QED
  BY <1>3, <1>5, <1>6 DEF Narrows, Live

LEMMA CancelNarrows ==
    ASSUME CallTypes, OwnersAreAlive, NEW C, Cancel(C), UNCHANGED config
    PROVE  Narrows /\ \A t \in C \cap Calls : call'[t] \notin Live
<1> DEFINE lost == {s \in Sources : job[s] \in C}
           gone(t) == \/ t \in C /\ call[t] \in Live
                      \/ SourceOf(t) \in lost /\ call[t] = "running"
<1>1. /\ call' = [t \in Calls |-> IF gone(t) THEN "cancelled" ELSE call[t]]
      /\ job' = [s \in Sources |-> IF s \in lost THEN NoCall ELSE job[s]]
  BY DEF Cancel
<1>2. \A t \in Calls : call'[t] = IF gone(t) THEN "cancelled" ELSE call[t]
  BY <1>1
<1>3. \A s \in Sources : job'[s] = IF s \in lost THEN NoCall ELSE job[s]
  BY <1>1
<1>4. CallTypes'
  BY <1>1 DEF CallTypes, CallStates
<1>5. OwnersAreAlive'
  BY <1>2, <1>3, CallKinds DEF OwnersAreAlive, CallTypes
<1>6. \A t \in C \cap Calls : call'[t] \notin Live
  BY <1>2 DEF Live
<1>7. \A t \in Calls : call'[t] = call[t] \/ call[t] \in Live
  BY <1>2 DEF Live
<1> QED
  BY <1>4, <1>5, <1>6, <1>7 DEF Narrows

LEMMA CreateKeeps ==
    ASSUME CallTypes, OwnersAreAlive, NEW C, Create(C), \A t \in C \cap Calls : call[t] = "none",
           UNCHANGED <<config, job>>
    PROVE  /\ CallTypes' /\ OwnersAreAlive'
           /\ \A t \in Calls : call'[t] = IF t \in C THEN "created" ELSE call[t]
<1>1. \A t \in Calls : call'[t] = IF t \in C THEN "created" ELSE call[t]
  BY DEF Create
<1>2. CallTypes'
  BY DEF Create, CallTypes, CallStates
<1>3. OwnersAreAlive'
  <2>1. \A t \in Calls : call'[t] = "running" <=> call[t] = "running"
    BY <1>1
  <2> QED
    BY <2>1 DEF OwnersAreAlive, CallTypes
<1> QED
  BY <1>1, <1>2, <1>3

----------------------------------------------------------------------------
(* Steps that narrow the calls                                             *)

(* background_tasks loses only what does not live any more.                *)
StillTracked == \A t \in Calls : t \in background /\ call'[t] \in Live => t \in background'

LEMMA LiveBefore ==
    ASSUME Narrows, NEW t \in Calls
    PROVE  /\ call'[t] \in Live => call[t] \in Live
           /\ call[t] = "none" => call'[t] = "none"
           /\ call'[t] # "none" => call[t] # "none"
BY DEF Narrows, Live

LEMMA HandlersNarrow ==
    ASSUME HandlerTypes, HandlersOK, Narrows, StillTracked, UNCHANGED <<config, pc, next, due, missing>>
    PROVE  HandlerTypes' /\ HandlersOK'
<1>1. HandlerTypes'
  BY DEF HandlerTypes
<1>2. ASSUME NEW r \in Requests
      PROVE  PlacesOK(r)' /\ CallsOK(r)'
  <2>1. PlacesOK(r) /\ CallsOK(r)
    BY DEF HandlersOK
  <2>2. PlacesOK(r)'
    BY <2>1 DEF PlacesOK, Route
  <2>3. ASSUME NEW s \in Sources, NEW i \in Places
        PROVE  /\ call'[<<r, s, i>>] # "none" => i \in DOMAIN Route[r]' /\ s = Route[r][i]'
               /\ pc[r]' \in {"idle", "read"} => call'[<<r, s, i>>] = "none"
               /\ pc[r]' = "yield" => i \in due[r]' \/ call'[<<r, s, i>>] = "none"
               /\ SourcesOnce /\ call'[<<r, s, i>>] \in Live =>
                     <<r, s, i>> \in background' \/ (pc[r]' = "wait" /\ i \in missing[r]')
    <3>1. <<r, s, i>> \in Calls
      BY CallKinds
    <3> QED
      BY <2>1, <3>1, LiveBefore DEF CallsOK, StillTracked, Route
  <2>4. CallsOK(r)'
    BY <2>3 DEF CallsOK
  <2> QED
    BY <2>2, <2>4
<1> QED
  BY <1>1, <1>2 DEF HandlersOK

LEMMA ServiceNarrows ==
    ASSUME ServiceInv, Narrows, StillTracked,
           UNCHANGED <<config, pc, next, due, missing, tasks, loop, phase>>
    PROVE  ServiceInv'
<1>1. CallTypes' /\ LifeTypes' /\ OwnersAreAlive'
  BY DEF ServiceInv, Types, LifeTypes, Narrows
<1>2. HandlerTypes' /\ HandlersOK'
  BY HandlersNarrow DEF ServiceInv, Types
<1>3. \A t \in Calls : /\ call'[t] \in Live => call[t] \in Live
                       /\ call[t] = "none" => call'[t] = "none"
  BY LiveBefore
<1>4. LoopsOK'
  BY <1>3, CallKinds DEF ServiceInv, LoopsOK
<1>5. StartupOK'
  BY <1>3, CallKinds DEF ServiceInv, StartupOK
<1>6. StopOK'
  BY <1>3 DEF ServiceInv, StopOK, StillTracked
<1> QED
  BY <1>1, <1>2, <1>4, <1>5, <1>6 DEF ServiceInv, Types

LEMMA RefreshKeeps ==
    ASSUME ServiceInv, Refresh
    PROVE  ServiceInv'
<1>1. StillTracked
  BY DEF Refresh, Discard, StillTracked
<1>2. UNCHANGED <<config, pc, next, due, missing, tasks, loop, phase>>
  BY DEF Refresh, schedulerVars
<1>3. CallTypes /\ OwnersAreAlive
  BY DEF ServiceInv, Types
<1>4. Narrows
  BY <1>2, <1>3, BeginNarrows, WaitNarrows, JobEndsNarrows DEF Refresh
<1> QED
  BY <1>1, <1>2, <1>4, ServiceNarrows

LEMMA SameKeeps ==
    ASSUME ServiceInv, UNCHANGED <<config, job, call, pc, next, due, missing, background, tasks, loop, phase>>
    PROVE  ServiceInv'
<1>1. CallTypes' /\ OwnersAreAlive'
  BY DEF ServiceInv, Types, CallTypes, OwnersAreAlive
<1>2. Narrows /\ StillTracked
  BY <1>1 DEF Narrows, StillTracked
<1> QED
  BY <1>2, ServiceNarrows

----------------------------------------------------------------------------
(* lifespan()                                                              *)

LEMMA StartUpKeeps ==
    ASSUME ServiceInv, StartUp
    PROVE  ServiceInv'
<1>1. /\ phase = "off" /\ phase' = IF StartupMode = "blocking" THEN "starting" ELSE "serving"
      /\ UNCHANGED <<config, job, pc, next, due, missing, background>>
  BY DEF StartUp, routeVars
<1>2. \A t \in Calls : call[t] = "none"
  BY <1>1 DEF ServiceInv, StartupOK
<1>3. CASE \/ StartupMode = "blocking" /\ StartupCalls /\ UNCHANGED schedulerVars
           \/ StartupMode = "background" /\ StartupCalls /\ tasks' = Startup /\ LoopsStart
  <2>1. Create(Startup)
    BY <1>3 DEF StartupCalls, Create
  <2>2. /\ CallTypes' /\ OwnersAreAlive'
        /\ \A t \in Calls : call'[t] = IF t \in Startup THEN "created" ELSE "none"
    BY <1>1, <1>2, <2>1, CreateKeeps DEF ServiceInv, Types
  <2>3. \/ /\ phase' = "starting" /\ UNCHANGED <<tasks, loop>>
        \/ /\ phase' = "serving" /\ tasks' = Startup
           /\ loop' = [s \in Sources |-> IF s \in LoopSources THEN "sleep" ELSE "off"]
    BY <1>1, <1>3 DEF schedulerVars, LoopsStart
  <2>4. LifeTypes'
    BY <1>1, <2>3 DEF ServiceInv, Types, LifeTypes, Phases
  <2>5. LoopsOK'
    BY <1>1, <2>2, <2>3, CallKinds DEF ServiceInv, LoopsOK, Live, Types, LifeTypes
  <2>6. StartupOK' /\ StopOK'
    BY <1>1, <2>3 DEF StartupOK, StopOK
  <2>7. HandlerTypes' /\ HandlersOK'
    <3>1. HandlerTypes'
      BY <1>1 DEF ServiceInv, Types, HandlerTypes
    <3>2. ASSUME NEW r \in Requests PROVE PlacesOK(r)' /\ CallsOK(r)'
      <4>1. PlacesOK(r)'
        BY <1>1 DEF ServiceInv, HandlersOK, PlacesOK, Route
      <4>2. \A s \in Sources, i \in Places : call'[<<r, s, i>>] = "none"
        BY <2>2, CallKinds
      <4> QED
        BY <4>1, <4>2 DEF CallsOK, Live
    <3> QED
      BY <3>1, <3>2 DEF HandlersOK
  <2> QED
    BY <2>2, <2>4, <2>5, <2>6, <2>7 DEF ServiceInv, Types
<1>4. CASE StartupMode = "skip" /\ LoopsStart /\ UNCHANGED <<tasks, call>>
  <2>1. CallTypes' /\ OwnersAreAlive'
    BY <1>1, <1>4 DEF ServiceInv, Types, CallTypes, OwnersAreAlive
  <2>2. HandlerTypes' /\ HandlersOK'
    BY <1>1, <1>4, <2>1, HandlersNarrow DEF ServiceInv, Types, Narrows, StillTracked
  <2>3. /\ phase' = "serving"
        /\ loop' = [s \in Sources |-> IF s \in LoopSources THEN "sleep" ELSE "off"]
    BY <1>1, <1>4 DEF LoopsStart
  <2>4. LifeTypes'
    BY <1>4, <2>3 DEF ServiceInv, Types, LifeTypes, Phases
  <2>5. LoopsOK'
    BY <1>2, <1>4, <2>3, CallKinds DEF LoopsOK, Live
  <2>6. StartupOK' /\ StopOK'
    BY <1>2, <1>4, <2>3, CallKinds DEF StartupOK, StopOK, Live
  <2> QED
    BY <2>1, <2>2, <2>4, <2>5, <2>6 DEF ServiceInv, Types
<1> QED
  BY <1>3, <1>4 DEF StartUp, Start

LEMMA StartUpDoneKeeps ==
    ASSUME ServiceInv, StartUpDone
    PROVE  ServiceInv'
<1>1. /\ phase = "starting" /\ phase' = "serving" /\ UNCHANGED tasks
      /\ loop' = [s \in Sources |-> IF s \in LoopSources THEN "sleep" ELSE "off"]
      /\ \A t \in Startup : call[t] = "returned"
      /\ UNCHANGED <<config, call, job, pc, next, due, missing, background>>
  BY DEF StartUpDone, StartGathered, LoopsStart, callVars, routeVars
<1>2. CallTypes' /\ OwnersAreAlive'
  BY <1>1 DEF ServiceInv, Types, CallTypes, OwnersAreAlive
<1>3. HandlerTypes' /\ HandlersOK'
  BY <1>1, <1>2, HandlersNarrow DEF ServiceInv, Types, Narrows, StillTracked
<1>4. LifeTypes'
  BY <1>1 DEF ServiceInv, Types, LifeTypes, Phases
<1>5. LoopsOK'
  BY <1>1 DEF ServiceInv, LoopsOK
<1>6. StartupOK' /\ StopOK'
  BY <1>1 DEF StartupOK, StopOK, Live
<1> QED
  BY <1>2, <1>3, <1>4, <1>5, <1>6 DEF ServiceInv, Types

(* stop() cancels the startup refreshes it knows and every loop.           *)
LEMMA StopTasksKeeps ==
    ASSUME ServiceInv, StopTasks, UNCHANGED config
    PROVE  /\ Narrows /\ \A s \in Sources : loop'[s] = "off" /\ call'[LoopCall(s)] \notin Live
           /\ loop' \in [Sources -> {"off", "sleep", "refresh"}] /\ tasks' = tasks
           /\ \A t \in tasks : call'[t] \notin Live
<1> DEFINE C == tasks \cup {LoopCall(s) : s \in Sources}
<1>1. Cancel(C) /\ loop' = [s \in Sources |-> "off"] /\ tasks' = tasks
  BY DEF StopTasks
<1>2. CallTypes /\ OwnersAreAlive /\ tasks \subseteq Calls
  BY CallKinds DEF ServiceInv, Types, LifeTypes
<1> HIDE DEF C
<1>3. Narrows /\ \A t \in C \cap Calls : call'[t] \notin Live
  BY <1>1, <1>2, CancelNarrows
<1>4. tasks \subseteq C /\ \A s \in Sources : LoopCall(s) \in C
  BY DEF C
<1> QED
  BY <1>1, <1>2, <1>3, <1>4, CallKinds

LEMMA StartUpFailsKeeps ==
    ASSUME ServiceInv, StartUpFails
    PROVE  ServiceInv'
<1>1. /\ phase = "starting" /\ phase' = "failed" /\ StopTasks
      /\ UNCHANGED <<config, pc, next, due, missing, background>>
  BY DEF StartUpFails, routeVars
<1>2. /\ Narrows /\ \A s \in Sources : loop'[s] = "off" /\ call'[LoopCall(s)] \notin Live
      /\ loop' \in [Sources -> {"off", "sleep", "refresh"}] /\ tasks' = tasks
  BY <1>1, StopTasksKeeps
<1>3. \A t \in Calls : call'[t] \in Live => call[t] \in Live
  BY <1>2, LiveBefore
<1>4. HandlerTypes' /\ HandlersOK'
  BY <1>1, <1>2, HandlersNarrow DEF ServiceInv, Types, StillTracked
<1>5. LifeTypes'
  BY <1>1, <1>2 DEF ServiceInv, Types, LifeTypes, Phases
<1>6. LoopsOK' /\ StartupOK' /\ StopOK'
  BY <1>1, <1>2 DEF LoopsOK, StartupOK, StopOK
<1> QED
  BY <1>2, <1>4, <1>5, <1>6 DEF ServiceInv, Types, Narrows

(* When no request is under way its refreshes are background tasks; those  *)
(* of the scheduler are cancelled.                                         *)
LEMMA StopSchedulerKeeps ==
    ASSUME ServiceInv, StopScheduler
    PROVE  ServiceInv'
<1>1. /\ phase = "serving" /\ phase' = "stopping" /\ StopTasks /\ Discard
      /\ \A r \in Requests : pc[r] \in {"idle", "done"}
      /\ UNCHANGED <<config, pc, next, due, missing>>
  BY DEF StopScheduler
<1>2. /\ Narrows /\ \A s \in Sources : loop'[s] = "off" /\ call'[LoopCall(s)] \notin Live
      /\ loop' \in [Sources -> {"off", "sleep", "refresh"}] /\ tasks' = tasks
      /\ \A t \in tasks : call'[t] \notin Live
  BY <1>1, StopTasksKeeps
<1>3. StillTracked
  BY <1>1 DEF Discard, StillTracked
<1>4. HandlerTypes' /\ HandlersOK'
  BY <1>1, <1>2, <1>3, HandlersNarrow DEF ServiceInv, Types
<1>5. LifeTypes'
  BY <1>1, <1>2 DEF ServiceInv, Types, LifeTypes, Phases
<1>6. LoopsOK'
  BY <1>2 DEF LoopsOK
<1>7. \A t \in Startup : call'[t] \notin Live
  <2> SUFFICES ASSUME NEW t \in Startup, call'[t] \in Live PROVE FALSE
    OBVIOUS
  <2>1. call[t] \in Live
    BY <1>2, LiveBefore, CallKinds
  <2>2. t \in tasks
    BY <1>1, <2>1 DEF ServiceInv, StartupOK
  <2> QED
    BY <1>2, <2>2
<1>8. StartupOK'
  BY <1>1, <1>7 DEF StartupOK
<1>9. StopOK'
  <2>1. ASSUME SourcesOnce, NEW t \in Calls, call'[t] \in Live
        PROVE  t \in background'
    <3>1. PICK r \in Requests, s \in Sources, i \in Places : t = <<r, s, i>>
      BY <1>2, <1>7, <2>1, CallKinds
    <3>2. call[t] \in Live
      BY <1>2, <2>1, LiveBefore
    <3>3. t \in background
      BY <1>1, <2>1, <3>1, <3>2 DEF ServiceInv, HandlersOK, CallsOK
    <3> QED
      BY <1>3, <2>1, <3>3 DEF StillTracked
  <2> QED
    BY <1>1, <2>1 DEF StopOK
<1> QED
  BY <1>2, <1>4, <1>5, <1>6, <1>8, <1>9 DEF ServiceInv, Types, Narrows

LEMMA StopBackgroundKeeps ==
    ASSUME ServiceInv, StopBackground
    PROVE  ServiceInv'
<1>1. /\ phase = "stopping" /\ phase' = "stopped" /\ Cancel(background) /\ Discard
      /\ UNCHANGED <<config, pc, next, due, missing, tasks, loop>>
  BY DEF StopBackground, schedulerVars
<1>2. Narrows /\ \A t \in background \cap Calls : call'[t] \notin Live
  BY <1>1, CancelNarrows DEF ServiceInv, Types
<1>3. HandlerTypes' /\ HandlersOK'
  BY <1>1, <1>2, HandlersNarrow DEF ServiceInv, Types, Discard, StillTracked
<1>4. LifeTypes'
  BY <1>1 DEF ServiceInv, Types, LifeTypes, Phases
<1>5. \A t \in Calls : call'[t] \in Live => call[t] \in Live
  BY <1>2, LiveBefore
<1>6. LoopsOK' /\ StartupOK'
  BY <1>1, <1>5, CallKinds DEF ServiceInv, LoopsOK, StartupOK
<1>7. StopOK'
  <2>1. ASSUME SourcesOnce, NEW t \in Calls PROVE call'[t] \notin Live
    BY <1>1, <1>2, <1>5, <2>1 DEF ServiceInv, StopOK
  <2> QED
    BY <1>1, <2>1 DEF StopOK
<1> QED
  BY <1>2, <1>3, <1>4, <1>6, <1>7 DEF ServiceInv, Types, Narrows

----------------------------------------------------------------------------
(* The loops                                                               *)

LEMMA LoopKeeps ==
    ASSUME ServiceInv, NEW s \in Sources, Loop(s)
    PROVE  ServiceInv'
<1>1. /\ phase = "serving" /\ UNCHANGED <<config, pc, next, due, missing, background, tasks, phase>>
      /\ LoopWakes(s) \/ LoopAgain(s)
  BY DEF Loop, routeVars, LoopWakes, LoopAgain
<1>2. HandlerTypes'
  BY <1>1 DEF ServiceInv, Types, HandlerTypes
<1>3. \A r \in Requests : PlacesOK(r)'
  BY <1>1 DEF ServiceInv, HandlersOK, PlacesOK, Route
<1>4. CASE LoopWakes(s)
  <2>1. loop[s] = "sleep" /\ Entered(LoopCall(s)) /\ loop' = [loop EXCEPT ![s] = "refresh"]
    BY <1>4 DEF LoopWakes
  <2>2. /\ CallTypes' /\ OwnersAreAlive'
        /\ \A u \in Calls : u # LoopCall(s) => call'[u] = call[u]
    BY <1>1, <2>1, EnteredKeeps, CallKinds DEF ServiceInv, Types
  <2>3. LifeTypes'
    BY <1>1, <2>1 DEF ServiceInv, Types, LifeTypes
  <2>4. ASSUME NEW r \in Requests, NEW q \in Sources, NEW i \in Places
        PROVE  call'[<<r, q, i>>] = call[<<r, q, i>>]
    <3>1. <<r, q, i>> \in Calls /\ <<r, q, i>> # LoopCall(s)
      BY CallKinds
    <3> QED
      BY <2>2, <3>1
  <2>5. ASSUME NEW r \in Requests PROVE CallsOK(r)'
    <3>1. CallsOK(r)
      BY DEF ServiceInv, HandlersOK
    <3> QED
      BY <1>1, <2>4, <3>1 DEF CallsOK, Route
  <2>6. \A q \in Sources : q # s => LoopCall(q) # LoopCall(s)
    BY DEF LoopCall
  <2>7. \A q \in Sources : loop'[q] = IF q = s THEN "refresh" ELSE loop[q]
    BY <2>1 DEF ServiceInv, Types, LifeTypes
  <2>8. LoopsOK'
    BY <1>1, <2>2, <2>6, <2>7, CallKinds DEF ServiceInv, LoopsOK
  <2>9. StartupOK' /\ StopOK'
    BY <1>1, <2>2, CallKinds DEF ServiceInv, StartupOK, StopOK
  <2> QED
    BY <1>2, <1>3, <2>2, <2>3, <2>5, <2>8, <2>9 DEF ServiceInv, Types, HandlersOK
<1>5. CASE LoopAgain(s)
  <2>1. /\ loop[s] = "refresh" /\ call[LoopCall(s)] \notin Live /\ loop' = [loop EXCEPT ![s] = "sleep"]
        /\ UNCHANGED <<call, job>>
    BY <1>5 DEF LoopAgain, callVars
  <2>2. CallTypes' /\ OwnersAreAlive'
    BY <1>1, <2>1 DEF ServiceInv, Types, CallTypes, OwnersAreAlive
  <2>3. LifeTypes'
    BY <1>1, <2>1 DEF ServiceInv, Types, LifeTypes
  <2>4. ASSUME NEW r \in Requests PROVE CallsOK(r)'
    <3>1. CallsOK(r)
      BY DEF ServiceInv, HandlersOK
    <3> QED
      BY <1>1, <2>1, <3>1 DEF CallsOK, Route
  <2>5. LoopsOK'
    BY <1>1, <2>1 DEF ServiceInv, Types, LifeTypes, LoopsOK
  <2>6. StartupOK' /\ StopOK'
    BY <1>1, <2>1 DEF ServiceInv, StartupOK, StopOK
  <2> QED
    BY <1>2, <1>3, <2>2, <2>3, <2>4, <2>5, <2>6 DEF ServiceInv, Types, HandlersOK
<1> QED
  BY <1>1, <1>4, <1>5
----------------------------------------------------------------------------
(* The handler of a request                                                *)

(* A step of one handler leaves the others and their calls alone.          *)
OthersSame(r) ==
    /\ \A q \in Requests \ {r} : /\ pc'[q] = pc[q] /\ next'[q] = next[q]
                                 /\ due'[q] = due[q] /\ missing'[q] = missing[q]
    /\ \A t \in Calls : t[1] # r => call'[t] = call[t]
    /\ background \subseteq background'

LEMMA HandlerFrame ==
    ASSUME ServiceInv, NEW r \in Requests, phase = "serving", UNCHANGED <<config, tasks, loop, phase>>,
           CallTypes', OwnersAreAlive', HandlerTypes', OthersSame(r), PlacesOK(r)', CallsOK(r)'
    PROVE  ServiceInv'
<1>1. LifeTypes'
  BY DEF ServiceInv, Types, LifeTypes
<1>2. ASSUME NEW q \in Requests PROVE PlacesOK(q)' /\ CallsOK(q)'
  <2>1. CASE q = r
    BY <2>1
  <2>2. CASE q # r
    <3>1. PlacesOK(q) /\ CallsOK(q)
      BY DEF ServiceInv, HandlersOK
    <3>2. /\ pc'[q] = pc[q] /\ next'[q] = next[q]
          /\ due'[q] = due[q] /\ missing'[q] = missing[q]
      BY <2>2 DEF OthersSame
    <3>3. ASSUME NEW s \in Sources, NEW i \in Places
          PROVE  call'[<<q, s, i>>] = call[<<q, s, i>>]
      <4>1. <<q, s, i>> \in Calls /\ <<q, s, i>>[1] # r
        BY <2>2, CallKinds
      <4> QED
        BY <4>1 DEF OthersSame
    <3>4. PlacesOK(q)'
      BY <3>1, <3>2 DEF PlacesOK, Route
    <3>5. CallsOK(q)'
      BY <3>1, <3>2, <3>3 DEF CallsOK, Route, OthersSame
    <3> QED
      BY <3>4, <3>5
  <2> QED
    BY <2>1, <2>2
<1>3. /\ \A t \in Startup : call'[t] = call[t]
      /\ \A s \in Sources : call'[LoopCall(s)] = call[LoopCall(s)]
  <2>1. /\ \A t \in Startup : t \in Calls /\ t[1] # r
        /\ \A s \in Sources : LoopCall(s) \in Calls /\ LoopCall(s)[1] # r
    BY CallKinds, CallerAssumption DEF Startup, LoopCall
  <2> QED
    BY <2>1 DEF OthersSame
<1>4. LoopsOK'
  BY <1>3 DEF ServiceInv, LoopsOK
<1>5. StartupOK'
  BY <1>3 DEF ServiceInv, StartupOK
<1>6. StopOK'
  BY DEF StopOK
<1> QED
  BY <1>1, <1>2, <1>4, <1>5, <1>6 DEF ServiceInv, Types, HandlersOK

(* What a step that makes no call needs.                                   *)
LEMMA QuietHandler ==
    ASSUME ServiceInv, NEW r \in Requests, phase = "serving",
           UNCHANGED <<config, tasks, loop, phase, call, job>>, HandlerTypes', OthersSame(r),
           PlacesOK(r)', CallsOK(r)'
    PROVE  ServiceInv'
<1>1. CallTypes' /\ OwnersAreAlive'
  BY DEF ServiceInv, Types, CallTypes, OwnersAreAlive
<1> QED
  BY <1>1, HandlerFrame

LEMMA ArriveKeeps ==
    ASSUME ServiceInv, NEW r \in Requests, phase = "serving", UNCHANGED <<config, tasks, loop, phase>>,
           Arrive(r) \/ Refuse(r)
    PROVE  ServiceInv'
<1>1. PICK p \in {"yield", "read", "audit"}, n \in {1, next[r]} :
        /\ pc' = [pc EXCEPT ![r] = p] /\ next' = [next EXCEPT ![r] = n]
        /\ p = "read" => n = 1 /\ Route[r] # <<>>
  <2>1. CASE Arrive(r)
    BY <2>1 DEF Arrive, Goto
  <2>2. CASE Refuse(r)
    <3>1. next' = [next EXCEPT ![r] = next[r]]
      BY <2>2 DEF Refuse, ServiceInv, Types, HandlerTypes
    <3> QED
      BY <2>2, <3>1 DEF Refuse, Reply, Goto
  <2> QED
    BY <2>1, <2>2
<1>2. pc[r] = "idle" /\ UNCHANGED <<due, missing, background, call, job>>
  BY DEF Arrive, Refuse, callVars
<1>3. HandlerTypes'
  BY <1>1, <1>2 DEF ServiceInv, Types, HandlerTypes, PCs
<1>4. pc'[r] = p /\ next'[r] = n
  BY <1>1 DEF ServiceInv, Types, HandlerTypes
<1>5. OthersSame(r)
  BY <1>1, <1>2 DEF ServiceInv, Types, HandlerTypes, OthersSame
<1>6. PlacesOK(r) /\ CallsOK(r)
  BY DEF ServiceInv, HandlersOK
<1>7. p = "read" => 1 \in DOMAIN Route[r]
  BY <1>1, RoutePlaces DEF ServiceInv, Types
<1>8. PlacesOK(r)'
  BY <1>1, <1>2, <1>4, <1>6, <1>7 DEF PlacesOK, Route
<1>9. CallsOK(r)'
  BY <1>2, <1>6 DEF CallsOK, Live
<1> QED
  BY <1>2, <1>3, <1>5, <1>8, <1>9, QuietHandler

LEMMA ReadKeeps ==
    ASSUME ServiceInv, NEW r \in Requests, phase = "serving", UNCHANGED <<config, tasks, loop, phase>>,
           Read(r)
    PROVE  ServiceInv'
<1> DEFINE i == next[r]
           s == Route[r][i]
<1>1. PlacesOK(r) /\ CallsOK(r) /\ pc[r] = "read"
  BY DEF ServiceInv, HandlersOK, Read
<1>2. CallTypes /\ OwnersAreAlive /\ HandlerTypes
  BY DEF ServiceInv, Types
<1>3. PICK D \in {{}, {i}}, M \in {{}, {i}} :
        /\ D \cap M = {}
        /\ due' = [due EXCEPT ![r] = @ \cup D] /\ missing' = [missing EXCEPT ![r] = @ \cup M]
  <2>1. /\ due' = [due EXCEPT ![r] = IF Valid(s) /\ Due(s) THEN @ \cup {i} ELSE @]
        /\ missing' = [missing EXCEPT ![r] = IF Valid(s) THEN @ ELSE @ \cup {i}]
    BY DEF Read
  <2>2. due[r] = due[r] \cup {} /\ missing[r] = missing[r] \cup {}
    OBVIOUS
  <2>3. CASE Valid(s)
    BY <2>1, <2>2, <2>3
  <2>4. CASE ~Valid(s)
    BY <2>1, <2>2, <2>4
  <2> QED
    BY <2>3, <2>4
<1>4. next' = [next EXCEPT ![r] = i + 1] /\ job' = job
  BY DEF Read, Advance
<1>5. i \in DOMAIN Route[r] /\ i \in Nat /\ Len(Route[r]) \in Nat /\ DOMAIN Route[r] = 1..Len(Route[r])
  BY <1>1, <1>2, RoutePlaces DEF PlacesOK, HandlerTypes
<1>6. /\ due'[r] = due[r] \cup D /\ missing'[r] = missing[r] \cup M /\ next'[r] = i + 1
      /\ \A q \in Requests \ {r} : /\ next'[q] = next[q]
                                   /\ due'[q] = due[q] /\ missing'[q] = missing[q]
  BY <1>2, <1>3, <1>4 DEF HandlerTypes
<1>7. /\ due' \in [Requests -> SUBSET Nat] /\ missing' \in [Requests -> SUBSET Nat]
      /\ next' \in [Requests -> Nat]
  BY <1>2, <1>3, <1>4, <1>5 DEF HandlerTypes
<1>8. /\ due'[r] \cup missing'[r] \subseteq DOMAIN Route[r] /\ due'[r] \cap missing'[r] = {}
      /\ \A j \in due'[r] \cup missing'[r] : j < i + 1
  <2>1. /\ due[r] \cup missing[r] \subseteq DOMAIN Route[r] /\ due[r] \cap missing[r] = {}
        /\ \A j \in due[r] \cup missing[r] : j < i
    BY <1>1 DEF PlacesOK
  <2>2. i \notin due[r] \cup missing[r]
    BY <1>5, <2>1
  <2>3. \A j \in due[r] \cup missing[r] : j < i + 1
    BY <1>5, <2>1
  <2>4. due'[r] \cup missing'[r] \subseteq DOMAIN Route[r] /\ due'[r] \cap missing'[r] = {}
    BY <1>3, <1>5, <1>6, <2>1, <2>2
  <2>5. i < i + 1
    BY <1>5
  <2> QED
    BY <1>3, <1>6, <2>3, <2>4, <2>5
<1> HIDE DEF s
<1>9. CASE ~AtLast(r) /\ UNCHANGED <<pc, call, background>>
  <2>1. i + 1 \in DOMAIN Route[r]
    BY <1>5, <1>9 DEF AtLast
  <2>2. HandlerTypes'
    BY <1>2, <1>7, <1>9 DEF HandlerTypes
  <2>3. OthersSame(r)
    BY <1>6, <1>9 DEF OthersSame
  <2>4. PlacesOK(r)'
    BY <1>1, <1>6, <1>8, <1>9, <2>1 DEF PlacesOK, Route
  <2>5. CallsOK(r)'
    BY <1>1, <1>9 DEF CallsOK, Route, Live
  <2> QED
    BY <1>4, <1>9, <2>2, <2>3, <2>4, <2>5, QuietHandler
<1>10. CASE AtLast(r) /\ Spawn(r, due'[r]) /\ Goto(r, "yield")
  <2>1. pc' = [pc EXCEPT ![r] = "yield"]
    BY <1>10 DEF Goto
  <2>2. HandlerTypes' /\ pc'[r] = "yield" /\ \A q \in Requests \ {r} : pc'[q] = pc[q]
    BY <1>2, <1>7, <2>1 DEF HandlerTypes, PCs
  <2> DEFINE C == CallsOf(r, due'[r])
  <2>3. Create(C) /\ background' = background \cup C
    BY <1>10 DEF Spawn
  <2>4. \A t \in C : \E j \in due'[r] : t = <<r, Route[r][j], j>> /\ Route[r][j] \in Sources /\ j \in Places
    BY <1>2, <1>8, RoutePlaces DEF CallsOf, CallOf
  <2>5. \A j \in due'[r] : <<r, Route[r][j], j>> \in C
    BY DEF CallsOf, CallOf
  <2> HIDE DEF C
  <2>6. \A t \in C \cap Calls : call[t] = "none"
    BY <1>1, <2>4 DEF CallsOK
  <2>7. /\ CallTypes' /\ OwnersAreAlive'
        /\ \A t \in Calls : call'[t] = IF t \in C THEN "created" ELSE call[t]
    BY <1>2, <1>4, <2>3, <2>6, CreateKeeps
  <2>8. OthersSame(r)
    BY <1>6, <2>2, <2>3, <2>4, <2>7 DEF OthersSame
  <2>9. PlacesOK(r)'
    BY <1>8, <2>2 DEF PlacesOK, Route
  <2>10. ASSUME NEW q \in Sources, NEW j \in Places
         PROVE  /\ call'[<<r, q, j>>] # "none" => j \in DOMAIN Route[r] /\ q = Route[r][j] /\ j \in due'[r]
                /\ call'[<<r, q, j>>] \in Live => <<r, q, j>> \in background'
    <3>1. call[<<r, q, j>>] = "none" /\ <<r, q, j>> \in Calls
      BY <1>1, CallKinds DEF CallsOK
    <3>2. <<r, q, j>> \in C => j \in due'[r] /\ q = Route[r][j]
      BY <2>4
    <3> QED
      BY <1>8, <2>3, <2>7, <3>1, <3>2 DEF Live
  <2>11. CallsOK(r)'
    BY <2>2, <2>10 DEF CallsOK, Route
  <2> QED
    BY <2>2, <2>7, <2>8, <2>9, <2>11, HandlerFrame
<1> QED
  BY <1>9, <1>10 DEF Read
LEMMA StartMissingKeeps ==
    ASSUME ServiceInv, NEW r \in Requests, phase = "serving", UNCHANGED <<config, tasks, loop, phase>>,
           StartMissing(r)
    PROVE  ServiceInv'
<1> DEFINE C == CallsOf(r, missing[r])
<1>1. PlacesOK(r) /\ CallsOK(r) /\ pc[r] = "yield"
  BY DEF ServiceInv, HandlersOK, StartMissing
<1>2. CallTypes /\ OwnersAreAlive /\ HandlerTypes
  BY DEF ServiceInv, Types
<1>3. Create(C) /\ UNCHANGED <<next, due, missing, job>>
  BY DEF StartMissing
<1>4. PICK p \in {"wait", "audit"} :
        /\ pc' = [pc EXCEPT ![r] = p]
        /\ p = "wait" => background' = background
        /\ p = "audit" => background' = background \cup C
  BY DEF StartMissing, Goto, Answer, Reply
<1>5. \A t \in C : \E j \in missing[r] : t = <<r, Route[r][j], j>> /\ Route[r][j] \in Sources /\ j \in Places
  BY <1>1, <1>2, RoutePlaces DEF CallsOf, CallOf, PlacesOK
<1> HIDE DEF C
<1>6. \A t \in C \cap Calls : call[t] = "none"
  BY <1>1, <1>5 DEF CallsOK, PlacesOK
<1>7. /\ CallTypes' /\ OwnersAreAlive'
      /\ \A t \in Calls : call'[t] = IF t \in C THEN "created" ELSE call[t]
  BY <1>2, <1>3, <1>6, CreateKeeps
<1>8. HandlerTypes' /\ pc'[r] = p /\ \A q \in Requests \ {r} : pc'[q] = pc[q]
  BY <1>2, <1>3, <1>4 DEF HandlerTypes, PCs
<1>9. OthersSame(r)
  BY <1>3, <1>4, <1>5, <1>7, <1>8 DEF OthersSame
<1>10. PlacesOK(r)'
  BY <1>1, <1>3, <1>8 DEF PlacesOK, Route
<1>11. ASSUME NEW q \in Sources, NEW j \in Places
       PROVE  /\ call'[<<r, q, j>>] # "none" => j \in DOMAIN Route[r] /\ q = Route[r][j]
              /\ SourcesOnce /\ call'[<<r, q, j>>] \in Live =>
                    <<r, q, j>> \in background' \/ (p = "wait" /\ j \in missing[r])
  <2>1. <<r, q, j>> \in Calls
    BY CallKinds
  <2>2. CASE <<r, q, j>> \in C
    <3>1. j \in missing[r] /\ q = Route[r][j]
      BY <1>5, <2>2
    <3> QED
      BY <1>1, <1>4, <2>2, <3>1 DEF PlacesOK
  <2>3. CASE <<r, q, j>> \notin C
    BY <1>1, <1>4, <1>7, <2>1, <2>3 DEF CallsOK
  <2> QED
    BY <2>2, <2>3
<1>12. CallsOK(r)'
  BY <1>3, <1>8, <1>11 DEF CallsOK, Route
<1> QED
  BY <1>7, <1>8, <1>9, <1>10, <1>12, HandlerFrame

(* Of a route that names each source once no refresh is left out of what   *)
(* task_by_source keeps.                                                   *)
LEMMA CollectKeepsCalls ==
    ASSUME ServiceInv, NEW r \in Requests, phase = "serving", UNCHANGED <<config, tasks, loop, phase>>,
           Collect(r)
    PROVE  ServiceInv'
<1>1. PlacesOK(r) /\ CallsOK(r) /\ pc[r] = "wait"
  BY DEF ServiceInv, HandlersOK, Collect
<1>2. CallTypes /\ HandlerTypes
  BY DEF ServiceInv, Types
<1>3. /\ background' = background \cup {t \in TaskBySource(r) : call[t] \in Live}
      /\ next' = [next EXCEPT ![r] = 1] /\ pc' = [pc EXCEPT ![r] = "reread"]
      /\ UNCHANGED <<due, missing, call, job>>
  BY DEF Collect, Goto, callVars
<1>4. HandlerTypes' /\ pc'[r] = "reread"
  BY <1>2, <1>3 DEF HandlerTypes, PCs
<1>5. OthersSame(r)
  BY <1>2, <1>3 DEF HandlerTypes, OthersSame
<1>6. PlacesOK(r)'
  BY <1>1, <1>3, <1>4 DEF PlacesOK, Route
<1>7. ASSUME SourcesOnce, NEW j \in missing[r] PROVE <<r, Route[r][j], j>> \in TaskBySource(r)
  <2>1. \A k \in missing[r] : Route[r][k] = Route[r][j] => k = j
    BY <1>1, <1>2, <1>7 DEF SourcesOnce, PlacesOK, Route, CallTypes
  <2>2. j \in Nat
    BY <1>2 DEF HandlerTypes
  <2>3. j \in {i \in missing[r] : \A k \in missing[r] : Route[r][k] = Route[r][i] => k <= i}
    BY <2>1, <2>2
  <2> QED
    BY <2>3 DEF TaskBySource, CallsOf, CallOf
<1>8. ASSUME SourcesOnce, NEW q \in Sources, NEW j \in Places, call[<<r, q, j>>] \in Live
      PROVE  <<r, q, j>> \in background'
  <2>1. q = Route[r][j]
    BY <1>1, <1>8 DEF CallsOK, Live
  <2>2. CASE <<r, q, j>> \in background
    BY <1>3, <2>2
  <2>3. CASE j \in missing[r]
    BY <1>3, <1>7, <1>8, <2>1, <2>3
  <2> QED
    BY <1>1, <1>8, <2>2, <2>3 DEF CallsOK
<1>9. CallsOK(r)'
  BY <1>1, <1>3, <1>4, <1>8 DEF CallsOK, Route
<1> QED
  BY <1>3, <1>4, <1>5, <1>6, <1>9, QuietHandler

LEMMA RereadKeeps ==
    ASSUME ServiceInv, NEW r \in Requests, phase = "serving", UNCHANGED <<config, tasks, loop, phase>>,
           Reread(r)
    PROVE  ServiceInv'
<1>1. PlacesOK(r) /\ CallsOK(r) /\ pc[r] = "reread"
  BY DEF ServiceInv, HandlersOK, Reread
<1>2. CallTypes /\ HandlerTypes
  BY DEF ServiceInv, Types
<1>3. /\ next' = [next EXCEPT ![r] = next[r] + 1]
      /\ UNCHANGED <<due, missing, background, call, job>>
  BY DEF Reread, Advance, callVars
<1>4. pc' = pc \/ pc' = [pc EXCEPT ![r] = "audit"]
  BY DEF Reread, Answer, Reply, Goto
<1>5. HandlerTypes' /\ pc'[r] \in {"reread", "audit"} /\ \A q \in Requests \ {r} : pc'[q] = pc[q]
  BY <1>1, <1>2, <1>3, <1>4 DEF HandlerTypes, PCs
<1>6. OthersSame(r)
  BY <1>2, <1>3, <1>5 DEF HandlerTypes, OthersSame
<1>7. PlacesOK(r)'
  BY <1>1, <1>3, <1>5 DEF PlacesOK, Route
<1>8. CallsOK(r)'
  BY <1>1, <1>3, <1>5 DEF CallsOK, Route
<1> QED
  BY <1>3, <1>5, <1>6, <1>7, <1>8, QuietHandler

LEMMA AuditKeeps ==
    ASSUME ServiceInv, NEW r \in Requests, phase = "serving", UNCHANGED <<config, tasks, loop, phase>>,
           Audit(r)
    PROVE  ServiceInv'
<1>1. CallsOK(r) /\ pc[r] = "audit"
  BY DEF ServiceInv, HandlersOK, Audit
<1>2. HandlerTypes
  BY DEF ServiceInv, Types
<1>3. /\ pc' = [pc EXCEPT ![r] = "done"] /\ next' = [next EXCEPT ![r] = 0]
      /\ due' = [due EXCEPT ![r] = {}] /\ missing' = [missing EXCEPT ![r] = {}]
      /\ UNCHANGED <<background, call, job>>
  BY DEF Audit, Goto, callVars
<1>4. HandlerTypes' /\ pc'[r] = "done" /\ due'[r] = {} /\ missing'[r] = {}
  BY <1>2, <1>3 DEF HandlerTypes, PCs
<1>5. OthersSame(r)
  BY <1>2, <1>3 DEF HandlerTypes, OthersSame
<1>6. PlacesOK(r)'
  BY <1>4 DEF PlacesOK
<1>7. CallsOK(r)'
  BY <1>1, <1>3, <1>4 DEF CallsOK, Route
<1> QED
  BY <1>3, <1>4, <1>5, <1>6, <1>7, QuietHandler

----------------------------------------------------------------------------
(* The theorems                                                            *)

LEMMA InitInv == Init => ServiceInv
<1> SUFFICES ASSUME Init PROVE ServiceInv
  OBVIOUS
<1>1. \A t \in Calls : call[t] = "none"
  BY DEF Init, CallsInit
<1>2. CallTypes /\ OwnersAreAlive
  BY <1>1 DEF Init, CallsInit, CallTypes, CallStates, OwnersAreAlive
<1>3. HandlerTypes
  BY DEF Init, RouteInit, HandlerTypes, PCs
<1>4. LifeTypes
  BY DEF Init, SchedulerInit, LifeTypes, Phases
<1>5. ASSUME NEW r \in Requests PROVE PlacesOK(r) /\ CallsOK(r)
  <2>1. pc[r] = "idle" /\ due[r] = {} /\ missing[r] = {}
    BY DEF Init, RouteInit
  <2>2. \A s \in Sources, i \in Places : call[<<r, s, i>>] = "none"
    BY <1>1, CallKinds
  <2> QED
    BY <2>1, <2>2 DEF PlacesOK, CallsOK, Live
<1>6. LoopsOK /\ StartupOK /\ StopOK
  BY <1>1, CallKinds DEF Init, SchedulerInit, LoopsOK, StartupOK, StopOK, Live
<1> QED
  BY <1>2, <1>3, <1>4, <1>5, <1>6 DEF ServiceInv, Types, HandlersOK

LEMMA StepInv == ServiceInv /\ [Next]_vars => ServiceInv'
<1> SUFFICES ASSUME ServiceInv, [Next]_vars PROVE ServiceInv'
  OBVIOUS
<1>1. CASE UNCHANGED vars
  BY <1>1, SameKeeps DEF vars, callVars, routeVars, schedulerVars
<1>2. CASE StartUp \/ StartUpDone \/ StartUpFails
  BY <1>2, StartUpKeeps, StartUpDoneKeeps, StartUpFailsKeeps
<1>3. CASE StopScheduler \/ StopBackground
  BY <1>3, StopSchedulerKeeps, StopBackgroundKeeps
<1>4. CASE Older
  BY <1>4, SameKeeps DEF Older, GetsOlder, schedulerVars
<1>5. CASE Refresh
  BY <1>5, RefreshKeeps
<1>6. ASSUME NEW r \in Requests, Handler(r) PROVE ServiceInv'
  <2>1. phase = "serving" /\ UNCHANGED <<config, tasks, loop, phase>>
    BY <1>6 DEF Handler, schedulerVars
  <2> QED
    BY <1>6, <2>1, ArriveKeeps, ReadKeeps, StartMissingKeeps, CollectKeepsCalls, RereadKeeps, AuditKeeps
       DEF Handler, Handle
<1>7. ASSUME NEW s \in Sources, Loop(s) PROVE ServiceInv'
  BY <1>7, LoopKeeps
<1> QED
  BY <1>1, <1>2, <1>3, <1>4, <1>5, <1>6, <1>7 DEF Next, Ended

LEMMA Invariance == Spec => []ServiceInv
BY InitInv, StepInv, PTL DEF Spec

(* What the scheduler has started and is not done: a loop awaits its own   *)
(* call; a startup call is among _tasks, or gather() awaits it, or start() *)
(* raised and ended the server (scheduler.py:40-98).                       *)
SchedulerCallsKept ==
    /\ \A s \in Sources : call[LoopCall(s)] \in Live => loop[s] = "refresh"
    /\ \A t \in Startup : call[t] \in Live => t \in tasks \/ phase \in {"starting", "failed"}

(* A call inside refresh() has a job of its source in flight, a job has an *)
(* owner that is inside refresh() itself, and the calls of the scheduler   *)
(* are awaited or known to stop(): whatever ends a job, and whoever is     *)
(* cancelled, none is left to block its source (refresher.py:104-136).     *)
THEOREM OwnersStayAlive == Spec => [](OwnersAreAlive /\ SchedulerCallsKept)
<1>1. ServiceInv => OwnersAreAlive /\ SchedulerCallsKept
  <2> SUFFICES ASSUME ServiceInv PROVE OwnersAreAlive /\ SchedulerCallsKept
    OBVIOUS
  <2>1. SchedulerCallsKept
    BY DEF ServiceInv, LoopsOK, StartupOK, SchedulerCallsKept
  <2> QED
    BY <2>1 DEF ServiceInv
<1> QED
  BY <1>1, Invariance, PTL

(* Where no route names a source twice, a refresh that a request started   *)
(* and that goes on is known to the handler or to the shutdown             *)
(* (app.py:411-416, 503-547).                                              *)
THEOREM CallsAreTracked ==
    ASSUME SourcesOnce
    PROVE  Spec => []RequestCallsTracked
<1>1. ServiceInv => RequestCallsTracked
  <2> SUFFICES ASSUME ServiceInv, NEW r \in Requests, NEW i \in DOMAIN Route[r],
                      call[CallOf(r, i)] \in Live
               PROVE  CallOf(r, i) \in background \/ (pc[r] = "wait" /\ i \in missing[r])
    BY DEF RequestCallsTracked
  <2>1. Route[r][i] \in Sources /\ i \in Places
    BY RoutePlaces DEF ServiceInv, Types
  <2> QED
    BY <2>1 DEF ServiceInv, HandlersOK, CallsOK, CallOf
<1> QED
  BY <1>1, Invariance, PTL

(* Where no route names a source twice, nothing is refreshed after the     *)
(* lifespan: neither by the scheduler nor for a request, the ones that     *)
(* outlived their requests included (app.py:627-635, scheduler.py:88-98).  *)
THEOREM ShutdownLeavesNothing ==
    ASSUME SourcesOnce
    PROVE  Spec => []NothingRunsAfterStop
<1>1. ServiceInv => NothingRunsAfterStop
  <2> SUFFICES ASSUME ServiceInv, phase = "stopped"
               PROVE  /\ \A t \in Calls : call[t] \notin Live
                      /\ \A s \in Sources : job[s] = NoCall /\ loop[s] = "off"
    BY DEF NothingRunsAfterStop
  <2>1. \A t \in Calls : call[t] \notin Live
    BY DEF ServiceInv, StopOK
  <2>2. \A s \in Sources : loop[s] = "off"
    BY DEF ServiceInv, LoopsOK
  <2>3. ASSUME NEW s \in Sources PROVE job[s] = NoCall
    BY <2>1 DEF ServiceInv, Types, CallTypes, OwnersAreAlive, Live
  <2> QED
    BY <2>1, <2>2, <2>3
<1> QED
  BY <1>1, Invariance, PTL
=============================================================================
