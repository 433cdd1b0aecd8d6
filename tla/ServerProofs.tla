---------------------------- MODULE ServerProofs ----------------------------
(***************************************************************************)
(* Theorems about Server: the audit store, for every set of events, hour   *)
(* and retention; the loops of the scheduler, for every interval and       *)
(* jitter; and what clients get, for every configuration, set of records   *)
(* and order of requests.                                                  *)
(***************************************************************************)
EXTENDS Server, RecordProofs

----------------------------------------------------------------------------
(* The audit store.  The worker threads of record() clean up an hour apart *)
(* and delete no event that retention still covers.                        *)
(*                                                                         *)
(* The inductive invariant: one thread is inside the lock, and the time it *)
(* took before it waited is an hour past the last clean-up and not in the  *)
(* future.                                                                 *)

AuditTypes ==
    /\ now \in Nat /\ lastCleanup \in Nat
    /\ writer \in [Events -> WriterStates]
    /\ visited \in [Events -> Nat] /\ asked \in [Events -> Nat]

AskedBefore == \A e \in Events : asked[e] <= now

OneCleaner ==
    \A e \in Events : writer[e] \in {"sweep", "swept"} =>
        cleaner = e /\ asked[e] - lastCleanup >= Hour

AnswersToRequests ==
    /\ DOMAIN answer = Events /\ DOMAIN request = Events
    /\ \A e \in Events : ~Sent(e) => ~Answered(e)

AuditInv ==
    /\ AuditTypes
    /\ AskedBefore
    /\ OneCleaner
    /\ AnswersToRequests
    /\ EventsAreKept

----------------------------------------------------------------------------
(* Init establishes the invariant.                                         *)
LEMMA AuditInitially == Init => AuditInv
<1> SUFFICES ASSUME Init PROVE AuditInv
  OBVIOUS
<1>1. AuditTypes /\ AskedBefore /\ OneCleaner
  BY TimeAssumption, AuditAssumption
  DEF Init, AuditInit, AuditTypes, AskedBefore, OneCleaner, WriterStates
<1>2. /\ DOMAIN answer = Events /\ DOMAIN request = Events
      /\ \A e \in Events : answer[e] = Unanswered
  BY DEF Init, Requests
<1>3. \A e \in Events : ~Answered(e)
  BY <1>2 DEF Answered, Unanswered
<1> QED
  BY <1>1, <1>2, <1>3 DEF AuditInv, AnswersToRequests, EventsAreKept, Requests

(* A step that leaves the store alone keeps the invariant.                 *)
LEMMA AuditIdle ==
    ASSUME AuditInv, UNCHANGED auditVars, UNCHANGED serverVars,
           now' \in Nat, now' >= now
    PROVE  AuditInv'
<1> USE DEF auditVars, serverVars
<1>1. AuditTypes' /\ AskedBefore' /\ OneCleaner'
  BY DEF AuditInv, AuditTypes, AskedBefore, OneCleaner
<1>2. AnswersToRequests'
  BY DEF AuditInv, AnswersToRequests, Sent, Answered
<1>3. EventsAreKept'
  BY AuditAssumption DEF AuditInv, AuditTypes, EventsAreKept, Requests, Answered
<1> QED
  BY <1>1, <1>2, <1>3 DEF AuditInv

(* So does a request, which comes before its answer.                       *)
LEMMA AuditArrives ==
    ASSUME AuditInv, NEW r \in Events, NEW sent, Arrives(r, sent)
    PROVE  AuditInv'
<1> USE DEF Arrives
<1>1. ~Answered(r)
  BY DEF AuditInv, AnswersToRequests
<1>2. AuditTypes' /\ AskedBefore' /\ OneCleaner'
  BY DEF AuditInv, AuditTypes, AskedBefore, OneCleaner
<1>3. AnswersToRequests'
  BY <1>1 DEF AuditInv, AnswersToRequests, Sent, Answered
<1>4. ASSUME NEW e \in Events, e # r
      PROVE  visited'[e] = visited[e]
  BY <1>4 DEF AuditInv, AuditTypes
<1>5. EventsAreKept'
  BY <1>1, <1>4 DEF AuditInv, EventsAreKept, Requests, Answered
<1> QED
  BY <1>2, <1>3, <1>5 DEF AuditInv

(* A thread's step moves it on and nobody else.                            *)
LEMMA GoesOne ==
    ASSUME AuditTypes, NEW r \in Events, NEW s \in WriterStates, Goes(r, s)
    PROVE  /\ writer' \in [Events -> WriterStates]
           /\ writer'[r] = s
           /\ \A e \in Events : e # r => writer'[e] = writer[e]
BY DEF AuditTypes, Goes

(* An answer is kept in mind until its thread has inserted the event.      *)
LEMMA AuditAnswerRoute ==
    ASSUME AuditInv, NEW r \in Events, AnswerRoute(r)
    PROVE  AuditInv'
<1>1. PICK a : answer' = [answer EXCEPT ![r] = a]
  BY DEF AnswerRoute
<1>2. \A e \in Events : e # r => answer'[e] = answer[e]
  BY <1>1 DEF AuditInv, AnswersToRequests
<1>3. /\ Goes(r, IF setup.log THEN "insert" ELSE "end")
      /\ visited' = [visited EXCEPT ![r] = visited[r]] \/ UNCHANGED visited
      /\ UNCHANGED <<asked, events, lost, lastCleanup, cleaner, now, request, setup>>
      /\ Sent(r)
  BY DEF AnswerRoute, RecordEvent, Record
<1>4. visited' = visited
  BY <1>3 DEF AuditInv, AuditTypes
<1>5. /\ writer' \in [Events -> WriterStates]
      /\ writer'[r] = IF setup.log THEN "insert" ELSE "end"
      /\ \A e \in Events : e # r => writer'[e] = writer[e]
  BY <1>3, GoesOne DEF AuditInv, WriterStates
<1>6. AuditTypes' /\ AskedBefore' /\ OneCleaner'
  BY <1>3, <1>4, <1>5 DEF AuditInv, AuditTypes, AskedBefore, OneCleaner
<1>7. AnswersToRequests'
  BY <1>1, <1>2, <1>3 DEF AuditInv, AnswersToRequests, Sent, Answered
<1>8. EventsAreKept'
  BY <1>2, <1>3, <1>4, <1>5 DEF AuditInv, EventsAreKept, Requests, Answered
<1> QED
  BY <1>6, <1>7, <1>8 DEF AuditInv

(* An answer of no route is not recorded, and need not be.                 *)
LEMMA AuditAnswerElse ==
    ASSUME AuditInv, NEW r \in Events, AnswerElse(r)
    PROVE  AuditInv'
<1>1. PICK s : answer' = [answer EXCEPT ![r] = [Unanswered EXCEPT !.status = s]]
  BY DEF AnswerElse
<1>2. answer'[r].route = 0
  BY <1>1 DEF AuditInv, AnswersToRequests, Unanswered
<1>3. \A e \in Events : e # r => answer'[e] = answer[e]
  BY <1>1 DEF AuditInv, AnswersToRequests
<1>4. /\ Goes(r, "end") /\ Sent(r)
      /\ UNCHANGED <<visited, asked, events, lost, lastCleanup, cleaner, now, request, setup>>
  BY DEF AnswerElse, Goes
<1>5. /\ writer' \in [Events -> WriterStates] /\ writer'[r] = "end"
      /\ \A e \in Events : e # r => writer'[e] = writer[e]
  BY <1>4, GoesOne DEF AuditInv, WriterStates
<1>6. AuditTypes' /\ AskedBefore' /\ OneCleaner'
  BY <1>4, <1>5 DEF AuditInv, AuditTypes, AskedBefore, OneCleaner
<1>7. AnswersToRequests'
  BY <1>1, <1>3, <1>4 DEF AuditInv, AnswersToRequests, Sent, Answered
<1>8. EventsAreKept'
  BY <1>2, <1>3, <1>4, <1>5 DEF AuditInv, EventsAreKept, Requests, Answered
<1> QED
  BY <1>6, <1>7, <1>8 DEF AuditInv

----------------------------------------------------------------------------
(* The steps of the threads.                                               *)

(* What a step of r's thread other than a sweep has to show.               *)
LEMMA AuditThread ==
    ASSUME AuditInv, NEW r \in Events, NEW s \in WriterStates \ {"none", "insert"},
           Goes(r, s), UNCHANGED <<now, serverVars, visited>>,
           AuditTypes', AskedBefore', OneCleaner',
           events \subseteq events', lost \subseteq lost',
           writer[r] = "insert" => r \in events' \cup lost',
           writer[r] # "none"
    PROVE  AuditInv'
<1> USE DEF serverVars
<1>1. AnswersToRequests'
  BY DEF AuditInv, AnswersToRequests, Sent, Answered
<1>2. /\ writer'[r] = s
      /\ \A e \in Events : e # r => writer'[e] = writer[e]
  BY GoesOne DEF AuditInv
<1>3. EventsAreKept'
  BY <1>2 DEF AuditInv, EventsAreKept, Requests, Answered
<1> QED
  BY <1>1, <1>3 DEF AuditInv

(* The event is inserted or lost, or the thread looks at the clock.        *)
LEMMA AuditRecords ==
    ASSUME AuditInv, NEW r \in Events, UNCHANGED <<now, serverVars>>,
           Insert(r) \/ InsertFails(r) \/ Check(r)
    PROVE  AuditInv'
<1> USE DEF WriterStates
<1>1. CASE Insert(r)
  <2>1. AuditTypes' /\ AskedBefore' /\ OneCleaner'
    BY <1>1, GoesOne DEF Insert, AuditInv, AuditTypes, AskedBefore, OneCleaner
  <2> QED
    BY <1>1, <2>1, AuditThread DEF Insert
<1>2. CASE InsertFails(r)
  <2>1. AuditTypes' /\ AskedBefore' /\ OneCleaner'
    BY <1>2, GoesOne DEF InsertFails, AuditInv, AuditTypes, AskedBefore, OneCleaner
  <2> QED
    BY <1>2, <2>1, AuditThread DEF InsertFails
<1>3. CASE Check(r)
  <2> DEFINE s == IF now - lastCleanup >= Hour THEN "wait" ELSE "end"
  <2>1. Goes(r, s) /\ s \in {"wait", "end"}
    BY <1>3 DEF Check
  <2>2. /\ writer' \in [Events -> WriterStates] /\ writer'[r] \in {"wait", "end"}
        /\ \A e \in Events : e # r => writer'[e] = writer[e]
    BY <2>1, GoesOne DEF AuditInv
  <2>3. /\ asked' \in [Events -> Nat] /\ asked'[r] = now
        /\ \A e \in Events : e # r => asked'[e] = asked[e]
    BY <1>3 DEF Check, AuditInv, AuditTypes
  <2>4. AuditTypes' /\ AskedBefore' /\ OneCleaner'
    BY <1>3, <2>2, <2>3 DEF Check, AuditInv, AuditTypes, AskedBefore, OneCleaner
  <2> QED
    BY <1>3, <2>1, <2>4, AuditThread DEF Check
<1> QED
  BY <1>1, <1>2, <1>3

(* The lock is free for one thread, which looks again.                     *)
LEMMA AuditAcquire ==
    ASSUME AuditInv, NEW r \in Events, UNCHANGED <<now, serverVars>>, Acquire(r)
    PROVE  AuditInv'
<1> USE DEF WriterStates
<1> DEFINE s == IF asked[r] - lastCleanup >= Hour THEN "sweep" ELSE "end"
<1>1. Goes(r, s) /\ s \in {"sweep", "end"}
  BY DEF Acquire
<1>2. /\ writer' \in [Events -> WriterStates] /\ writer'[r] = s
      /\ \A e \in Events : e # r => writer'[e] = writer[e]
  BY <1>1, GoesOne DEF AuditInv
<1>3. \A e \in Events : writer[e] \notin {"sweep", "swept"}
  BY AuditAssumption DEF Acquire, AuditInv, OneCleaner
<1>4. OneCleaner'
  BY <1>2, <1>3 DEF Acquire, OneCleaner
<1>5. AuditTypes' /\ AskedBefore'
  BY <1>2 DEF Acquire, AuditInv, AuditTypes, AskedBefore
<1> QED
  BY <1>1, <1>4, <1>5, AuditThread DEF Acquire

(* The thread inside the lock leaves it, with or without success.          *)
LEMMA AuditLeaves ==
    ASSUME AuditInv, NEW r \in Events, UNCHANGED <<now, serverVars>>,
           SweepFails(r) \/ Swept(r)
    PROVE  AuditInv'
<1> USE DEF WriterStates
<1>1. Goes(r, "end") /\ UNCHANGED <<visited, asked, events, lost>>
  BY DEF SweepFails, Swept
<1>2. /\ writer' \in [Events -> WriterStates] /\ writer'[r] = "end"
      /\ \A e \in Events : e # r => writer'[e] = writer[e]
  BY <1>1, GoesOne DEF AuditInv
<1>3. writer[r] \in {"sweep", "swept"} /\ cleaner = r
  BY DEF SweepFails, Swept, AuditInv, OneCleaner
<1>4. OneCleaner'
  BY <1>2, <1>3 DEF AuditInv, OneCleaner
<1>5. lastCleanup' \in Nat
  BY DEF SweepFails, Swept, AuditInv, AuditTypes
<1>6. AuditTypes' /\ AskedBefore'
  BY <1>1, <1>2, <1>5 DEF AuditInv, AuditTypes, AskedBefore
<1> QED
  BY <1>1, <1>3, <1>4, <1>6, AuditThread

(* A sweep deletes what is past retention at a time that is not to come.   *)
LEMMA AuditSweep ==
    ASSUME AuditInv, NEW r \in Events, UNCHANGED <<now, serverVars>>, Sweep(r)
    PROVE  AuditInv'
<1> USE DEF serverVars, WriterStates
<1>1. Goes(r, "swept") /\ UNCHANGED <<visited, asked, lost, lastCleanup, cleaner>>
  BY DEF Sweep
<1>2. /\ writer' \in [Events -> WriterStates] /\ writer'[r] = "swept"
      /\ \A e \in Events : e # r => writer'[e] = writer[e]
  BY <1>1, GoesOne DEF AuditInv
<1>3. AuditTypes' /\ AskedBefore' /\ OneCleaner'
  BY <1>1, <1>2 DEF Sweep, AuditInv, AuditTypes, AskedBefore, OneCleaner
<1>4. AnswersToRequests'
  BY DEF AuditInv, AnswersToRequests, Sent, Answered
<1>5. ASSUME NEW e \in Events, e \in events, e \notin events'
      PROVE  visited[e] + Retention < now
  <2>1. ~(visited[e] >= asked[r] - Retention)
    BY <1>5 DEF Sweep
  <2>2. asked[r] <= now
    BY DEF AuditInv, AskedBefore
  <2> QED
    BY <2>1, <2>2, AuditAssumption DEF AuditInv, AuditTypes
<1>6. EventsAreKept'
  BY <1>1, <1>2, <1>5 DEF Sweep, AuditInv, EventsAreKept, Requests, Answered
<1> QED
  BY <1>3, <1>4, <1>6 DEF AuditInv

LEMMA AuditStepKeeps ==
    ASSUME AuditInv, Audit
    PROVE  AuditInv'
BY AuditRecords, AuditAcquire, AuditSweep, AuditLeaves DEF Audit, AuditStep

(* Every step keeps the invariant.                                         *)
LEMMA AuditNext == AuditInv /\ [Next]_vars => AuditInv'
<1> SUFFICES ASSUME AuditInv, [Next]_vars PROVE AuditInv'
  OBVIOUS
<1>1. CASE Time
  BY <1>1, AuditIdle DEF Time, Tick, AuditInv, AuditTypes, serverVars, auditVars
<1>2. CASE Audit
  BY <1>2, AuditStepKeeps
<1>3. CASE Loop
  BY <1>3, AuditIdle DEF Loop, AuditInv, AuditTypes
<1>4. ASSUME NEW r \in Requests, Request(r) \/ AnswerElse(r) \/ AnswerRoute(r)
      PROVE  AuditInv'
  BY <1>4, AuditArrives, AuditAnswerElse, AuditAnswerRoute DEF Request, Requests
<1>5. ASSUME NEW r \in Requests, NEW first \in Requests, Follow(r, first)
      PROVE  AuditInv'
  BY <1>5, AuditArrives DEF Follow, Requests
<1>6. CASE UNCHANGED vars
  BY <1>6, AuditIdle DEF vars, AuditInv, AuditTypes
<1> QED
  BY <1>1, <1>2, <1>3, <1>4, <1>5, <1>6 DEF Next

LEMMA AuditAlways == Spec => []AuditInv
BY AuditInitially, AuditNext, PTL DEF Spec

----------------------------------------------------------------------------
(* Every request a route answered is on record until it is past retention, *)
(* whichever threads clean up meanwhile (record() and _cleanup_locked).    *)
THEOREM EventsKept == Spec => []EventsAreKept
<1>1. AuditInv => EventsAreKept
  BY DEF AuditInv
<1> QED
  BY <1>1, AuditAlways, PTL

(* Two clean-ups that succeed are an hour apart: the second look of        *)
(* record() at _last_cleanup_ms, with the lock, is enough.                 *)
THEOREM CleanupsStayApart == Spec => CleanupsApart
<1>1. ASSUME AuditInv, Next, lastCleanup' # lastCleanup
      PROVE  lastCleanup' >= lastCleanup + Hour
  <2>1. PICK r \in Events : Swept(r)
    BY <1>1 DEF Next, Time, Audit, AuditStep, Loop, Request, AnswerElse, AnswerRoute,
                RecordEvent, Record, Follow, Arrives, auditVars, Insert, InsertFails, Check, Acquire,
                Sweep, SweepFails
  <2>2. lastCleanup' = asked[r] /\ asked[r] - lastCleanup >= Hour
    BY <1>1, <2>1 DEF Swept, AuditInv, OneCleaner
  <2> QED
    BY <1>1, <2>2, AuditAssumption DEF AuditInv, AuditTypes
<1>2. AuditInv /\ [Next]_vars => [lastCleanup' # lastCleanup =>
                                    lastCleanup' >= lastCleanup + Hour]_vars
  BY <1>1
<1> QED
  BY <1>2, AuditAlways, PTL DEF Spec, CleanupsApart

----------------------------------------------------------------------------
(* The loops of the scheduler: however long refreshes take, a loop keeps   *)
(* to its grid.  First, multiples.                                         *)

LEMMA MultipleOf ==
    ASSUME NEW k \in Int, NEW i \in Nat \ {0}
    PROVE  (k * i) % i = 0
BY SMTT(30)

LEMMA MultipleIs ==
    ASSUME NEW a \in Int, NEW i \in Nat \ {0}, a % i = 0
    PROVE  \E k \in Int : a = k * i
BY SMTT(30)

LEMMA MultipleShifted ==
    ASSUME NEW a \in Int, NEW k \in Int, NEW i \in Nat \ {0}, a % i = 0
    PROVE  (a + k * i) % i = 0
<1>1. PICK m \in Int : a = m * i
  BY MultipleIs
<1>2. a + k * i = (m + k) * i
  BY <1>1
<1> QED
  BY <1>2, MultipleOf

(* There is a multiple among i numbers in a row.                           *)
LEMMA MultipleAfter ==
    ASSUME NEW s \in Nat, NEW i \in Nat \ {0}
    PROVE  \E t \in (s + 1)..(s + i) : t % i = 0
<1> DEFINE q == s \div i
<1>1. q \in Int /\ q * i <= s /\ s < (q + 1) * i
  BY SMTT(30)
<1>2. (q + 1) * i \in (s + 1)..(s + i)
  BY <1>1, SMTT(30)
<1> QED
  BY <1>1, <1>2, MultipleOf

----------------------------------------------------------------------------
(* The inductive invariant: a loop that no longer sleeps has reached its   *)
(* target, so that the next one is at most an interval after the end of    *)
(* its refresh.                                                            *)

ClockTypes ==
    /\ now \in Nat
    /\ phase \in [Loops -> {"off", "sleep", "jitter", "refresh"}]
    /\ target \in [Loops -> Nat] /\ wakeAt \in [Loops -> Nat]
    /\ ended \in [Loops -> Nat]

OnGrid == \A l \in Loops : (target[l] - Origin(l)) % Interval = 0
Reached == \A l \in Loops : phase[l] \in {"jitter", "refresh"} => target[l] <= now

GridInv == ClockTypes /\ OnGrid /\ Reached /\ LoopsKeepGrid

LEMMA OriginType == \A l \in Loops : Origin(l) \in Int
BY TimeAssumption DEF Origin

LEMMA FirstTargetIs ==
    ASSUME NEW l \in Loops
    PROVE  /\ FirstTarget(l) \in (Start + 1)..(Start + Interval)
           /\ FirstTarget(l) \in Nat
           /\ (FirstTarget(l) - Origin(l)) % Interval = 0
<1> USE TimeAssumption, LoopAssumption
<1>1. \E t \in (Start + 1)..(Start + Interval) : (t - Origin(l)) % Interval = 0
  <2>1. CASE l \in IntervalLoops
    <3>1. (Start + Interval) - Start = 1 * Interval
      OBVIOUS
    <3>2. ((Start + Interval) - Start) % Interval = 0
      BY <3>1, MultipleOf
    <3> QED
      BY <2>1, <3>2 DEF Origin
  <2>2. CASE l \notin IntervalLoops
    <3>1. PICK t \in (Start + 1)..(Start + Interval) : t % Interval = 0
      BY MultipleAfter
    <3>2. t - Origin(l) = t
      BY <2>2 DEF Origin
    <3> QED
      BY <3>1, <3>2
  <2> QED
    BY <2>1, <2>2
<1>2. /\ FirstTarget(l) \in (Start + 1)..(Start + Interval)
      /\ (FirstTarget(l) - Origin(l)) % Interval = 0
  BY <1>1 DEF FirstTarget
<1> QED
  BY <1>2

LEMMA GridInitially == Init => GridInv
<1> SUFFICES ASSUME Init PROVE GridInv
  OBVIOUS
<1> USE TimeAssumption, LoopAssumption
<1>1. PICK j \in [setup.loops \cap IntervalLoops -> 0..Jitter] :
        wakeAt = [l \in Loops |-> FirstTarget(l) + IF l \in DOMAIN j THEN j[l] ELSE 0]
  BY DEF Init, ClockInit
<1>2. \A l \in Loops :
        /\ wakeAt[l] \in Nat
        /\ FirstTarget(l) <= wakeAt[l] /\ wakeAt[l] <= FirstTarget(l) + Jitter
  <2> TAKE l \in Loops
  <2> DEFINE late == IF l \in DOMAIN j THEN j[l] ELSE 0
  <2>1. late \in 0..Jitter
    BY <1>1
  <2>2. wakeAt[l] = FirstTarget(l) + late
    BY <1>1
  <2> QED
    BY <2>1, <2>2, FirstTargetIs
<1>3. /\ now = Start
      /\ \A l \in Loops : target[l] = FirstTarget(l) /\ ended[l] = Start
      /\ \A l \in Loops : phase[l] \in {"sleep", "off"}
  BY DEF Init, ClockInit
<1>4. ClockTypes
  <2>1. target \in [Loops -> Nat]
    BY FirstTargetIs DEF Init, ClockInit
  <2>2. wakeAt \in [Loops -> Nat]
    BY <1>1, <1>2
  <2> QED
    BY <2>1, <2>2 DEF Init, ClockInit, ClockTypes
<1>5. OnGrid /\ Reached
  BY <1>3, FirstTargetIs DEF OnGrid, Reached
<1>6. LoopsKeepGrid
  BY <1>2, <1>3, FirstTargetIs DEF LoopsKeepGrid, KeepsGrid
<1> QED
  BY <1>4, <1>5, <1>6 DEF GridInv

LEMMA GridIdle ==
    ASSUME GridInv, UNCHANGED clockVars, now' \in Nat, now' >= now
    PROVE  GridInv'
<1> USE DEF clockVars
<1>1. ClockTypes' /\ OnGrid' /\ Reached'
  BY DEF GridInv, ClockTypes, OnGrid, Reached
<1>2. LoopsKeepGrid'
  BY DEF GridInv, LoopsKeepGrid, KeepsGrid
<1> QED
  BY <1>1, <1>2 DEF GridInv

(* The sleep or the jitter of a loop ends.                                 *)
LEMMA GridWakes ==
    ASSUME GridInv, NEW l \in Loops, UNCHANGED now, Wakes(l) \/ JitterEnds(l)
    PROVE  GridInv'
<1>1. UNCHANGED <<target, ended>>
  BY DEF Wakes, JitterEnds
<1>2. /\ phase'[l] \in {"jitter", "refresh"}
      /\ phase' \in [Loops -> {"off", "sleep", "jitter", "refresh"}]
      /\ \A m \in Loops : m # l => phase'[m] = phase[m]
  BY DEF Wakes, JitterEnds, GridInv, ClockTypes
<1>3. /\ wakeAt' \in [Loops -> Nat]
      /\ \A m \in Loops : m # l => wakeAt'[m] = wakeAt[m]
  <2>1. \A j \in 0..Jitter : now + j \in Nat
    BY LoopAssumption DEF GridInv, ClockTypes
  <2> QED
    BY <2>1 DEF Wakes, JitterEnds, GridInv, ClockTypes
<1>4. target[l] <= now
  <2>1. CASE Wakes(l)
    <3>1. target[l] <= wakeAt[l] /\ wakeAt[l] <= now
      BY <2>1 DEF Wakes, GridInv, ClockTypes, LoopsKeepGrid, KeepsGrid
    <3> QED
      BY <3>1 DEF GridInv, ClockTypes
  <2>2. CASE JitterEnds(l)
    BY <2>2 DEF JitterEnds, GridInv, Reached
  <2> QED
    BY <2>1, <2>2
<1>5. ClockTypes' /\ OnGrid' /\ Reached'
  BY <1>1, <1>2, <1>3, <1>4 DEF GridInv, ClockTypes, OnGrid, Reached
<1>6. LoopsKeepGrid'
  BY <1>1, <1>2, <1>3 DEF GridInv, LoopsKeepGrid, KeepsGrid
<1> QED
  BY <1>5, <1>6 DEF GridInv

(* The next target is the first of the grid after now.                     *)
LEMMA RebasedIs ==
    ASSUME GridInv, NEW l \in Loops, phase[l] = "refresh", NEW u \in Rebased(target[l])
    PROVE  /\ u \in Nat /\ now < u /\ u <= now + Interval
           /\ (u - Origin(l)) % Interval = 0
<1> USE LoopAssumption
<1>1. target[l] \in Nat /\ now \in Nat /\ target[l] <= now
  BY DEF GridInv, ClockTypes, Reached
<1>2. PICK k \in 0..(now + 1) : u = target[l] + k * Interval
  BY DEF Rebased
<1>3. k \in Nat /\ k * Interval \in Nat
  BY <1>1
<1>4. u \in Nat /\ now < u /\ u <= now + Interval
  BY <1>1, <1>2, <1>3 DEF Rebased
<1>5. u - Origin(l) = (target[l] - Origin(l)) + k * Interval
  BY <1>1, <1>2, <1>3, OriginType
<1>6. (target[l] - Origin(l)) % Interval = 0 /\ target[l] - Origin(l) \in Int
  BY <1>1, OriginType DEF GridInv, OnGrid
<1>7. (u - Origin(l)) % Interval = 0
  BY <1>3, <1>5, <1>6, MultipleShifted
<1> QED
  BY <1>4, <1>7

LEMMA GridRefreshEnds ==
    ASSUME GridInv, NEW l \in Loops, UNCHANGED now, RefreshEnds(l)
    PROVE  GridInv'
<1> USE LoopAssumption
<1>1. phase[l] = "refresh" /\ ended' = [ended EXCEPT ![l] = now] /\ Plan(l, target[l])
  BY DEF RefreshEnds
<1>2. PICK u \in Rebased(target[l]), j \in 0..(IF l \in IntervalLoops THEN Jitter ELSE 0) :
        target' = [target EXCEPT ![l] = u] /\ wakeAt' = [wakeAt EXCEPT ![l] = u + j]
  BY <1>1 DEF Plan
<1>3. /\ u \in Nat /\ now < u /\ u <= now + Interval
      /\ (u - Origin(l)) % Interval = 0
  BY <1>1, RebasedIs
<1>4. j \in Nat /\ j <= Jitter
  OBVIOUS
<1>5. phase' = [phase EXCEPT ![l] = "sleep"]
  BY <1>1 DEF Plan
<1>6. ClockTypes'
  BY <1>1, <1>2, <1>3, <1>4, <1>5 DEF GridInv, ClockTypes
<1>7. \A m \in Loops : m # l =>
        /\ target'[m] = target[m] /\ wakeAt'[m] = wakeAt[m]
        /\ ended'[m] = ended[m] /\ phase'[m] = phase[m]
  BY <1>1, <1>2, <1>5 DEF GridInv, ClockTypes
<1>8. /\ target'[l] = u /\ wakeAt'[l] = u + j
      /\ ended'[l] = now /\ phase'[l] = "sleep"
  BY <1>1, <1>2, <1>5 DEF GridInv, ClockTypes
<1>9. OnGrid' /\ Reached'
  BY <1>3, <1>7, <1>8 DEF GridInv, OnGrid, Reached, Origin
<1>10. LoopsKeepGrid'
  <2>1. ASSUME NEW m \in Loops PROVE KeepsGrid(m)'
    <3>1. CASE m = l
      <4>1. now \in Nat
        BY DEF GridInv, ClockTypes
      <4> QED
        BY <1>3, <1>4, <1>8, <3>1, <4>1 DEF KeepsGrid, Origin
    <3>2. CASE m # l
      BY <1>7, <3>2 DEF GridInv, LoopsKeepGrid, KeepsGrid, Origin
    <3> QED
      BY <3>1, <3>2
  <2> QED
    BY <2>1 DEF LoopsKeepGrid
<1> QED
  BY <1>6, <1>9, <1>10 DEF GridInv

LEMMA GridNext == GridInv /\ [Next]_vars => GridInv'
<1> SUFFICES ASSUME GridInv, [Next]_vars PROVE GridInv'
  OBVIOUS
<1>1. now \in Nat
  BY DEF GridInv, ClockTypes
<1>2. CASE Time
  BY <1>1, <1>2, GridIdle DEF Time, Tick
<1>3. CASE Audit
  BY <1>1, <1>3, GridIdle DEF Audit
<1>4. CASE Loop
  BY <1>4, GridWakes, GridRefreshEnds DEF Loop, LoopStep
<1>5. ASSUME NEW r \in Requests, Request(r) \/ AnswerElse(r) \/ AnswerRoute(r)
      PROVE  GridInv'
  BY <1>1, <1>5, GridIdle DEF Request, Arrives, AnswerElse, AnswerRoute
<1>6. ASSUME NEW r \in Requests, NEW first \in Requests, Follow(r, first)
      PROVE  GridInv'
  BY <1>1, <1>6, GridIdle DEF Follow, Arrives
<1>7. CASE UNCHANGED vars
  BY <1>1, <1>7, GridIdle DEF vars
<1> QED
  BY <1>2, <1>3, <1>4, <1>5, <1>6, <1>7 DEF Next

LEMMA GridAlways == Spec => []GridInv
BY GridInitially, GridNext, PTL DEF Spec

(* Loops neither drift off their grid nor refresh twice for an occurrence  *)
(* or skip one that is to come (_interval_loop and _cron_loop).            *)
THEOREM GridIsKept == Spec => []LoopsKeepGrid
<1>1. GridInv => LoopsKeepGrid
  BY DEF GridInv
<1> QED
  BY <1>1, GridAlways, PTL

----------------------------------------------------------------------------
(* What clients get.  First, the paths: those a route serves are those     *)
(* validate() checked, and no two routes have one in common.               *)

PathToken == STRING \cup {"nodes", "import", "/api"}

LEMMA CompanionPaths ==
    ASSUME NEW route, route.path \in Seq(STRING)
    PROVE  /\ \A c, d \in {"nodes", "import"} : Companion(route, c) = Companion(route, d) => c = d
           /\ \A c \in {"nodes", "import"} : Companion(route, c) # route.path
<1> DEFINE path == route.path
<1>1. path \in Seq(PathToken)
  <2>1. PICK n \in Nat : path \in [1..n -> STRING]
    BY SeqDef
  <2>2. path \in [1..n -> PathToken]
    BY <2>1 DEF PathToken
  <2> QED
    BY <2>2, SeqDef
<1> HIDE DEF path
<1>2. ASSUME NEW c \in {"nodes", "import"}
      PROVE  /\ Append(path, c)[Len(path) + 1] = c
             /\ Len(Append(path, c)) = Len(path) + 1
  <2>1. c \in PathToken
    BY DEF PathToken
  <2> QED
    BY <1>1, <2>1, AppendProperties
<1>3. Len(path) \in Nat
  BY <1>1, LenProperties
<1>4. ASSUME NEW c \in {"nodes", "import"}, NEW d \in {"nodes", "import"},
             Append(path, c) = Append(path, d)
      PROVE  c = d
  BY <1>2, <1>4
<1>5. ASSUME NEW c \in {"nodes", "import"}
      PROVE  Append(path, c) # path
  BY <1>2, <1>3
<1> QED
  BY <1>4, <1>5 DEF Companion, path

LEMMA CompanionsChecked ==
    ASSUME NEW route
    PROVE  /\ \E k \in Nat : DOMAIN CheckedCompanions(route) = 1..k
           /\ Companions(route) = {CheckedCompanions(route)[i] :
                                        i \in DOMAIN CheckedCompanions(route)}
           /\ Companions(route) \subseteq {"nodes", "import"}
<1> DEFINE checked == CheckedCompanions(route)
           several == {"nodes"} \cup {"import"}
<1>1. CASE route.format = "surfboard"
  <2>1. checked = <<"nodes">> /\ Companions(route) = {"nodes"}
    BY <1>1 DEF CheckedCompanions, Companions
  <2> QED
    BY <2>1
<1>2. CASE route.format = "quantumult-x" /\ route.importLink
  <2>1. checked = <<"import">> /\ Companions(route) = {"import"}
    BY <1>2 DEF CheckedCompanions, Companions
  <2> QED
    BY <2>1
<1>3. CASE route.format = "auto" /\ route.importLink
  <2>1. checked = <<"nodes">> \o <<"import">> /\ Companions(route) = several
    BY <1>3 DEF CheckedCompanions, Companions
  <2>2. DOMAIN checked = 1..2 /\ checked[1] = "nodes" /\ checked[2] = "import"
    BY <2>1
  <2> QED
    BY <2>1, <2>2
<1>4. CASE route.format = "auto" /\ ~route.importLink
  <2>1. checked = <<"nodes">> \o <<>> /\ Companions(route) = {"nodes"}
    BY <1>4 DEF CheckedCompanions, Companions
  <2>2. DOMAIN checked = 1..1 /\ checked[1] = "nodes"
    BY <2>1
  <2> QED
    BY <2>1, <2>2
<1>5. CASE /\ route.format \notin {"surfboard", "auto"}
           /\ ~(route.format = "quantumult-x" /\ route.importLink)
  <2>1. checked = <<>> /\ Companions(route) = {}
    BY <1>5 DEF CheckedCompanions, Companions
  <2> QED
    BY <2>1
<1> QED
  BY <1>1, <1>2, <1>3, <1>4, <1>5

LEMMA PathIsClaimed ==
    ASSUME NEW route, NEW path, CompanionAt(route, path) # {}
    PROVE  \E a \in DOMAIN RoutePaths(route) : RoutePaths(route)[a] = path
<1> DEFINE checked == CheckedCompanions(route)
           others == [i \in DOMAIN checked |-> Companion(route, checked[i])]
<1>1. PICK k \in Nat : DOMAIN checked = 1..k
  BY CompanionsChecked
<1>2. Companions(route) = {checked[i] : i \in DOMAIN checked}
  BY CompanionsChecked
<1> HIDE DEF checked
<1>3. others \in Seq({Companion(route, checked[i]) : i \in DOMAIN checked}) /\ Len(others) = k
  <2>1. others \in [1..k -> {Companion(route, checked[i]) : i \in DOMAIN checked}]
    BY <1>1
  <2> HIDE DEF others
  <2> QED
    BY <2>1, SeqDef, LenProperties
<1>4. /\ DOMAIN RoutePaths(route) = 1..(1 + k)
      /\ RoutePaths(route)[1] = route.path
      /\ \A i \in 1..k : RoutePaths(route)[1 + i] = Companion(route, checked[i])
  <2> DEFINE S == {route.path} \cup {Companion(route, checked[i]) : i \in DOMAIN checked}
  <2>1. others \in Seq(S) /\ <<route.path>> \in Seq(S)
    <3>1. others \in [1..k -> S]
      BY <1>1
    <3> QED
      BY <3>1, SeqDef
  <2>2. Len(<<route.path>>) = 1 /\ <<route.path>>[1] = route.path
    OBVIOUS
  <2>3. RoutePaths(route) = <<route.path>> \o others
    BY DEF RoutePaths, checked
  <2>4. \A i \in 1..k : others[i] = Companion(route, checked[i])
    BY <1>1
  <2> DEFINE first == <<route.path>>
  <2> HIDE DEF others, S, first
  <2>5. /\ Len(first \o others) = Len(first) + Len(others)
        /\ \A i \in 1..(Len(first) + Len(others)) :
              (first \o others)[i] = IF i <= Len(first) THEN first[i] ELSE others[i - Len(first)]
    BY <2>1, ConcatProperties DEF first
  <2>6. Len(first) = 1 /\ first[1] = route.path /\ RoutePaths(route) = first \o others
    BY <2>2, <2>3 DEF first
  <2>7. first \o others \in Seq(S)
    BY <2>1, ConcatProperties DEF first
  <2>8. DOMAIN (first \o others) = 1..Len(first \o others)
    BY <2>7, LenProperties
  <2> QED
    BY <1>3, <2>4, <2>5, <2>6, <2>8
<1> HIDE DEF others
<1>5. CASE path = route.path
  BY <1>4, <1>5
<1>6. CASE path # route.path
  <2>1. PICK c \in Companions(route) : path = Companion(route, c)
    BY <1>6 DEF CompanionAt
  <2>2. PICK i \in 1..k : checked[i] = c
    BY <1>1, <1>2, <2>1
  <2>3. 1 + i \in 1..(1 + k)
    OBVIOUS
  <2> QED
    BY <1>4, <2>1, <2>2, <2>3
<1> QED
  BY <1>5, <1>6

(* A path of a route leads to it and nowhere else.                         *)
LEMMA RouteAtIs ==
    ASSUME NEW server, NEW routes, Len(routes) \in Nat, DOMAIN routes = 1..Len(routes),
           PathsApart(server, routes),
           NEW n \in DOMAIN routes, NEW path, CompanionAt(routes[n], path) # {}
    PROVE  /\ RouteAt(routes, path) = n
           /\ \A i \in DOMAIN SystemPaths(server) : SystemPaths(server)[i] # path
<1> DEFINE claims(i) == IF i = 0 THEN SystemPaths(server) ELSE RoutePaths(routes[i])
           found == {i \in DOMAIN routes : CompanionAt(routes[i], path) # {}}
<1>1. \A i, j \in 0..Len(routes) : \A a \in DOMAIN claims(i), b \in DOMAIN claims(j) :
          claims(i)[a] = claims(j)[b] => i = j /\ a = b
  BY DEF PathsApart
<1>2. ASSUME NEW i \in found
      PROVE  i \in 0..Len(routes) /\ \E a \in DOMAIN claims(i) : claims(i)[a] = path
  <2>1. i \in 1..Len(routes) /\ claims(i) = RoutePaths(routes[i])
    OBVIOUS
  <2> QED
    BY <2>1, PathIsClaimed
<1>3. n \in found /\ n # 0
  OBVIOUS
<1>4. claims(0) = SystemPaths(server) /\ 0 \in 0..Len(routes)
  OBVIOUS
<1> HIDE DEF claims
<1>5. \A i \in found : i = n
  BY <1>1, <1>2, <1>3
<1>6. \A i \in DOMAIN SystemPaths(server) : SystemPaths(server)[i] # path
  BY <1>1, <1>2, <1>3, <1>4
<1>7. found = {n}
  BY <1>3, <1>5
<1>8. RouteAt(routes, path) = Max({n})
  BY <1>7 DEF RouteAt
<1>9. Max({n}) = n
  BY DEF Max
<1> QED
  BY <1>6, <1>8, <1>9

LEMMA RouteAtFinds ==
    ASSUME NEW server, NEW routes, Len(routes) \in Nat, DOMAIN routes = 1..Len(routes),
           PathsApart(server, routes), NEW path, RouteAt(routes, path) # 0
    PROVE  /\ RouteAt(routes, path) \in DOMAIN routes
           /\ CompanionAt(routes[RouteAt(routes, path)], path) # {}
<1>1. PICK i \in DOMAIN routes : CompanionAt(routes[i], path) # {}
  BY DEF RouteAt
<1> QED
  BY <1>1, RouteAtIs

----------------------------------------------------------------------------
(* Then, the formats and the responses of the renderers.                   *)

LEMMA FormatIs ==
    ASSUME NEW route, RouteOk(route), NEW companion, NEW query, NEW agent
    PROVE  EffectiveFormat(route, companion, query, agent) \in ImplementedFormats \cup {"unsupported"}
<1>1. CompanionFormat(companion) \in ImplementedFormats
  BY DEF CompanionFormat, ImplementedFormats
<1>2. agent \in DOMAIN AgentFormats => AgentFormats[agent] \in ImplementedFormats
  BY DEF AgentFormats, ImplementedFormats
<1>3. route.format # "auto" => route.format \in ImplementedFormats
  BY DEF RouteOk
<1> QED
  BY <1>1, <1>2, <1>3 DEF EffectiveFormat, RouteOk

(* The query of a link selects the format the link was made for.           *)
LEMMA LinkSelects ==
    /\ QuerySelection(<<>>) = "none"
    /\ \A format \in {"quantumult-x", "surfboard"} :
          QuerySelection([target |-> CanonicalTarget(format)]) = format
<1>1. QuerySelection(<<>>) = "none"
  <2> DEFINE query == <<>>
             given == {i \in DOMAIN SelectorKeys : SelectorKeys[i] \in DOMAIN query}
  <2>1. given = {}
    OBVIOUS
  <2>2. "auto" \notin DOMAIN TargetAliases
    BY DEF TargetAliases
  <2> HIDE DEF query
  <2>3. QuerySelection(query) = "none"
    BY <2>1, <2>2 DEF QuerySelection
  <2> QED
    BY <2>3 DEF query
<1>2. ASSUME NEW alias
      PROVE  /\ {i \in DOMAIN SelectorKeys : SelectorKeys[i] \in DOMAIN [target |-> alias]} = {1}
             /\ [target |-> alias][SelectorKeys[1]] = alias
  <2>1. /\ DOMAIN SelectorKeys = 1..4
        /\ SelectorKeys[1] = "target" /\ SelectorKeys[2] # "target"
        /\ SelectorKeys[3] # "target" /\ SelectorKeys[4] # "target"
    BY DEF SelectorKeys
  <2>2. DOMAIN [target |-> alias] = {"target"}
    OBVIOUS
  <2>3. \A i \in 1..4 : SelectorKeys[i] = "target" <=> i = 1
    BY <2>1
  <2> QED
    BY <2>1, <2>2, <2>3
<1>3. Min({1}) = 1
  BY DEF Min
<1>4. ASSUME NEW alias \in {"quanx", "surfboard"}
      PROVE  QuerySelection([target |-> alias]) = TargetAliases[alias]
  <2> DEFINE query == [target |-> alias]
             given == {i \in DOMAIN SelectorKeys : SelectorKeys[i] \in DOMAIN query}
  <2>1. given = {1} /\ query[SelectorKeys[1]] = alias
    BY <1>2
  <2>2. alias \in DOMAIN TargetAliases /\ alias \notin {"auto", "blank"}
    BY DEF TargetAliases
  <2>3. Min(given) = 1 /\ given # {}
    BY <1>3, <2>1
  <2> HIDE DEF query
  <2>4. QuerySelection(query) = TargetAliases[alias]
    BY <2>1, <2>2, <2>3 DEF QuerySelection
  <2> QED
    BY <2>4 DEF query
<1>5. /\ TargetAliases["quanx"] = "quantumult-x" /\ TargetAliases["surfboard"] = "surfboard"
      /\ CanonicalTarget("quantumult-x") = "quanx" /\ CanonicalTarget("surfboard") = "surfboard"
  BY DEF TargetAliases, CanonicalTarget
<1> QED
  BY <1>1, <1>4, <1>5

(* What render() makes of a request.                                       *)
LEMMA RenderIs ==
    ASSUME NEW format \in ImplementedFormats, NEW q
    PROVE  /\ Render(format, q).status \in {200, 302, 400, 422, 500}
           /\ Render(format, q).lines \in {<<>>, Lines(format, q.records, q.route)}
           /\ Render(format, q).link # NoLink =>
                 \/ /\ format = "quantumult-x" /\ q.companion = "import"
                    /\ Render(format, q).link = q.mainUrl
                 \/ /\ format = "surfboard" /\ q.companion # "nodes"
                    /\ Render(format, q).link = q.nodesUrl
                    /\ Render(format, q).lines = Lines(format, q.records, q.route)
                    /\ Render(format, q).lines # <<>>
<1>1. \A f \in ImplementedFormats :
        /\ RenderLines(f, q).status \in {200, 422}
        /\ RenderLines(f, q).lines \in {<<>>, Lines(f, q.records, q.route)}
        /\ RenderLines(f, q).link # NoLink =>
              /\ f = "surfboard" /\ q.companion # "nodes"
              /\ RenderLines(f, q).link = q.nodesUrl
              /\ RenderLines(f, q).lines = Lines(f, q.records, q.route)
              /\ RenderLines(f, q).lines # <<>>
  BY DEF RenderLines, Refusal
<1>2. /\ RenderConfig(q).status \in {200, 400, 422, 500}
      /\ RenderConfig(q).lines \in {<<>>, Lines("clash-config", q.records, q.route)}
      /\ RenderConfig(q).link = NoLink
  BY <1>1 DEF RenderConfig, Refusal, ImplementedFormats
<1>3. /\ RenderImport(q).status \in {200, 302}
      /\ RenderImport(q).lines = <<>> /\ RenderImport(q).link = q.mainUrl
  BY DEF RenderImport
<1>4. CASE format = "clash-config"
  BY <1>2, <1>4 DEF Render
<1>5. CASE format = "quantumult-x" /\ q.companion = "import"
  BY <1>3, <1>5 DEF Render
<1>6. CASE format # "clash-config" /\ ~(format = "quantumult-x" /\ q.companion = "import")
  BY <1>1, <1>6 DEF Render
<1> QED
  BY <1>4, <1>5, <1>6

(* What a route answers: a refusal, or lines of its records in the format  *)
(* of the request, and a link in two cases only.                           *)
IsAnswer(a, s, n, sent, records) ==
    LET route == s.routes[n] IN
    /\ a.route = n /\ a.companion \in CompanionAt(route, sent.path)
    /\ a.status \in {200, 302, 400, 403, 422, 500, 503}
    /\ a.format \in ImplementedFormats \cup {"none"}
    /\ a.lines # <<>> =>
          /\ a.format # "none" /\ records # <<>>
          /\ a.lines = Lines(a.format, records, route)
    /\ a.link # NoLink =>
          /\ AgentAllowed(route, sent.agent) /\ records # <<>>
          /\ a.format = EffectiveFormat(route, a.companion, sent.query, sent.agent)
          /\ \/ /\ a.format = "quantumult-x" /\ a.companion = "import"
                /\ a.link = MainUrl(s.server, route, a.format)
             \/ /\ a.format = "surfboard" /\ a.companion # "nodes"
                /\ a.link = NodesUrl(s.server, route)
                /\ a.lines # <<>>

LEMMA RouteAnswerIs ==
    ASSUME NEW s, NEW n, RouteOk(s.routes[n]), NEW sent, NEW records,
           CompanionAt(s.routes[n], sent.path) # {}
    PROVE  IsAnswer(RouteAnswer(s, n, sent, records), s, n, sent, records)
<1> DEFINE route == s.routes[n]
           c == CHOOSE d \in CompanionAt(route, sent.path) : TRUE
           format == EffectiveFormat(route, c, sent.query, sent.agent)
           q == [route |-> route, records |-> records, companion |-> c,
                 mainUrl |-> MainUrl(s.server, route, format),
                 nodesUrl |-> NodesUrl(s.server, route)]
           given(f, response) ==
               [status |-> response.status, route |-> n, companion |-> c, format |-> f,
                lines |-> response.lines, link |-> response.link]
           a == RouteAnswer(s, n, sent, records)
<1>1. c \in CompanionAt(route, sent.path)
  OBVIOUS
<1>2. format \in ImplementedFormats \cup {"unsupported"}
  BY FormatIs
<1>3. a = IF ~AgentAllowed(route, sent.agent) THEN given("none", Refusal(403))
          ELSE IF format = "unsupported" THEN given("none", Refusal(400))
          ELSE IF records = <<>> THEN given(format, Refusal(503))
          ELSE given(format, Render(format, q))
  BY DEF RouteAnswer
<1>4. /\ q.route = route /\ q.records = records /\ q.companion = c
      /\ q.mainUrl = MainUrl(s.server, route, format)
      /\ q.nodesUrl = NodesUrl(s.server, route)
  OBVIOUS
<1>5. \A x : Refusal(x).status = x /\ Refusal(x).lines = <<>> /\ Refusal(x).link = NoLink
  BY DEF Refusal
<1>6. \A f, response :
        LET g == given(f, response) IN
        /\ g.status = response.status /\ g.route = n /\ g.companion = c /\ g.format = f
        /\ g.lines = response.lines /\ g.link = response.link
  OBVIOUS
<1> HIDE DEF q, c, a, format, given
<1>7. CASE \/ ~AgentAllowed(route, sent.agent) \/ format = "unsupported" \/ records = <<>>
  <2>1. PICK x \in {400, 403, 503}, f \in ImplementedFormats \cup {"none"} :
            a = given(f, Refusal(x))
    BY <1>2, <1>3, <1>7
  <2>2. /\ a.status = x /\ a.route = n /\ a.companion = c /\ a.format = f
        /\ a.lines = <<>> /\ a.link = NoLink
    BY <1>5, <1>6, <2>1
  <2> QED
    BY <1>1, <2>2 DEF IsAnswer, a
<1>8. CASE AgentAllowed(route, sent.agent) /\ format # "unsupported" /\ records # <<>>
  <2>1. a = given(format, Render(format, q))
    BY <1>3, <1>8
  <2>2. /\ a.status = Render(format, q).status /\ a.route = n /\ a.companion = c
        /\ a.format = format
        /\ a.lines = Render(format, q).lines /\ a.link = Render(format, q).link
    BY <1>6, <2>1
  <2>3. format \in ImplementedFormats
    BY <1>2, <1>8
  <2>4. /\ a.status \in {200, 302, 400, 422, 500}
        /\ a.lines \in {<<>>, Lines(format, records, route)}
        /\ a.link # NoLink =>
              \/ /\ format = "quantumult-x" /\ c = "import"
                 /\ a.link = MainUrl(s.server, route, format)
              \/ /\ format = "surfboard" /\ c # "nodes"
                 /\ a.link = NodesUrl(s.server, route)
                 /\ a.lines # <<>>
    BY <1>4, <2>2, <2>3, RenderIs
  <2>5. format # "none"
    BY <2>3 DEF ImplementedFormats
  <2> QED
    BY <1>1, <1>8, <2>2, <2>3, <2>4, <2>5 DEF IsAnswer, a, format
<1> QED
  BY <1>7, <1>8

----------------------------------------------------------------------------
(* What protects a node that a format can express is in its line or one of *)
(* the known losses.                                                       *)

LEMMA ByTypeIs ==
    /\ ByType["ss"] = {"plugin", "pluginOpts"} /\ ByType["snell"] = {"obfsOpts"}
    /\ ByType["hysteria2"] = {"obfs"} /\ ByType["anytls"] = {}
    /\ ByType["http"] = {"tls"} /\ ByType["socks5"] = {"tls"}
    /\ ByType["vmess"] = {"tls", "network"}
    /\ ByType["vless"] = {"tls", "network", "encryption"}
    /\ ByType["trojan"] = {"network", "ssOpts"}
<1>1. \A t \in {"ss", "snell", "hysteria2", "anytls", "http", "socks5", "vmess", "vless", "trojan"} :
          t \in DOMAIN Required
  BY DEF Required
<1>2. None = [t \in DOMAIN Required |-> {}]
  BY DEF None
<1> QED
  BY <1>1, <1>2 DEF ByType

LEMMA LossesOfNode ==
    ASSUME NEW n, NEW format \in ImplementedFormats, Expressible(format, n),
           n.type = "hysteria2" => At(n, "obfs") \in {"absent", "empty", "good", "gecko"}
    PROVE  Protecting(n) \ Keeps(format, n) \subseteq KnownLosses(format, n)
<1> SUFFICES ASSUME NEW f \in Protecting(n), f \notin Keeps(format, n)
             PROVE  f \in KnownLosses(format, n)
  OBVIOUS
<1>1. /\ IsSet(n, f) /\ f \in DOMAIN n
      /\ f \in Critical \cup ByType[n.type]
  BY DEF Protecting, SetOf, Critical, IsSet, At
<1>2. CASE format = "xray-uri"
  <2>1. /\ \A g \in Critical : ~IsSet(n, g)
        /\ n.type = "ss" => ~IsSet(n, "plugin") /\ ~IsSet(n, "pluginOpts")
        /\ n.type \in {"hysteria2", "ss", "trojan", "vless", "vmess"}
    BY <1>2 DEF Expressible, XrayTakes, Complete, XrayNeeds, SetOf, PluginFields
  <2>2. f \in ByType[n.type] /\ f \notin XrayKeeps(n)
    BY <1>1, <1>2, <2>1 DEF Keeps, SetOf
  <2>3. CASE n.type \in {"hysteria2", "ss", "vmess"}
    BY <1>1, <2>1, <2>2, <2>3, ByTypeIs DEF XrayKeeps
  <2>4. CASE n.type \in {"trojan", "vless"}
    <3>1. f \in {"network", "encryption", "ssOpts"} /\ f \notin NetworkParams(n)
      BY <2>2, <2>4, ByTypeIs DEF XrayKeeps
    <3>2. f = "network" => Network(n) \notin {"tcp", "ws", "grpc", "http", "h2"}
      BY <3>1 DEF NetworkParams
    <3> QED
      BY <1>2, <2>4, <3>1, <3>2 DEF KnownLosses
  <2> QED
    BY <2>1, <2>3, <2>4
<1>3. CASE format = "surfboard"
  <2>1. /\ \A g \in Critical : ~IsSet(n, g)
        /\ n.type = "ss" => ~IsSet(n, "plugin") /\ ~IsSet(n, "pluginOpts")
        /\ n.type \in {"ss", "trojan", "vmess", "hysteria2", "snell", "anytls", "http", "socks5"}
    BY <1>3 DEF Expressible, SurfboardTakes, Complete, SurfboardNeeds, SetOf, PluginFields
  <2>2. f \in ByType[n.type] /\ f \notin SurfboardKeeps(n)
    BY <1>1, <1>3, <2>1 DEF Keeps, SetOf
  <2>3. CASE n.type = "hysteria2"
    <3>1. f = "obfs" /\ At(n, "obfs") # "good"
      BY <2>2, <2>3, ByTypeIs DEF SurfboardKeeps
    <3>2. At(n, "obfs") = "gecko"
      BY <1>1, <2>3, <3>1 DEF IsSet
    <3> QED
      BY <1>3, <3>1, <3>2 DEF KnownLosses
  <2>4. CASE n.type = "trojan"
    BY <1>3, <2>2, <2>4, ByTypeIs DEF SurfboardKeeps, KnownLosses
  <2>5. CASE n.type \in {"ss", "vmess", "snell", "anytls", "http", "socks5"}
    BY <1>1, <2>1, <2>2, <2>5, ByTypeIs DEF SurfboardKeeps
  <2> QED
    BY <2>1, <2>3, <2>4, <2>5
<1>4. CASE format = "quantumult-x"
  <2>1. /\ \A g \in Critical \ {"realityOpts", "flow"} : ~IsSet(n, g)
        /\ HasText(n, "flow") => n.type = "vless"
        /\ n.type = "ss" => ~IsSet(n, "plugin") /\ ~IsSet(n, "pluginOpts")
        /\ n.type \in {"ss", "trojan", "vless", "vmess", "anytls", "http", "socks5"}
    BY <1>4 DEF Expressible, QxTakes, QxSafe, Complete, QxNeeds, SetOf, PluginFields
  <2>2. f \notin QxKeeps(n)
    BY <1>1, <1>4 DEF Keeps, SetOf
  <2>3. f \in ByType[n.type]
    <3>1. f \notin {"realityOpts", "flow"}
      BY <1>1, <2>1, <2>2 DEF QxKeeps, IsSet, HasText
    <3> QED
      BY <1>1, <2>1, <3>1
  <2>4. CASE n.type \in {"ss", "anytls", "http", "socks5", "trojan"}
    <3>1. n.type # "ss" => ~ExplicitObfs(n)
      BY DEF ExplicitObfs
    <3>2. f \notin {"plugin", "pluginOpts"} \/ n.type # "ss"
      BY <1>1, <2>1
    <3>3. f = "ssOpts"
      BY <2>2, <2>3, <2>4, <3>1, <3>2, ByTypeIs DEF QxKeeps
    <3> QED
      BY <1>4, <3>3 DEF KnownLosses
  <2>5. CASE n.type \in {"vless", "vmess"}
    <3>1. f \in {"tls", "network", "encryption"}
      BY <2>3, <2>5, ByTypeIs
    <3>2. ~ExplicitObfs(n)
      BY <2>5 DEF ExplicitObfs
    <3>3. f # "network" /\ (f = "tls" => Network(n) = "grpc")
      BY <2>2, <2>5, <3>2 DEF QxKeeps
    <3> QED
      BY <1>4, <2>5, <3>1, <3>3 DEF KnownLosses
  <2> QED
    BY <2>1, <2>4, <2>5
<1>5. CASE format \in {"provider", "clash-config"}
  <2>1. f \in Keeps(format, n)
    BY <1>1, <1>5 DEF Keeps, SetOf
  <2> QED
    BY <2>1
<1> QED
  BY <1>2, <1>3, <1>4, <1>5 DEF ImplementedFormats

----------------------------------------------------------------------------
(* The inductive invariant: an answer is what its request calls for under  *)
(* the setup, with the records or none, and a request that follows a link  *)
(* is the one the link of an earlier answer asks for.                      *)

SetupIs == setup \in Setups /\ Valid(setup.server, setup.routes)

AnswerIs(r) ==
    LET sent == request[r]
        n == RouteAt(setup.routes, sent.path)
        system == SystemPath(setup.server, sent.path)
    IN \/ answer[r] = Unanswered /\ writer[r] = "none"
       \/ /\ writer[r] # "none" /\ Sent(r)
          /\ system \/ n = 0
          /\ answer[r] \in {[Unanswered EXCEPT !.status = s] : s \in {200, 404}}
       \/ /\ writer[r] # "none" /\ Sent(r)
          /\ ~system /\ n # 0
          /\ \E records \in {setup.records, <<>>} :
                answer[r] = RouteAnswer(setup, n, sent, records)

Follows(r) ==
    LET first == request[r].from
        link == answer[first].link
    IN first # NoEvent =>
        /\ first \in Requests /\ link # NoLink
        /\ request[r] =
              [path |-> link.path,
               query |-> IF link.target = "none" THEN <<>> ELSE [target |-> link.target],
               agent |-> IF answer[first].companion = "import" THEN "quantumult"
                         ELSE request[first].agent,
               from |-> first]

AnswersInv ==
    /\ SetupIs
    /\ \A r \in Requests : AnswerIs(r)
    /\ \A r \in Requests : Follows(r)

LEMMA SetupFacts ==
    ASSUME SetupIs
    PROVE  /\ ServerOk(setup.server) /\ RecordsOk(setup.records)
           /\ Len(setup.routes) \in Nat /\ DOMAIN setup.routes = 1..Len(setup.routes)
           /\ \A n \in DOMAIN setup.routes : RouteOk(setup.routes[n])
           /\ PathsApart(setup.server, setup.routes)
           /\ \A n \in DOMAIN setup.routes : OutputOk(setup.server, setup.routes[n])
           /\ \A sent \in Inputs(setup) :
                  sent = [path |-> sent.path, query |-> sent.query, agent |-> sent.agent,
                          from |-> sent.from]
BY SetupAssumption DEF SetupIs, Valid

(* What is known of a request that is answered.                            *)
LEMMA AnsweredIs ==
    ASSUME SetupIs, NEW r \in Requests, AnswerIs(r), writer[r] # "none"
    PROVE  \/ answer[r] \in {[Unanswered EXCEPT !.status = s] : s \in {200, 404}}
           \/ LET n == RouteAt(setup.routes, request[r].path) IN
              /\ n \in DOMAIN setup.routes /\ n # 0
              /\ \E records \in {setup.records, <<>>} :
                    /\ answer[r] = RouteAnswer(setup, n, request[r], records)
                    /\ IsAnswer(answer[r], setup, n, request[r], records)
<1> DEFINE n == RouteAt(setup.routes, request[r].path)
<1> SUFFICES ASSUME n # 0,
                    NEW records \in {setup.records, <<>>},
                    answer[r] = RouteAnswer(setup, n, request[r], records)
             PROVE  /\ n \in DOMAIN setup.routes
                    /\ IsAnswer(answer[r], setup, n, request[r], records)
  BY DEF AnswerIs
<1>1. n \in DOMAIN setup.routes /\ CompanionAt(setup.routes[n], request[r].path) # {}
  BY SetupFacts, RouteAtFinds
<1> QED
  BY <1>1, SetupFacts, RouteAnswerIs

LEMMA AnsweredMeans ==
    ASSUME SetupIs, NEW r \in Requests, AnswerIs(r)
    PROVE  /\ Answered(r) <=> writer[r] # "none"
           /\ answer[r].link # NoLink => Answered(r)
<1>1. Unanswered.status = 0 /\ Unanswered.link = NoLink
  BY DEF Unanswered
<1>2. CASE writer[r] = "none"
  BY <1>1, <1>2 DEF AnswerIs, Answered
<1>3. CASE writer[r] # "none"
  <2>1. CASE answer[r] \in {[Unanswered EXCEPT !.status = s] : s \in {200, 404}}
    BY <1>3, <2>1 DEF Unanswered, Answered
  <2>2. CASE answer[r].status \in {200, 302, 400, 403, 422, 500, 503}
    BY <1>3, <2>2 DEF Answered
  <2> QED
    BY <1>3, <2>1, <2>2, AnsweredIs DEF IsAnswer
<1> QED
  BY <1>2, <1>3

LEMMA AnswersInitially == Init => AnswersInv
<1> SUFFICES ASSUME Init PROVE AnswersInv
  OBVIOUS
<1>1. SetupIs
  BY DEF Init, SetupIs
<1>2. ASSUME NEW r \in Requests
      PROVE  AnswerIs(r) /\ Follows(r)
  BY DEF Init, AuditInit, Requests, AnswerIs, Follows, Nothing
<1> QED
  BY <1>1, <1>2 DEF AnswersInv

(* Nothing more can happen to what is answered: the other steps.           *)
LEMMA AnswersIdle ==
    ASSUME AnswersInv, UNCHANGED serverVars,
           \A r \in Requests : writer'[r] = "none" <=> writer[r] = "none"
    PROVE  AnswersInv'
<1> USE DEF serverVars
<1>1. SetupIs'
  BY DEF AnswersInv, SetupIs
<1>2. ASSUME NEW r \in Requests PROVE AnswerIs(r)' /\ Follows(r)'
  <2>1. AnswerIs(r) /\ Follows(r)
    BY DEF AnswersInv
  <2> QED
    BY <2>1 DEF AnswerIs, Follows, Sent
<1> QED
  BY <1>1, <1>2 DEF AnswersInv

LEMMA ThreadsGoOn ==
    ASSUME AuditInv, Audit
    PROVE  \A r \in Requests : writer'[r] = "none" <=> writer[r] = "none"
<1>1. PICK e \in Events : \/ Insert(e) \/ InsertFails(e) \/ Check(e) \/ Acquire(e)
                          \/ Sweep(e) \/ SweepFails(e) \/ Swept(e)
  BY DEF Audit, AuditStep
<1>2. PICK s \in WriterStates \ {"none"} : Goes(e, s)
  BY <1>1 DEF Insert, InsertFails, Check, Acquire, Sweep, SweepFails, Swept, WriterStates
<1>3. writer[e] # "none"
  BY <1>1 DEF Insert, InsertFails, Check, Acquire, Sweep, SweepFails, Swept
<1> QED
  BY <1>2, <1>3, GoesOne DEF AuditInv, Requests

(* A request comes: nobody has been answered it.                           *)
LEMMA AnswersArrive ==
    ASSUME AuditInv, AnswersInv, NEW r \in Requests, NEW sent, Arrives(r, sent),
           \/ sent.from = NoEvent
           \/ LET first == sent.from
                  link == answer[first].link
              IN /\ first \in Requests /\ link # NoLink /\ first # r
                 /\ sent = [path |-> link.path,
                            query |-> IF link.target = "none" THEN <<>>
                                      ELSE [target |-> link.target],
                            agent |-> IF answer[first].companion = "import" THEN "quantumult"
                                      ELSE request[first].agent,
                            from |-> first]
    PROVE  AnswersInv'
<1>1. /\ UNCHANGED <<setup, answer, writer>> /\ ~Sent(r)
      /\ request'[r] = sent
      /\ \A x \in Requests : x # r => request'[x] = request[x]
  BY DEF Arrives, AuditInv, AnswersToRequests, Requests
<1>2. SetupIs'
  BY <1>1 DEF AnswersInv, SetupIs
<1>3. answer[r] = Unanswered /\ writer[r] = "none"
  BY <1>1 DEF AnswersInv, AnswerIs
<1>4. ASSUME NEW x \in Requests PROVE AnswerIs(x)'
  <2>1. CASE x = r
    BY <1>1, <1>3, <2>1 DEF AnswerIs
  <2>2. CASE x # r
    BY <1>1, <2>2 DEF AnswersInv, AnswerIs, Sent
  <2> QED
    BY <2>1, <2>2
<1>5. ASSUME NEW x \in Requests PROVE Follows(x)'
  <2>1. CASE x = r
    BY <1>1, <2>1 DEF Follows
  <2>2. CASE x # r
    <3>1. Follows(x)
      BY DEF AnswersInv
    <3>2. request[x].from # NoEvent => request[x].from # r
      <4>1. answer[r].link = NoLink
        BY <1>3 DEF Unanswered
      <4> QED
        BY <3>1, <4>1 DEF Follows
    <3> QED
      BY <1>1, <2>2, <3>1, <3>2 DEF Follows
  <2> QED
    BY <2>1, <2>2
<1> QED
  BY <1>2, <1>4, <1>5 DEF AnswersInv

(* An answer is given: no link of it has been followed.                    *)
LEMMA AnswersGiven ==
    ASSUME AuditInv, AnswersInv, NEW r \in Requests, AnswerElse(r) \/ AnswerRoute(r)
    PROVE  AnswersInv'
<1>1. /\ UNCHANGED <<setup, request>> /\ Sent(r) /\ ~Answered(r)
      /\ \A x \in Requests : x # r => answer'[x] = answer[x]
  BY DEF AnswerElse, AnswerRoute, AuditInv, AnswersToRequests, Requests
<1>2. PICK state \in {"insert", "end"} : Goes(r, state)
  BY DEF AnswerElse, AnswerRoute, RecordEvent, Record, Goes
<1>3. /\ writer'[r] # "none"
      /\ \A x \in Requests : x # r => writer'[x] = writer[x]
  BY <1>2, GoesOne DEF AuditInv, WriterStates, Requests
<1>4. SetupIs' /\ SetupIs
  BY <1>1 DEF AnswersInv, SetupIs
<1>5. answer[r].link = NoLink
  BY <1>1, <1>4, AnsweredMeans DEF AnswersInv
<1>6. AnswerIs(r)'
  <2>1. CASE AnswerElse(r)
    <3>1. answer'[r] \in {[Unanswered EXCEPT !.status = s] : s \in {200, 404}}
      BY <2>1 DEF AnswerElse, AuditInv, AnswersToRequests, Requests
    <3>2. SystemPath(setup.server, request[r].path) \/ RouteAt(setup.routes, request[r].path) = 0
      BY <2>1 DEF AnswerElse
    <3> QED
      BY <1>1, <1>3, <3>1, <3>2 DEF AnswerIs, Sent
  <2>2. CASE AnswerRoute(r)
    <3> DEFINE n == RouteAt(setup.routes, request[r].path)
    <3>1. /\ ~SystemPath(setup.server, request[r].path) /\ n # 0
          /\ \E records \in {setup.records, <<>>} :
                answer'[r] = RouteAnswer(setup, n, request[r], records)
      BY <2>2 DEF AnswerRoute, AuditInv, AnswersToRequests, Requests
    <3> QED
      BY <1>1, <1>3, <3>1 DEF AnswerIs, Sent
  <2> QED
    BY <2>1, <2>2
<1>7. ASSUME NEW x \in Requests PROVE AnswerIs(x)'
  <2>1. CASE x # r
    BY <1>1, <1>3, <2>1 DEF AnswersInv, AnswerIs, Sent
  <2> QED
    BY <1>6, <2>1
<1>8. ASSUME NEW x \in Requests PROVE Follows(x)'
  <2>1. Follows(x)
    BY DEF AnswersInv
  <2>2. request[x].from # NoEvent => request[x].from # r
    BY <1>5, <2>1 DEF Follows
  <2> QED
    BY <1>1, <2>1, <2>2 DEF Follows
<1> QED
  BY <1>4, <1>7, <1>8 DEF AnswersInv

LEMMA AnswersNext == AuditInv /\ AnswersInv /\ [Next]_vars => AnswersInv'
<1> SUFFICES ASSUME AuditInv, AnswersInv, [Next]_vars PROVE AnswersInv'
  OBVIOUS
<1>1. CASE Time \/ Loop
  BY <1>1, AnswersIdle DEF Time, Loop, auditVars
<1>2. CASE Audit
  BY <1>2, AnswersIdle, ThreadsGoOn DEF Audit
<1>3. ASSUME NEW r \in Requests, Request(r)
      PROVE  AnswersInv'
  <2>1. PICK sent \in Inputs(setup) : Arrives(r, [sent EXCEPT !.from = NoEvent])
    BY <1>3 DEF Request
  <2>2. [sent EXCEPT !.from = NoEvent].from = NoEvent
    BY SetupFacts DEF AnswersInv
  <2> QED
    BY <2>1, <2>2, AnswersArrive
<1>4. ASSUME NEW r \in Requests, NEW first \in Requests, Follow(r, first)
      PROVE  AnswersInv'
  <2> DEFINE link == answer[first].link
             sent == [path |-> link.path,
                      query |-> IF link.target = "none" THEN <<>> ELSE [target |-> link.target],
                      agent |-> IF answer[first].companion = "import" THEN "quantumult"
                                ELSE request[first].agent,
                      from |-> first]
  <2>1. Arrives(r, sent) /\ link # NoLink /\ writer[first] = "end"
    BY <1>4 DEF Follow
  <2>2. first # r
    BY <2>1 DEF Arrives, AnswersInv, AnswerIs
  <2>3. sent.from = first
    OBVIOUS
  <2> QED
    BY <2>1, <2>2, <2>3, AnswersArrive
<1>5. ASSUME NEW r \in Requests, AnswerElse(r) \/ AnswerRoute(r)
      PROVE  AnswersInv'
  BY <1>5, AnswersGiven
<1>6. CASE UNCHANGED vars
  BY <1>6, AnswersIdle DEF vars, auditVars
<1> QED
  BY <1>1, <1>2, <1>3, <1>4, <1>5, <1>6 DEF Next

LEMMA AnswersAlways == Spec => []AnswersInv
BY AuditAlways, AnswersInitially, AnswersNext, PTL DEF Spec

----------------------------------------------------------------------------
(* Types.  The store adds to its rows the events of its threads only.      *)

StoreTypes ==
    /\ events \subseteq Events /\ lost \subseteq Events
    /\ cleaner \in Events \cup {NoEvent}

LEMMA StoreTypesAlways == Spec => []StoreTypes
<1>1. Init => StoreTypes
  BY DEF Init, AuditInit, StoreTypes
<1>2. StoreTypes /\ [Next]_vars => StoreTypes'
  <2> SUFFICES ASSUME StoreTypes, [Next]_vars PROVE StoreTypes'
    OBVIOUS
  <2> USE DEF StoreTypes
  <2>1. CASE Audit
    BY <2>1 DEF Audit, AuditStep, Insert, InsertFails, Check, Acquire, Sweep, SweepFails, Swept
  <2>2. CASE Time \/ Loop \/ UNCHANGED vars
    BY <2>2 DEF Time, Loop, vars, auditVars
  <2>3. ASSUME NEW r \in Requests,
               \/ Request(r) \/ AnswerElse(r) \/ AnswerRoute(r)
               \/ \E first \in Requests : Follow(r, first)
        PROVE  StoreTypes'
    BY <2>3 DEF Request, Follow, Arrives, AnswerElse, AnswerRoute, RecordEvent, Record
  <2> QED
    BY <2>1, <2>2, <2>3 DEF Next
<1> QED
  BY <1>1, <1>2, PTL DEF Spec

(* The values of the variables are the ones meant; a request is answered   *)
(* with a status provider() knows, and the thread of its event is started  *)
(* with the answer.                                                        *)
THEOREM ServerTypes == Spec => []TypeOK
<1>1. ASSUME AuditInv, GridInv, AnswersInv, StoreTypes
      PROVE  TypeOK
  <2>1. AuditTypeOK /\ ClockTypeOK /\ now \in Nat
    BY <1>1 DEF AuditInv, AuditTypes, GridInv, ClockTypes, StoreTypes, AuditTypeOK, ClockTypeOK
  <2>2. ASSUME NEW r \in Requests
        PROVE  /\ request[r].from \in Requests \cup {NoEvent}
               /\ answer[r].status \in {0, 200, 302, 400, 403, 404, 422, 500, 503}
               /\ answer[r].format \in ImplementedFormats \cup {"none"}
               /\ Answered(r) <=> writer[r] # "none"
    <3>1. SetupIs /\ AnswerIs(r) /\ Follows(r)
      BY <1>1 DEF AnswersInv
    <3>2. request[r].from \in Requests \cup {NoEvent}
      BY <3>1 DEF Follows
    <3>3. Answered(r) <=> writer[r] # "none"
      BY <3>1, AnsweredMeans
    <3>4. CASE answer[r] \in {[Unanswered EXCEPT !.status = s] : s \in {0, 200, 404}}
      <4>1. /\ answer[r].status \in {0, 200, 404} /\ answer[r].format = "none"
        BY <3>4 DEF Unanswered
      <4> QED
        BY <3>2, <3>3, <4>1
    <3>5. CASE \E n, records : IsAnswer(answer[r], setup, n, request[r], records)
      BY <3>2, <3>3, <3>5 DEF IsAnswer
    <3>6. Unanswered = [Unanswered EXCEPT !.status = 0]
      BY DEF Unanswered
    <3> QED
      BY <3>1, <3>4, <3>5, <3>6, AnsweredIs DEF AnswerIs
  <2> QED
    BY <2>1, <2>2 DEF TypeOK
<1> QED
  BY <1>1, AuditAlways, GridAlways, AnswersAlways, StoreTypesAlways, PTL

----------------------------------------------------------------------------
(* The lines.                                                              *)

LEMMA StoredRecords ==
    ASSUME SetupIs
    PROVE  AreRecords(setup.records)
<1>1. RecordsOk(setup.records)
  BY SetupFacts
<1>2. Seq(STRING) \subseteq Seq(Token) /\ STRING \subseteq Token
  <2>1. ASSUME NEW n \in Nat, NEW s \in [1..n -> STRING] PROVE s \in [1..n -> Token]
    BY DEF Token
  <2> QED
    BY <2>1, SeqDef DEF Token
<1>3. \A i \in DOMAIN setup.records : IsRecord(setup.records[i])
  BY <1>1, <1>2 DEF RecordsOk, RecordOk, IsRecord
<1> QED
  BY <1>1, <1>3 DEF RecordsOk, AreRecords, IsList

(* The lines of an answer are those of the stored records in its format.   *)
LEMMA LinesOfAnswer ==
    ASSUME SetupIs, NEW r \in Requests, AnswerIs(r), answer[r].lines # <<>>
    PROVE  \E n \in DOMAIN setup.routes :
              /\ answer[r].lines = Lines(answer[r].format, setup.records, setup.routes[n])
              /\ answer[r].format \in ImplementedFormats
              /\ RenameOk(setup.routes[n].rename)
<1>1. Unanswered.lines = <<>> /\ \A s : [Unanswered EXCEPT !.status = s].lines = <<>>
  BY DEF Unanswered
<1> DEFINE n == RouteAt(setup.routes, request[r].path)
<1>2. n \in DOMAIN setup.routes /\ \E records \in {setup.records, <<>>} :
                                      IsAnswer(answer[r], setup, n, request[r], records)
  <2>1. answer[r] # Unanswered /\ \A s : answer[r] # [Unanswered EXCEPT !.status = s]
    BY <1>1
  <2>2. writer[r] # "none"
    BY <2>1 DEF AnswerIs
  <2> QED
    BY <2>1, <2>2, AnsweredIs
<1>3. /\ answer[r].lines = Lines(answer[r].format, setup.records, setup.routes[n])
      /\ answer[r].format \in ImplementedFormats
  BY <1>2 DEF IsAnswer
<1>4. RenameOk(setup.routes[n].rename)
  <2>1. ASSUME NEW k \in Nat, NEW s \in [1..k -> STRING] PROVE s \in [1..k -> Token]
    BY DEF Token
  <2>2. Seq(STRING) \subseteq Seq(Token)
    BY <2>1, SeqDef
  <2> QED
    BY <1>2, <2>2, SetupFacts DEF RouteOk, RenameOk
<1> QED
  BY <1>2, <1>3, <1>4

(* Names that two lines of an output have in common would make a client    *)
(* drop one of them.  However many nodes there are, and whatever filters,  *)
(* renaming and both cleanings made of the names, repair_duplicate_names   *)
(* leaves none in a provider, a Clash config and URIs, and in Surfboard    *)
(* none but a bare number, which comes of a name of which nothing is left; *)
(* of the tags of Quantumult X, cleaned only afterwards, it says nothing.  *)
THEOREM NamesAreApart == Spec => []NamesStayApart
<1>1. ASSUME AnswersInv
      PROVE  NamesStayApart
  <2>1. ASSUME NEW r \in Requests, NEW i \in DOMAIN answer[r].lines,
               NEW j \in DOMAIN answer[r].lines, answer[r].format # "quantumult-x",
               answer[r].lines[i].label = answer[r].lines[j].label
        PROVE  \/ i = j
               \/ answer[r].format = "surfboard" /\ IsNumber(answer[r].lines[i].label)
    <3>1. SetupIs /\ AnswerIs(r)
      BY <1>1 DEF AnswersInv
    <3>2. CASE answer[r].lines = <<>>
      BY <3>2
    <3>3. CASE answer[r].lines # <<>>
      BY <2>1, <3>1, <3>3, LinesOfAnswer, StoredRecords, LinesAre
    <3> QED
      BY <3>2, <3>3
  <2> QED
    BY <2>1 DEF NamesStayApart, IsNumber
<1> QED
  BY <1>1, AnswersAlways, PTL

(* No line of any output drops a field that protects its node, by the      *)
(* names PROXY_SCHEMAS gives those fields and whatever the lists of the    *)
(* renderers are, but for the losses KnownLosses names.                    *)
THEOREM LossesAreNamed == Spec => []LossesAreKnown
<1>1. ASSUME AnswersInv
      PROVE  LossesAreKnown
  <2>1. ASSUME NEW r \in Requests, NEW i \in DOMAIN answer[r].lines
        PROVE  LET line == answer[r].lines[i]
                   n == setup.records[NodeWithId(line.id)].node
               IN Protecting(n) \ line.keeps \subseteq KnownLosses(answer[r].format, n)
    <3> DEFINE line == answer[r].lines[i]
               format == answer[r].format
    <3>1. SetupIs /\ AnswerIs(r)
      BY <1>1 DEF AnswersInv
    <3>2. answer[r].lines # <<>>
      OBVIOUS
    <3>3. LineOfOne(line, setup.records, format) /\ format \in ImplementedFormats
      BY <3>1, <3>2, LinesOfAnswer, StoredRecords, LinesAre
    <3>4. PICK k \in DOMAIN setup.records :
              /\ line.id = setup.records[k].id
              /\ line.keeps = Keeps(format, setup.records[k].node)
              /\ Expressible(format, setup.records[k].node)
      BY <3>3 DEF LineOfOne
    <3>5. RecordsOk(setup.records)
      BY <3>1, SetupFacts
    <3>6. NodeWithId(line.id) = k
      BY <3>4, <3>5 DEF NodeWithId, RecordsOk
    <3>7. setup.records[k].node.type = "hysteria2" =>
              At(setup.records[k].node, "obfs") \in {"absent", "empty", "good", "gecko"}
      BY <3>5 DEF RecordsOk, RecordOk
    <3> QED
      BY <3>3, <3>4, <3>6, <3>7, LossesOfNode
  <2> QED
    BY <2>1 DEF LossesAreKnown
<1> QED
  BY <1>1, AnswersAlways, PTL

----------------------------------------------------------------------------
(* The links                                                               *)

(* What a route answers to a client it allows, in a format it renders.     *)
IsRendered(a, route, records, c, format) ==
    \E q : /\ q.route = route /\ q.records = records /\ q.companion = c
           /\ a.status = Render(format, q).status
           /\ a.lines = Render(format, q).lines

AnswerIn(a, s, n, sent, records, c, format) ==
    /\ a.route = n /\ a.companion = c
    /\ ~AgentAllowed(s.routes[n], sent.agent) => a.status = 403
    /\ AgentAllowed(s.routes[n], sent.agent) =>
          /\ a.format = format
          /\ records = <<>> => a.status = 503
          /\ records # <<>> => IsRendered(a, s.routes[n], records, c, format)

LEMMA AnswerThere ==
    ASSUME NEW s, NEW n, NEW sent, NEW records, NEW c, NEW format \in ImplementedFormats,
           CompanionAt(s.routes[n], sent.path) = {c},
           EffectiveFormat(s.routes[n], c, sent.query, sent.agent) = format
    PROVE  AnswerIn(RouteAnswer(s, n, sent, records), s, n, sent, records, c, format)
<1> DEFINE route == s.routes[n]
           q == [route |-> route, records |-> records, companion |-> c,
                 mainUrl |-> MainUrl(s.server, route, format),
                 nodesUrl |-> NodesUrl(s.server, route)]
           given(f, response) ==
               [status |-> response.status, route |-> n, companion |-> c, format |-> f,
                lines |-> response.lines, link |-> response.link]
           a == RouteAnswer(s, n, sent, records)
<1>1. (CHOOSE d \in CompanionAt(route, sent.path) : TRUE) = c
  OBVIOUS
<1>2. format # "unsupported"
  BY DEF ImplementedFormats
<1>3. a = IF ~AgentAllowed(route, sent.agent) THEN given("none", Refusal(403))
          ELSE IF records = <<>> THEN given(format, Refusal(503))
          ELSE given(format, Render(format, q))
  BY <1>1, <1>2 DEF RouteAnswer
<1>4. q.route = route /\ q.records = records /\ q.companion = c
  OBVIOUS
<1>5. Refusal(403).status = 403 /\ Refusal(503).status = 503
  BY DEF Refusal
<1>6. \A f, response :
        LET g == given(f, response) IN
        /\ g.status = response.status /\ g.route = n /\ g.companion = c /\ g.format = f
        /\ g.lines = response.lines
  OBVIOUS
<1> HIDE DEF q, a, given
<1>7. CASE ~AgentAllowed(route, sent.agent)
  BY <1>3, <1>5, <1>6, <1>7 DEF a, AnswerIn
<1>8. CASE AgentAllowed(route, sent.agent) /\ records = <<>>
  BY <1>3, <1>5, <1>6, <1>8 DEF a, AnswerIn
<1>9. CASE AgentAllowed(route, sent.agent) /\ records # <<>>
  BY <1>3, <1>4, <1>6, <1>9 DEF a, AnswerIn, IsRendered
<1> QED
  BY <1>7, <1>8, <1>9

(* The path of a link leads to the route that made the link.               *)
LEMMA LinkPaths ==
    ASSUME SetupIs, NEW n \in DOMAIN setup.routes,
           NEW c \in {"none"} \cup Companions(setup.routes[n]), NEW path,
           path = IF c = "none" THEN setup.routes[n].path ELSE Companion(setup.routes[n], c)
    PROVE  /\ CompanionAt(setup.routes[n], path) = {c}
           /\ RouteAt(setup.routes, path) = n /\ n # 0
           /\ ~SystemPath(setup.server, path)
<1> DEFINE route == setup.routes[n]
<1>1. route.path \in Seq(STRING)
  BY SetupFacts DEF RouteOk
<1>2. Companions(route) \subseteq {"nodes", "import"}
  BY CompanionsChecked
<1>3. CompanionAt(route, path) = {c}
  <2>1. CASE c = "none"
    BY <2>1 DEF CompanionAt
  <2>2. CASE c # "none"
    <3>1. c \in Companions(route) /\ path = Companion(route, c)
      BY <2>2
    <3>2. path # route.path
      BY <1>1, <1>2, <3>1, CompanionPaths
    <3>3. \A d \in Companions(route) : path = Companion(route, d) => d = c
      BY <1>1, <1>2, <3>1, CompanionPaths
    <3> QED
      BY <3>1, <3>2, <3>3 DEF CompanionAt
  <2> QED
    BY <2>1, <2>2
<1>4. RouteAt(setup.routes, path) = n
      /\ \A i \in DOMAIN SystemPaths(setup.server) : SystemPaths(setup.server)[i] # path
  <2>1. CompanionAt(setup.routes[n], path) # {}
    BY <1>3
  <2>2. /\ Len(setup.routes) \in Nat /\ DOMAIN setup.routes = 1..Len(setup.routes)
        /\ PathsApart(setup.server, setup.routes)
    BY SetupFacts
  <2> QED
    BY <2>1, <2>2, RouteAtIs
<1>5. n # 0
  BY SetupFacts
<1> QED
  BY <1>3, <1>4, <1>5 DEF SystemPath

LEMMA AnswerToLink ==
    ASSUME SetupIs, NEW r \in Requests, AnswerIs(r), Answered(r),
           NEW n \in DOMAIN setup.routes,
           NEW c \in {"none"} \cup Companions(setup.routes[n]),
           request[r].path = IF c = "none" THEN setup.routes[n].path
                             ELSE Companion(setup.routes[n], c)
    PROVE  \E records \in {setup.records, <<>>} :
              answer[r] = RouteAnswer(setup, n, request[r], records)
<1>1. RouteAt(setup.routes, request[r].path) = n /\ n # 0
      /\ ~SystemPath(setup.server, request[r].path)
  BY LinkPaths
<1> QED
  BY <1>1, AnsweredMeans DEF AnswerIs

LEMMA FollowedBy ==
    ASSUME AnswersInv, NEW r \in Requests, request[r].from # NoEvent
    PROVE  LET first == request[r].from
               link == answer[first].link
           IN /\ request[r].path = link.path
              /\ request[r].query = IF link.target = "none" THEN <<>> ELSE [target |-> link.target]
              /\ request[r].agent = IF answer[first].companion = "import" THEN "quantumult"
                                    ELSE request[first].agent
<1> DEFINE first == request[r].from
           link == answer[first].link
           agent == IF answer[first].companion = "import" THEN "quantumult"
                    ELSE request[first].agent
           query == IF link.target = "none" THEN <<>> ELSE [target |-> link.target]
<1>1. request[r] = [path |-> link.path, query |-> query, agent |-> agent, from |-> first]
  BY DEF AnswersInv, Follows
<1> HIDE DEF query, agent
<1>2. request[r].path = link.path /\ request[r].query = query /\ request[r].agent = agent
  BY <1>1
<1> QED
  BY <1>2 DEF query, agent

LEMMA ImportLeadsBack ==
    ASSUME AnswersInv, NEW r \in Requests, Answered(r), NEW first \in Requests,
           request[r].from = first, first # NoEvent,
           NEW n \in DOMAIN setup.routes, NEW records \in {setup.records, <<>>},
           IsAnswer(answer[first], setup, n, request[first], records),
           answer[first].companion = "import", answer[first].link # NoLink
    PROVE  /\ answer[first].link.absolute
           /\ answer[r].route = n /\ answer[r].companion = "none"
           /\ answer[r].status # 403 => answer[r].format = answer[first].format
           /\ answer[r].status \in {200, 403, 422, 503}
<1> DEFINE route == setup.routes[n]
           link == answer[first].link
<1>1. /\ "import" \in CompanionAt(route, request[first].path)
      /\ answer[first].format = EffectiveFormat(route, "import", request[first].query,
                                                request[first].agent)
      /\ answer[first].format \in {"quantumult-x", "surfboard"}
      /\ answer[first].format = "quantumult-x" => link = MainUrl(setup.server, route, "quantumult-x")
  BY DEF IsAnswer
<1>2. "import" \in Companions(route)
  BY <1>1 DEF CompanionAt
<1>3. /\ route.format \in {"auto", "quantumult-x"} /\ route.importLink
  BY <1>2 DEF Companions
<1>4. answer[first].format = "quantumult-x"
  BY <1>1, <1>3 DEF EffectiveFormat, CompanionFormat
<1>5. /\ link.path = route.path /\ link.absolute = setup.server.base
      /\ link.target = IF route.format = "auto" THEN "quanx" ELSE "none"
  BY <1>1, <1>4 DEF MainUrl, PublicUrl, CanonicalTarget
<1>6. setup.server.base
  BY <1>3, SetupFacts DEF AnswersInv, OutputOk, NeedsBase, ServerOk
<1>7. /\ request[r].path = route.path
      /\ request[r].query = IF link.target = "none" THEN <<>> ELSE [target |-> link.target]
  BY <1>5, FollowedBy
<1>8. SetupIs /\ AnswerIs(r)
  BY DEF AnswersInv
<1>9. PICK given \in {setup.records, <<>>} : answer[r] = RouteAnswer(setup, n, request[r], given)
  BY <1>7, <1>8, AnswerToLink
<1>10. CompanionAt(route, request[r].path) = {"none"}
  BY <1>7, <1>8, LinkPaths
<1>11. EffectiveFormat(route, "none", request[r].query, request[r].agent) = "quantumult-x"
  <2>1. CASE route.format = "auto"
    <3>1. QuerySelection(request[r].query) = "quantumult-x"
      BY <1>5, <1>7, <2>1, LinkSelects DEF CanonicalTarget
    <3> QED
      BY <2>1, <3>1 DEF EffectiveFormat, ImplementedFormats
  <2>2. CASE route.format = "quantumult-x"
    BY <2>2 DEF EffectiveFormat
  <2> QED
    BY <1>3, <2>1, <2>2
<1>12. "quantumult-x" \in ImplementedFormats
  BY DEF ImplementedFormats
<1>13. \A q : q.companion = "none" => Render("quantumult-x", q).status \in {200, 422}
  BY DEF Render, RenderLines, Refusal
<1>14. /\ answer[r].route = n /\ answer[r].companion = "none"
       /\ IF AgentAllowed(route, request[r].agent)
          THEN /\ answer[r].format = "quantumult-x"
               /\ answer[r].status \in {200, 422, 503}
          ELSE answer[r].status = 403
  <2>1. AnswerIn(answer[r], setup, n, request[r], given, "none", "quantumult-x")
    BY <1>9, <1>10, <1>11, <1>12, AnswerThere
  <2>2. /\ answer[r].route = n /\ answer[r].companion = "none"
        /\ ~AgentAllowed(route, request[r].agent) => answer[r].status = 403
        /\ AgentAllowed(route, request[r].agent) =>
              /\ answer[r].format = "quantumult-x"
              /\ given = <<>> => answer[r].status = 503
              /\ given # <<>> => IsRendered(answer[r], route, given, "none", "quantumult-x")
    BY <2>1 DEF AnswerIn
  <2>3. given # <<>> /\ AgentAllowed(route, request[r].agent) => answer[r].status \in {200, 422}
    BY <1>13, <2>2 DEF IsRendered
  <2> QED
    BY <2>2, <2>3
<1> QED
  BY <1>4, <1>5, <1>6, <1>14

LEMMA ProfileLeadsBack ==
    ASSUME AnswersInv, NEW r \in Requests, Answered(r), NEW first \in Requests,
           request[r].from = first, first # NoEvent,
           NEW n \in DOMAIN setup.routes, NEW records \in {setup.records, <<>>},
           IsAnswer(answer[first], setup, n, request[first], records),
           answer[first].companion # "import", answer[first].link # NoLink
    PROVE  /\ answer[first].link.absolute
           /\ answer[r].route = n /\ answer[r].companion = "nodes"
           /\ answer[r].format = answer[first].format
           /\ answer[r].status \in {200, 503}
           /\ answer[r].status = 200 => answer[r].lines = answer[first].lines
<1> DEFINE route == setup.routes[n]
           link == answer[first].link
           lines == Lines("surfboard", setup.records, route)
<1>1. /\ answer[first].companion \in CompanionAt(route, request[first].path)
      /\ answer[first].format = "surfboard" /\ answer[first].companion # "nodes"
      /\ answer[first].format = EffectiveFormat(route, answer[first].companion,
                                                request[first].query, request[first].agent)
      /\ link = NodesUrl(setup.server, route)
      /\ AgentAllowed(route, request[first].agent)
      /\ answer[first].lines = lines /\ lines # <<>>
  BY DEF IsAnswer
<1>2. route.format \in {"auto", "surfboard"}
  BY <1>1 DEF EffectiveFormat
<1>3. "nodes" \in Companions(route)
  BY <1>2 DEF Companions
<1>4. /\ link.path = Companion(route, "nodes") /\ link.absolute = setup.server.base
      /\ link.target = IF route.format = "auto" THEN "surfboard" ELSE "none"
  BY <1>1 DEF NodesUrl, PublicUrl, CanonicalTarget
<1>5. setup.server.base
  BY <1>2, SetupFacts DEF AnswersInv, OutputOk, NeedsBase, ServerOk
<1>6. /\ request[r].path = Companion(route, "nodes")
      /\ request[r].query = IF link.target = "none" THEN <<>> ELSE [target |-> link.target]
      /\ request[r].agent = request[first].agent
  BY <1>4, FollowedBy
<1>7. SetupIs /\ AnswerIs(r)
  BY DEF AnswersInv
<1>8. PICK given \in {setup.records, <<>>} : answer[r] = RouteAnswer(setup, n, request[r], given)
  BY <1>3, <1>6, <1>7, AnswerToLink
<1>9. CompanionAt(route, request[r].path) = {"nodes"}
  BY <1>3, <1>6, <1>7, LinkPaths
<1>10. EffectiveFormat(route, "nodes", request[r].query, request[r].agent) = "surfboard"
  <2>1. CASE route.format = "auto"
    <3>1. QuerySelection(request[r].query) = "surfboard"
      BY <1>4, <1>6, <2>1, LinkSelects DEF CanonicalTarget
    <3> QED
      BY <2>1, <3>1 DEF EffectiveFormat, ImplementedFormats, CompanionFormat
  <2>2. CASE route.format = "surfboard"
    BY <2>2 DEF EffectiveFormat
  <2> QED
    BY <1>2, <2>1, <2>2
<1>11. "surfboard" \in ImplementedFormats
  BY DEF ImplementedFormats
<1>12. \A q : q.route = route /\ q.records = setup.records =>
          /\ Render("surfboard", q).status = 200
          /\ Render("surfboard", q).lines = lines
  BY <1>1 DEF Render, RenderLines
<1>13. /\ answer[r].route = n /\ answer[r].companion = "nodes"
       /\ answer[r].format = "surfboard"
       /\ given = <<>> => answer[r].status = 503
       /\ given # <<>> => IsRendered(answer[r], route, given, "nodes", "surfboard")
  <2>1. AgentAllowed(route, request[r].agent)
    BY <1>1, <1>6
  <2>2. AnswerIn(answer[r], setup, n, request[r], given, "nodes", "surfboard")
    BY <1>8, <1>9, <1>10, <1>11, AnswerThere
  <2> QED
    BY <2>1, <2>2 DEF AnswerIn
<1>14. given # <<>> => answer[r].status = 200 /\ answer[r].lines = lines
  BY <1>12, <1>13 DEF IsRendered
<1> QED
  BY <1>1, <1>4, <1>5, <1>13, <1>14

(* A link that was put into an answer leads back to the route that made it *)
(* (_main_public_url, _companion_public_urls): whatever configuration      *)
(* validate() accepts, and whatever else was requested meanwhile.          *)
THEOREM LinksAreGood == Spec => []LinksLeadBack
<1>1. ASSUME AnswersInv, NEW r \in Requests, Answered(r), request[r].from # NoEvent
      PROVE  LET first == answer[request[r].from]
                 imports == first.companion = "import"
             IN /\ first.link.absolute
                /\ answer[r].route = first.route
                /\ answer[r].companion = IF imports THEN "none" ELSE "nodes"
                /\ answer[r].status # 403 => answer[r].format = first.format
                /\ answer[r].status = 403 => imports
                /\ answer[r].status \in {200, 403, 503} \cup (IF imports THEN {422} ELSE {})
                /\ answer[r].status = 200 /\ ~imports => answer[r].lines = first.lines
  <2> DEFINE first == request[r].from
             n == RouteAt(setup.routes, request[first].path)
  <2>1. first \in Requests /\ answer[first].link # NoLink
    BY <1>1 DEF AnswersInv, Follows
  <2>2. SetupIs /\ AnswerIs(first) /\ Answered(first)
    BY <1>1, <2>1, AnsweredMeans DEF AnswersInv
  <2>3. /\ writer[first] # "none"
        /\ answer[first] \notin {[Unanswered EXCEPT !.status = s] : s \in {200, 404}}
    <3>1. \A s : [Unanswered EXCEPT !.status = s].link = NoLink
      BY DEF Unanswered
    <3>2. writer[first] # "none"
      BY <2>1, <2>2, AnsweredMeans
    <3> HIDE DEF first
    <3>3. ASSUME NEW s, answer[first] = [Unanswered EXCEPT !.status = s] PROVE FALSE
      BY <2>1, <3>1, <3>3
    <3> QED
      BY <3>2, <3>3
  <2>4. \/ answer[first] \in {[Unanswered EXCEPT !.status = s] : s \in {200, 404}}
        \/ /\ n \in DOMAIN setup.routes
           /\ \E records \in {setup.records, <<>>} :
                 IsAnswer(answer[first], setup, n, request[first], records)
    BY <2>1, <2>2, <2>3, AnsweredIs
  <2> HIDE DEF n
  <2>5. /\ n \in DOMAIN setup.routes
        /\ \E records \in {setup.records, <<>>} :
              IsAnswer(answer[first], setup, n, request[first], records)
    BY <2>3, <2>4, Zenon
  <2>6. PICK records \in {setup.records, <<>>} :
          IsAnswer(answer[first], setup, n, request[first], records)
    BY <2>5
  <2>7. answer[first].route = n
    BY <2>6 DEF IsAnswer
  <2>8. request[r].from = first /\ first # NoEvent
    BY <1>1
  <2> HIDE DEF first
  <2>9. CASE answer[first].companion = "import"
    <3>1. /\ answer[first].link.absolute
          /\ answer[r].route = n /\ answer[r].companion = "none"
          /\ answer[r].status # 403 => answer[r].format = answer[first].format
          /\ answer[r].status \in {200, 403, 422, 503}
      BY <1>1, <2>1, <2>5, <2>6, <2>8, <2>9, ImportLeadsBack
    <3> QED
      BY <2>7, <2>8, <2>9, <3>1
  <2>10. CASE answer[first].companion # "import"
    <3>1. /\ answer[first].link.absolute
          /\ answer[r].route = n /\ answer[r].companion = "nodes"
          /\ answer[r].status # 403 /\ answer[r].format = answer[first].format
          /\ answer[r].status \in {200, 503}
          /\ answer[r].status = 200 => answer[r].lines = answer[first].lines
      BY <1>1, <2>1, <2>5, <2>6, <2>8, <2>10, ProfileLeadsBack
    <3> QED
      BY <2>7, <2>8, <2>10, <3>1
  <2> QED
    BY <2>9, <2>10
<1>2. AnswersInv => LinksLeadBack
  BY <1>1 DEF LinksLeadBack
<1> QED
  BY <1>2, AnswersAlways, PTL

=============================================================================
