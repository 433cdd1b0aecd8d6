-------------------------- MODULE RefresherProofs --------------------------
(***************************************************************************)
(* Theorems about Refresher for every set of callers, every set of         *)
(* contents and every bound on the calls.                                  *)
(***************************************************************************)
EXTENDS Refresher, SequenceTheorems, TLAPS

----------------------------------------------------------------------------
(* The records the refresher writes are records.                           *)

LEMMA NoCacheType == NoCache \in Records
BY DEF NoCache, Records, Contents

LEMMA SucceededType ==
    ASSUME NEW r \in Records, NEW b \in Records, NEW t \in Nat
    PROVE  Succeeded(r, b, t) \in Records
BY DEF Succeeded, Records

LEMMA FailedType ==
    ASSUME NEW r \in Records, NEW b \in Records, NEW t \in Nat
    PROVE  Failed(r, b, t) \in Records
BY DEF Failed, Records

LEMMA FetchedType ==
    ASSUME NEW v \in Versions, NEW tag \in {v, NoVersion}
    PROVE  Fetched(v, tag) \in Records
BY DEF Fetched, NodesOf, Records, Contents

(* The parts of the steps keep the types of what they assign.              *)

LEMMA QueueType ==
    ASSUME NEW q \in Seq(Callers), NEW c \in Callers
    PROVE  /\ Append(q, c) \in Seq(Callers)
           /\ q # <<>> => Tail(q) \in Seq(Callers) /\ Append(Tail(q), c) \in Seq(Callers)
           /\ \A i \in 1 .. Len(q) : RemoveAt(q, i) \in Seq(Callers)
<1>1. Append(q, c) \in Seq(Callers)
  OBVIOUS
<1>2. ASSUME q # <<>>
      PROVE  Tail(q) \in Seq(Callers) /\ Append(Tail(q), c) \in Seq(Callers)
  BY <1>2
<1>3. ASSUME NEW i \in 1 .. Len(q)
      PROVE  RemoveAt(q, i) \in Seq(Callers)
  <2>1. SubSeq(q, 1, i-1) \in Seq(Callers)
    BY SubSeqProperties
  <2>2. SubSeq(q, i+1, Len(q)) \in Seq(Callers)
    BY SubSeqProperties
  <2> QED
    BY <2>1, <2>2, ConcatProperties DEF RemoveAt
<1> QED
  BY <1>1, <1>2, <1>3

LEMMA GotoType ==
    ASSUME TypeOK, NEW c \in Callers, NEW p \in PCs, Goto(c, p)
    PROVE  pc' \in [Callers -> PCs]
BY DEF TypeOK, Goto

LEMMA StampType ==
    ASSUME TypeOK, NEW c \in Callers, Stamp(c)
    PROVE  clock' \in Nat /\ now' \in [Callers -> Nat]
BY DEF TypeOK, Stamp

LEMMA ExceptType ==
    ASSUME TypeOK, NEW c \in Callers, Except(c)
    PROVE  pc' \in [Callers -> PCs] /\ clock' \in Nat /\ now' \in [Callers -> Nat]
<1>1. {"fcounts", "rget"} \subseteq PCs
  BY DEF PCs, InJob, Locked, JobStore
<1> QED
  BY <1>1, GotoType, StampType DEF Except, TypeOK

LEMMA FinishType ==
    ASSUME TypeOK, NEW c \in Callers, NEW r \in Results, Finish(c, r)
    PROVE  /\ pc' \in [Callers -> PCs]
           /\ result' \in [Callers -> Results]
           /\ refreshing' \in BOOLEAN
           /\ lock' \in Callers \cup {NoCaller}
<1>1. "done" \in PCs
  BY DEF PCs, InJob
<1> QED
  BY <1>1, GotoType DEF Finish, TypeOK

LEMMA TornWriteType ==
    ASSUME TypeOK, TornWrite
    PROVE  stored' \in Records
BY DEF TypeOK, TornWrite

LEMMA LeaveAnyQueueType ==
    ASSUME TypeOK, NEW c \in Callers, LeaveAnyQueue(c)
    PROVE  storeQ' \in Seq(Callers)
<1>1. storeQ \in Seq(Callers)
  BY DEF TypeOK
<1>2. CASE pc[c] \in InStore
  <2>1. PICK i \in 1 .. Len(storeQ) : storeQ' = RemoveAt(storeQ, i)
    BY <1>2 DEF LeaveAnyQueue
  <2> QED
    BY <1>1, <2>1, QueueType
<1>3. CASE pc[c] \notin InStore
  BY <1>1, <1>3 DEF LeaveAnyQueue
<1> QED
  BY <1>2, <1>3

----------------------------------------------------------------------------
(* Every step keeps the types: the calls.                                  *)

LEMMA CallType ==
    ASSUME TypeOK, NEW c \in Callers, Call(c)
    PROVE  TypeOK'
<1>1. {"acquire", "wait", "reply"} \subseteq PCs
  BY DEF PCs, InJob
<1>2. CASE Start(c)
  BY <1>1, <1>2, GotoType DEF Start, TypeOK
<1>3. CASE Join(c)
  BY <1>1, <1>3, GotoType DEF Join, TypeOK, shared
<1>4. CASE JoinDone(c)
  BY <1>1, <1>4, GotoType DEF JoinDone, TypeOK, shared
<1> QED
  BY <1>2, <1>3, <1>4 DEF Call

LEMMA TimeOutType ==
    ASSUME TypeOK, NEW c \in Callers, TimeOut(c)
    PROVE  TypeOK'
<1>1. "wget" \in PCs /\ "none" \in Results
  BY DEF PCs, WaiterStore, Results
<1>2. storeQ' \in Seq(Callers)
  BY QueueType DEF TimeOut, Ask, TypeOK
<1> QED
  BY <1>1, <1>2, GotoType, StampType DEF TimeOut, TypeOK

LEMMA PopType ==
    ASSUME TypeOK, NEW c \in Callers, Pop(c)
    PROVE  TypeOK'
<1>1. "reply" \in PCs
  BY DEF PCs
<1> QED
  BY <1>1, NoCacheType DEF Pop, TypeOK

LEMMA ReturnType ==
    ASSUME TypeOK, NEW c \in Callers, Return(c)
    PROVE  TypeOK'
<1>1. "idle" \in PCs /\ "none" \in Results
  BY DEF PCs, Results
<1> QED
  BY <1>1, GotoType DEF Return, TypeOK, shared

(* The job.                                                                *)

LEMMA AcquireType ==
    ASSUME TypeOK, NEW c \in Callers, Acquire(c)
    PROVE  TypeOK'
<1>1. "get" \in PCs
  BY DEF PCs, InJob, Locked, JobStore
<1>2. storeQ' \in Seq(Callers)
  BY QueueType DEF Acquire, Ask, TypeOK
<1> QED
  BY <1>1, <1>2, GotoType, StampType DEF Acquire, TypeOK

LEMMA UpstreamType ==
    ASSUME TypeOK, NEW c \in Callers, Upstream(c)
    PROVE  TypeOK'
<1>1. {"fetch", "dns", "counts"} \subseteq PCs
  BY DEF PCs, InJob, Locked, JobStore, Fetching
<1>2. Ask(c) => storeQ' \in Seq(Callers)
  BY QueueType DEF Ask, TypeOK
<1>3. CASE Plugins(c)
  BY <1>1, <1>2, <1>3, GotoType, ExceptType DEF Plugins, TypeOK
<1>4. CASE FetchBody(c)
  <2>1. PICK v \in Versions : \E tag \in {v, NoVersion} :
          \/ /\ draft' = [draft EXCEPT ![c] = Fetched(v, tag)]
             /\ Goto(c, "dns")
             /\ UNCHANGED <<storeQ, now, clock>>
          \/ /\ draft' = [draft EXCEPT ![c] = Fetched(v, tag)]
             /\ Goto(c, "counts")
             /\ Ask(c)
             /\ UNCHANGED <<now, clock>>
          \/ /\ Except(c)
             /\ Ask(c)
             /\ UNCHANGED draft
    BY <1>4 DEF FetchBody
  <2>2. draft' \in [Callers -> Records]
    BY <2>1, FetchedType DEF TypeOK
  <2>3. pc' \in [Callers -> PCs] /\ clock' \in Nat /\ now' \in [Callers -> Nat]
    BY <1>1, <2>1, GotoType, ExceptType DEF TypeOK
  <2>4. storeQ' \in Seq(Callers)
    BY <1>2, <2>1 DEF TypeOK
  <2> QED
    BY <1>4, <2>2, <2>3, <2>4 DEF FetchBody, TypeOK
<1>5. CASE FetchNotModified(c)
  BY <1>1, <1>2, <1>5, GotoType DEF FetchNotModified, TypeOK
<1>6. CASE FetchError(c)
  BY <1>2, <1>6, ExceptType DEF FetchError, TypeOK
<1>7. CASE Dns(c)
  BY <1>1, <1>2, <1>7, GotoType, ExceptType DEF Dns, TypeOK
<1> QED
  BY <1>3, <1>4, <1>5, <1>6, <1>7 DEF Upstream

LEMMA ServedType ==
    ASSUME TypeOK, NEW c \in Callers, Served(c)
    PROVE  /\ LeaveStore => storeQ' \in Seq(Callers)
           /\ AskAgain(c) => storeQ' \in Seq(Callers)
BY QueueType DEF TypeOK, Served, LeaveStore, AskAgain

LEMMA LatestType ==
    ASSUME TypeOK, NEW c \in Callers
    PROVE  /\ Latest(c) \in Records /\ stored \in Records /\ old[c] \in Records
           /\ draft[c] \in Records /\ now[c] \in Nat
BY DEF TypeOK, Latest

LEMMA JobStoreType ==
    ASSUME TypeOK, NEW c \in Callers,
           Get(c) \/ Counts(c) \/ Set(c) \/ FailCounts(c) \/ FailSet(c)
    PROVE  TypeOK'
<1>1. {"plugins", "set", "fset"} \subseteq PCs
  BY DEF PCs, InJob, Locked, JobStore, Fetching
<1>2. {"ok", "failed", "raised"} \subseteq Results
  BY DEF Results
<1>3. CASE Get(c)
  BY <1>1, <1>3, GotoType, ExceptType, ServedType, LatestType DEF Get, TypeOK
<1>4. CASE Counts(c)
  <2> Succeeded(draft[c], Latest(c), now[c]) \in Records
    BY LatestType, SucceededType
  <2>1. draft' \in [Callers -> Records]
    BY <1>4 DEF Counts, TypeOK
  <2> QED
    BY <1>1, <1>4, <2>1, GotoType, ExceptType, ServedType DEF Counts, TypeOK
<1>5. CASE Set(c)
  BY <1>2, <1>5, ExceptType, FinishType, ServedType, LatestType DEF Set, TypeOK
<1>6. CASE FailCounts(c)
  <2> Failed(old[c], Latest(c), now[c]) \in Records
    BY LatestType, FailedType
  <2>1. draft' \in [Callers -> Records]
    BY <1>6 DEF FailCounts, TypeOK
  <2> QED
    BY <1>1, <1>2, <1>6, <2>1, GotoType, FinishType, ServedType DEF FailCounts, TypeOK
<1>7. CASE FailSet(c)
  BY <1>2, <1>7, FinishType, ServedType, LatestType DEF FailSet, TypeOK
<1> QED
  BY <1>3, <1>4, <1>5, <1>6, <1>7

(* _record_failed_attempt.                                                 *)

LEMMA RecordedType ==
    ASSUME TypeOK, NEW c \in Callers, JobRecorded(c) \/ WaiterRecorded(c)
    PROVE  /\ pc' \in [Callers -> PCs] /\ result' \in [Callers -> Results]
           /\ now' \in [Callers -> Nat] /\ draft' \in [Callers -> Records]
           /\ lock' \in Callers \cup {NoCaller} /\ refreshing' \in BOOLEAN
<1>1. "reply" \in PCs /\ "failed" \in Results
  BY DEF PCs, Results
<1>2. CASE JobRecorded(c)
  BY <1>1, <1>2, FinishType DEF JobRecorded, TypeOK
<1>3. CASE WaiterRecorded(c)
  BY <1>1, <1>3, GotoType, NoCacheType DEF WaiterRecorded, TypeOK
<1> QED
  BY <1>2, <1>3

LEMMA RecordType ==
    ASSUME TypeOK, NEW c \in Callers, RecordGet(c) \/ RecordSkip(c) \/ RecordSet(c)
    PROVE  TypeOK'
<1>1. {"rset", "wset"} \subseteq PCs
  BY DEF PCs, InJob, Locked, JobStore, WaiterStore
<1>2. CASE RecordGet(c)
  <2>1. draft' \in [Callers -> Records]
    BY <1>2, LatestType, FailedType DEF RecordGet, TypeOK
  <2>2. pc' \in [Callers -> PCs]
    BY <1>1, <1>2, GotoType DEF RecordGet
  <2> QED
    BY <1>2, <2>1, <2>2, ServedType DEF RecordGet, TypeOK
<1>3. CASE RecordSkip(c)
  BY <1>3, RecordedType, ServedType DEF RecordSkip, TypeOK
<1>4. CASE RecordSet(c)
  BY <1>4, RecordedType, ServedType, LatestType DEF RecordSet, TypeOK
<1> QED
  BY <1>2, <1>3, <1>4

(* Cancellation, shutdown, restart and the file's environment.             *)

LEMMA CancelType ==
    ASSUME TypeOK, NEW c \in Callers, CancelJob(c) \/ CancelWaiter(c)
    PROVE  TypeOK'
<1>1. {"done", "reply"} \subseteq PCs /\ "cancelled" \in Results
  BY DEF PCs, InJob, Results
<1>2. CASE CancelJob(c)
  <2>1. stored' \in Records /\ storeQ' \in Seq(Callers)
    BY <1>2, TornWriteType, LeaveAnyQueueType DEF CancelJob, TypeOK
  <2>2. CASE pc[c] \in Locked
    BY <1>1, <1>2, <2>1, <2>2, FinishType DEF CancelJob, TypeOK
  <2>3. CASE pc[c] \notin Locked
    BY <1>1, <1>2, <2>1, <2>3, GotoType DEF CancelJob, TypeOK
  <2> QED
    BY <2>2, <2>3
<1>3. CASE CancelWaiter(c)
  <2>1. stored' \in Records /\ storeQ' \in Seq(Callers)
    BY <1>3, TornWriteType, LeaveAnyQueueType DEF CancelWaiter, TypeOK
  <2> QED
    BY <1>1, <1>3, <2>1, GotoType, NoCacheType DEF CancelWaiter, TypeOK
<1> QED
  BY <1>2, <1>3

LEMMA RestartType ==
    ASSUME TypeOK, Restart
    PROVE  TypeOK'
<1>1. "idle" \in PCs /\ "none" \in Results
  BY DEF PCs, Results
<1>2. <<>> \in Seq(Callers)
  OBVIOUS
<1>3. /\ pc' \in [Callers -> PCs] /\ target' \in [Callers -> Callers \cup {NoCaller}]
      /\ now' \in [Callers -> Nat] /\ old' \in [Callers -> Records]
      /\ draft' \in [Callers -> Records] /\ result' \in [Callers -> Results]
  BY <1>1, NoCacheType DEF Restart, Each
<1> QED
  BY <1>2, <1>3, TornWriteType DEF Restart, TypeOK

LEMMA EnvironmentType ==
    ASSUME TypeOK, Stop \/ LoseFile \/ Terminated
    PROVE  TypeOK'
BY NoCacheType DEF Stop, LoseFile, Terminated, TypeOK, vars, shared, local

LEMMA InitType == Init => TypeOK
<1>1. "idle" \in PCs /\ "none" \in Results
  BY DEF PCs, Results
<1>2. <<>> \in Seq(Callers)
  OBVIOUS
<1> SUFFICES ASSUME Init
             PROVE  TypeOK
  OBVIOUS
<1>3. /\ pc \in [Callers -> PCs] /\ target \in [Callers -> Callers \cup {NoCaller}]
      /\ now \in [Callers -> Nat] /\ old \in [Callers -> Records]
      /\ draft \in [Callers -> Records] /\ result \in [Callers -> Results]
  BY <1>1, NoCacheType DEF Init, Each
<1> QED
  BY <1>2, <1>3, NoCacheType DEF Init, TypeOK

LEMMA StepType == TypeOK /\ [Next]_vars => TypeOK'
<1> SUFFICES ASSUME TypeOK, [Next]_vars
             PROVE  TypeOK'
  OBVIOUS
<1>1. ASSUME NEW c \in Callers, Step(c)
      PROVE  TypeOK'
  BY <1>1, AcquireType, JobStoreType, RecordType, PopType, ReturnType
     DEF Step, StoreStep
<1>2. CASE UNCHANGED vars
  BY <1>2 DEF TypeOK, vars, shared, local
<1> QED
  BY <1>1, <1>2, CallType, TimeOutType, UpstreamType, CancelType, RestartType,
     EnvironmentType DEF Next

(* Every value the model's variables take is of the declared type.         *)
THEOREM TypeCorrect == Spec => []TypeOK
BY InitType, StepType, PTL DEF Spec

----------------------------------------------------------------------------
(* One flight at a time.  SingleFlight alone is not inductive: that Pop    *)
(* leaves no waiter behind needs WaitersHaveAJob, and that a job finds the *)
(* lock free needs the lock to be tied to the job that holds it.           *)

FlightInv == SingleFlight /\ RefreshingWhileLocked /\ WaitersHaveAJob

LEMMA PCFacts ==
    /\ Locked \subseteq InJob
    /\ "acquire" \in InJob \ Locked /\ "done" \in InJob \ Locked
    /\ (WaiterStore \cup {"idle", "wait", "reply"}) \cap InJob = {}
    /\ "wait" \notin WaiterStore
    /\ Fetching \cup JobStore \subseteq Locked
BY DEF InJob, Locked, Fetching, JobStore, WaiterStore

(* A job moves on while it holds the lock.                                 *)
LEMMA JobMoves ==
    ASSUME TypeOK, FlightInv, NEW c \in Callers, NEW p \in Locked,
           pc[c] \in Locked, Goto(c, p),
           UNCHANGED <<inflight, lock, refreshing, target>>
    PROVE  FlightInv'
BY PCFacts DEF TypeOK, FlightInv, SingleFlight, RefreshingWhileLocked, WaitersHaveAJob,
               Goto

(* A job ends and lets go of the lock.                                     *)
LEMMA JobEnds ==
    ASSUME TypeOK, FlightInv, NEW c \in Callers, NEW r,
           pc[c] \in Locked, Finish(c, r),
           UNCHANGED <<inflight, target>>
    PROVE  FlightInv'
BY PCFacts, CallerAssumption
   DEF TypeOK, FlightInv, SingleFlight, RefreshingWhileLocked, WaitersHaveAJob,
       Goto, Finish

(* A caller that owns no job moves on.                                     *)
LEMMA CallerMoves ==
    ASSUME TypeOK, FlightInv, NEW c \in Callers, NEW p \in PCs \ InJob,
           pc[c] \notin InJob, Goto(c, p),
           p = "wait" => target'[c] = inflight /\ inflight # NoCaller,
           \A d \in Callers \ {c} : target'[d] = target[d],
           UNCHANGED <<inflight, lock, refreshing>>
    PROVE  FlightInv'
BY PCFacts DEF TypeOK, FlightInv, SingleFlight, RefreshingWhileLocked, WaitersHaveAJob,
               Goto

LEMMA ExceptMoves ==
    ASSUME TypeOK, FlightInv, NEW c \in Callers, pc[c] \in Locked, Except(c),
           UNCHANGED <<inflight, lock, refreshing, target>>
    PROVE  FlightInv'
<1>1. {"fcounts", "rget"} \subseteq Locked
  BY DEF Locked, JobStore
<1> QED
  BY <1>1, JobMoves DEF Except

LEMMA CallFlight ==
    ASSUME TypeOK, FlightInv, NEW c \in Callers, Call(c)
    PROVE  FlightInv'
<1>1. {"wait", "reply"} \subseteq PCs \ InJob /\ "idle" \notin InJob
  BY PCFacts DEF PCs
<1>2. CASE Start(c)
  <2>1. \A d \in Callers : pc[d] \notin InJob /\ pc[d] # "wait"
    BY <1>2, CallerAssumption
       DEF Start, FlightInv, SingleFlight, WaitersHaveAJob, TypeOK
  <2> QED
    BY <1>2, <2>1, PCFacts
       DEF Start, Goto, FlightInv, SingleFlight, RefreshingWhileLocked, WaitersHaveAJob,
           TypeOK
<1>3. CASE Join(c)
  BY <1>1, <1>3, CallerMoves DEF Join, shared, TypeOK
<1>4. CASE JoinDone(c)
  BY <1>1, <1>4, CallerMoves DEF JoinDone, shared, TypeOK
<1> QED
  BY <1>2, <1>3, <1>4 DEF Call

LEMMA TimeOutFlight ==
    ASSUME TypeOK, FlightInv, NEW c \in Callers, TimeOut(c)
    PROVE  FlightInv'
<1>1. "wget" \in PCs \ InJob /\ "wget" # "wait"
  BY PCFacts DEF PCs, WaiterStore
<1>2. pc[c] \notin InJob
  BY PCFacts DEF TimeOut
<1> QED
  BY <1>1, <1>2, CallerMoves DEF TimeOut, TypeOK

LEMMA PopFlight ==
    ASSUME TypeOK, FlightInv, NEW c \in Callers, Pop(c)
    PROVE  FlightInv'
<1>1. inflight = c /\ c # NoCaller
  BY PCFacts, CallerAssumption DEF Pop, FlightInv, SingleFlight
<1>2. \A d \in Callers : pc'[d] \notin InJob /\ pc'[d] # "wait"
  <2> SUFFICES ASSUME NEW d \in Callers
               PROVE  pc'[d] \notin InJob /\ pc'[d] # "wait"
    OBVIOUS
  <2>1. pc'[d] = IF d = c \/ (pc[d] = "wait" /\ target[d] = c) THEN "reply" ELSE pc[d]
    BY DEF Pop
  <2>2. pc[d] = "wait" => target[d] = c
    BY <1>1 DEF FlightInv, WaitersHaveAJob
  <2>3. pc[d] \in InJob => d = c
    BY <1>1 DEF FlightInv, SingleFlight
  <2> QED
    BY <2>1, <2>2, <2>3, PCFacts
<1>3. \A d \in Callers : pc[d] \notin Locked /\ pc'[d] \notin Locked
  BY <1>1, <1>2, PCFacts DEF Pop, FlightInv, SingleFlight
<1> QED
  BY <1>1, <1>2, <1>3, CallerAssumption
     DEF Pop, FlightInv, SingleFlight, RefreshingWhileLocked, WaitersHaveAJob, TypeOK

LEMMA ReturnFlight ==
    ASSUME TypeOK, FlightInv, NEW c \in Callers, Return(c)
    PROVE  FlightInv'
<1>1. "idle" \in PCs \ InJob /\ "idle" # "wait" /\ "reply" \notin InJob
  BY PCFacts DEF PCs
<1> QED
  BY <1>1, CallerMoves DEF Return, shared, TypeOK

LEMMA AcquireFlight ==
    ASSUME TypeOK, FlightInv, NEW c \in Callers, Acquire(c)
    PROVE  FlightInv'
<1>1. "get" \in Locked
  BY DEF Locked, JobStore
<1> QED
  BY <1>1, PCFacts, CallerAssumption
     DEF Acquire, Goto, FlightInv, SingleFlight, RefreshingWhileLocked, WaitersHaveAJob,
         TypeOK

LEMMA UpstreamFlight ==
    ASSUME TypeOK, FlightInv, NEW c \in Callers, Upstream(c)
    PROVE  FlightInv'
<1>1. {"plugins", "fetch", "dns", "counts"} \subseteq Locked
  BY DEF Locked, Fetching, JobStore
<1>2. CASE Plugins(c)
  BY <1>1, <1>2, JobMoves, ExceptMoves DEF Plugins
<1>3. CASE FetchBody(c)
  <2>1. Goto(c, "dns") \/ Goto(c, "counts") \/ Except(c)
    BY <1>3 DEF FetchBody
  <2> QED
    BY <1>1, <1>3, <2>1, JobMoves, ExceptMoves DEF FetchBody
<1>4. CASE FetchNotModified(c)
  BY <1>1, <1>4, JobMoves DEF FetchNotModified
<1>5. CASE FetchError(c)
  BY <1>1, <1>5, ExceptMoves DEF FetchError
<1>6. CASE Dns(c)
  BY <1>1, <1>6, JobMoves, ExceptMoves DEF Dns
<1> QED
  BY <1>2, <1>3, <1>4, <1>5, <1>6 DEF Upstream

LEMMA StoreStepFlight ==
    ASSUME TypeOK, FlightInv, NEW c \in Callers, StoreStep(c)
    PROVE  FlightInv'
<1>1. {"get", "plugins", "counts", "set", "fcounts", "fset", "rget", "rset"} \subseteq Locked
  BY DEF Locked, Fetching, JobStore
<1>2. {"wget", "wset", "reply"} \subseteq PCs \ InJob
  BY PCFacts DEF PCs, WaiterStore
<1>3. CASE Get(c)
  BY <1>1, <1>3, JobMoves, ExceptMoves DEF Get
<1>4. CASE Counts(c)
  BY <1>1, <1>4, JobMoves, ExceptMoves DEF Counts
<1>5. CASE Set(c)
  BY <1>1, <1>5, JobEnds, ExceptMoves DEF Set
<1>6. CASE FailCounts(c)
  BY <1>1, <1>6, JobMoves, JobEnds DEF FailCounts
<1>7. CASE FailSet(c)
  BY <1>1, <1>7, JobEnds DEF FailSet
<1>8. CASE RecordGet(c)
  <2>1. CASE pc[c] = "rget"
    BY <1>1, <1>8, <2>1, JobMoves DEF RecordGet
  <2>2. CASE pc[c] = "wget"
    BY <1>2, <1>8, <2>2, CallerMoves DEF RecordGet
  <2> QED
    BY <1>8, <2>1, <2>2 DEF RecordGet
<1>9. CASE RecordSkip(c) \/ RecordSet(c)
  <2>1. /\ pc[c] \in {"rget", "rset"} \/ pc[c] \in {"wget", "wset"}
        /\ UNCHANGED <<inflight, target>>
    BY <1>9 DEF RecordSkip, RecordSet
  <2>2. CASE pc[c] \in {"rget", "rset"}
    <3>1. pc[c] \in Locked /\ pc[c] \in InJob
      BY <1>1, <2>2, PCFacts
    <3> QED
      BY <1>9, <2>1, <3>1, JobEnds DEF RecordSkip, RecordSet, JobRecorded
  <2>3. CASE pc[c] \in {"wget", "wset"}
    <3>1. pc[c] \notin InJob
      BY <1>2, <2>3
    <3> QED
      BY <1>2, <1>9, <2>1, <3>1, CallerMoves
         DEF RecordSkip, RecordSet, WaiterRecorded
  <2> QED
    BY <2>1, <2>2, <2>3
<1> QED
  BY <1>3, <1>4, <1>5, <1>6, <1>7, <1>8, <1>9 DEF StoreStep

LEMMA CancelFlight ==
    ASSUME TypeOK, FlightInv, NEW c \in Callers, CancelJob(c) \/ CancelWaiter(c)
    PROVE  FlightInv'
<1>1. CASE CancelJob(c) /\ pc[c] \in Locked
  BY <1>1, JobEnds DEF CancelJob
<1>2. CASE CancelJob(c) /\ pc[c] \notin Locked
  <2>1. /\ pc[c] \in InJob /\ Goto(c, "done")
        /\ UNCHANGED <<inflight, lock, refreshing, target>>
    BY <1>2 DEF CancelJob
  <2>2. "done" # "wait" /\ "done" \in InJob \ Locked
    BY PCFacts
  <2> QED
    BY <1>2, <2>1, <2>2
       DEF Goto, FlightInv, SingleFlight, RefreshingWhileLocked, WaitersHaveAJob, TypeOK
<1>3. CASE CancelWaiter(c)
  <2>1. pc[c] \notin InJob /\ "reply" \in PCs \ InJob /\ "reply" # "wait"
    BY <1>3, PCFacts DEF CancelWaiter, PCs
  <2> QED
    BY <1>3, <2>1, CallerMoves DEF CancelWaiter, TypeOK
<1> QED
  BY <1>1, <1>2, <1>3

LEMMA InitFlight == Init => FlightInv
BY PCFacts, CallerAssumption
   DEF Init, Each, FlightInv, SingleFlight, RefreshingWhileLocked, WaitersHaveAJob

LEMMA RestartFlight == Restart => FlightInv'
BY PCFacts, CallerAssumption
   DEF Restart, Each, FlightInv, SingleFlight, RefreshingWhileLocked, WaitersHaveAJob

LEMMA FlightUnchanged ==
    ASSUME FlightInv, UNCHANGED <<inflight, lock, refreshing, pc, target>>
    PROVE  FlightInv'
BY DEF FlightInv, SingleFlight, RefreshingWhileLocked, WaitersHaveAJob

LEMMA StepFlight == TypeOK /\ FlightInv /\ [Next]_vars => FlightInv'
<1> SUFFICES ASSUME TypeOK, FlightInv, [Next]_vars
             PROVE  FlightInv'
  OBVIOUS
<1>1. ASSUME NEW c \in Callers, Step(c)
      PROVE  FlightInv'
  BY <1>1, AcquireFlight, StoreStepFlight, PopFlight, ReturnFlight DEF Step
<1>2. CASE Stop \/ LoseFile \/ Terminated \/ UNCHANGED vars
  BY <1>2, FlightUnchanged DEF Stop, LoseFile, Terminated, vars, shared, local
<1> QED
  BY <1>1, <1>2, CallFlight, TimeOutFlight, UpstreamFlight, CancelFlight,
     RestartFlight DEF Next

(* Overlapping calls share one job, whose waiters all wait on it and which *)
(* alone holds the lock and the refreshing flag.                           *)
THEOREM OneFlight == Spec => [](SingleFlight /\ RefreshingWhileLocked /\ WaitersHaveAJob)
<1>1. Spec => []FlightInv
  BY InitType, StepType, InitFlight, StepFlight, PTL DEF Spec
<1> QED
  BY <1>1, PTL DEF FlightInv

(* No waiter is left behind: its shielded await is on the job in flight,   *)
(* whichever calls come, are cancelled or time out in between              *)
(* (refresh and its done callback, _refresh_with_lock).                    *)
THEOREM NoWaiterLeft == Spec => []WaitersHaveAJob
<1> QED
  BY OneFlight, PTL

(* refresh_lock_timeout never expires on the lock: the branch of           *)
(* _refresh_with_lock that handles it is unreachable.                      *)
THEOREM LockFree == Spec => []LockNeverContended
<1>1. FlightInv /\ TypeOK => LockNeverContended
  BY PCFacts DEF FlightInv, SingleFlight, RefreshingWhileLocked, LockNeverContended, TypeOK
<1>2. Spec => []FlightInv
  BY OneFlight, PTL DEF FlightInv
<1> QED
  BY <1>1, <1>2, TypeCorrect, PTL

----------------------------------------------------------------------------
(* Coherent records.  What is stored is what some client was about to      *)
(* write, so the invariant follows a record from the fetch to the write.   *)

Good(r) == CoherentRecord(r) /\ r.tries = r.oks + r.fails

(* Fetched content that has no counters yet.                               *)
Fresh(r) ==
    /\ r.nodes \notin EmptyVersions
    /\ r.nodes # NoVersion /\ r.etag # NoVersion => r.nodes = r.etag

RecordInv ==
    /\ Good(stored)
    /\ \A c \in Callers :
          /\ Good(old[c])
          /\ pc[c] \in Writing => Good(draft[c])
          /\ pc[c] \in {"dns", "counts"} => Fresh(draft[c])
          /\ pc[c] = "counts" => draft[c].nodes # NoVersion
          /\ pc[c] \in Locked \cup WaiterStore => now[c] > 0

LEMMA NoCacheGood == Good(NoCache)
BY VersionAssumption DEF Good, CoherentRecord, NoCache

LEMMA SucceededGood ==
    ASSUME NEW r \in Records, NEW b \in Records, NEW t \in Nat,
           Fresh(r), r.nodes # NoVersion, Good(b), t > 0
    PROVE  Good(Succeeded(r, b, t))
BY DEF Good, CoherentRecord, Fresh, Succeeded, Records

LEMMA FailedGood ==
    ASSUME NEW r \in Records, NEW b \in Records, NEW t \in Nat, Good(r), Good(b)
    PROVE  Good(Failed(r, b, t))
BY DEF Good, CoherentRecord, Failed, Records

LEMMA FetchedFresh ==
    ASSUME NEW v \in Versions, NEW tag \in {v, NoVersion}
    PROVE  /\ Fresh(Fetched(v, tag))
           /\ Fetched(v, tag).nodes = NodesOf(v)
BY VersionAssumption DEF Fresh, Fetched, NodesOf

LEMMA LatestGood ==
    ASSUME RecordInv, NEW c \in Callers
    PROVE  Good(Latest(c))
BY DEF RecordInv, Latest

(* The step of one client: the others' part of the invariant is untouched. *)
LEMMA OneClient ==
    ASSUME TypeOK, RecordInv, NEW c \in Callers,
           Good(stored'),
           \A d \in Callers \ {c} :
              /\ pc'[d] = pc[d] /\ old'[d] = old[d]
              /\ draft'[d] = draft[d] /\ now'[d] = now[d],
           Good(old'[c]),
           pc'[c] \in Writing => Good(draft'[c]),
           pc'[c] \in {"dns", "counts"} => Fresh(draft'[c]),
           pc'[c] = "counts" => draft'[c].nodes # NoVersion,
           pc'[c] \in Locked \cup WaiterStore => now'[c] > 0
    PROVE  RecordInv'
BY DEF RecordInv

(* A step that only moves on, to where no record is about to be written.   *)
LEMMA PlainMove ==
    ASSUME TypeOK, RecordInv, NEW c \in Callers, NEW p \in PCs, Goto(c, p),
           p \notin Writing \cup {"dns", "counts"},
           p \notin Locked \cup WaiterStore \/ pc[c] \in Locked,
           UNCHANGED <<stored, old, now>>,
           \A d \in Callers \ {c} : draft'[d] = draft[d]
    PROVE  RecordInv'
<1>1. /\ \A d \in Callers \ {c} : pc'[d] = pc[d]
      /\ pc'[c] = p
  BY DEF Goto, TypeOK
<1> QED
  BY <1>1, OneClient DEF RecordInv, TypeOK

LEMMA ExceptRecord ==
    ASSUME TypeOK, RecordInv, NEW c \in Callers, pc[c] \in Locked, Except(c),
           UNCHANGED <<stored, old, draft>>
    PROVE  RecordInv'
<1>1. CASE old[c].present
  <2>1. "fcounts" \in PCs \ (Writing \cup {"dns", "counts"})
    BY DEF PCs, InJob, Locked, JobStore, Writing
  <2> QED
    BY <1>1, <2>1, PlainMove DEF Except
<1>2. CASE ~old[c].present
  <2>1. "rget" \notin Writing \cup {"dns", "counts"}
    BY DEF Writing
  <2>2. /\ pc'[c] = "rget" /\ now'[c] = clock + 1
        /\ \A d \in Callers \ {c} : pc'[d] = pc[d] /\ now'[d] = now[d]
    BY <1>2 DEF Except, Goto, Stamp, TypeOK
  <2>3. now'[c] > 0
    BY <2>2 DEF TypeOK
  <2> QED
    BY <2>1, <2>2, <2>3, OneClient DEF RecordInv, TypeOK
<1> QED
  BY <1>1, <1>2

LEMMA CallRecord ==
    ASSUME TypeOK, RecordInv, NEW c \in Callers, Call(c)
    PROVE  RecordInv'
<1>1. {"acquire", "wait", "reply"} \subseteq
          PCs \ (Writing \cup {"dns", "counts"} \cup Locked \cup WaiterStore)
  BY DEF PCs, InJob, Writing, Locked, Fetching, JobStore, WaiterStore
<1> QED
  BY <1>1, PlainMove DEF Call, Start, Join, JoinDone, shared

LEMMA StampRecord ==
    ASSUME TypeOK, RecordInv, NEW c \in Callers, TimeOut(c) \/ Acquire(c)
    PROVE  RecordInv'
<1>1. {"wget", "get"} \cap (Writing \cup {"dns", "counts"}) = {}
  BY DEF Writing
<1>2. /\ pc'[c] \in {"wget", "get"} /\ now'[c] = clock + 1
      /\ \A d \in Callers \ {c} : pc'[d] = pc[d] /\ now'[d] = now[d]
      /\ UNCHANGED <<stored, old, draft>>
  BY DEF TimeOut, Acquire, Goto, Stamp, TypeOK
<1>3. now'[c] > 0
  BY <1>2 DEF TypeOK
<1> QED
  BY <1>1, <1>2, <1>3, OneClient DEF RecordInv, TypeOK

LEMMA PopRecord ==
    ASSUME TypeOK, RecordInv, NEW c \in Callers, Pop(c)
    PROVE  RecordInv'
<1>1. "reply" \notin Writing \cup {"dns", "counts"} \cup Locked \cup WaiterStore
  BY DEF Writing, Locked, Fetching, JobStore, WaiterStore
<1>2. ASSUME NEW d \in Callers
      PROVE  /\ Good(old'[d])
             /\ pc'[d] \in Writing => Good(draft'[d])
             /\ pc'[d] \in {"dns", "counts"} => Fresh(draft'[d])
             /\ pc'[d] = "counts" => draft'[d].nodes # NoVersion
             /\ pc'[d] \in Locked \cup WaiterStore => now'[d] > 0
  <2>1. CASE d = c
    BY <1>1, <2>1, NoCacheGood DEF Pop, TypeOK
  <2>2. CASE d # c
    <3>1. pc'[d] = "reply" \/ pc'[d] = pc[d]
      BY DEF Pop
    <3>2. old'[d] = old[d] /\ draft'[d] = draft[d] /\ now'[d] = now[d]
      BY <2>2 DEF Pop, TypeOK
    <3> QED
      BY <1>1, <3>1, <3>2 DEF RecordInv
  <2> QED
    BY <2>1, <2>2
<1> QED
  BY <1>2 DEF RecordInv, Pop

LEMMA ReturnRecord ==
    ASSUME TypeOK, RecordInv, NEW c \in Callers, Return(c)
    PROVE  RecordInv'
<1>1. "idle" \in PCs \ (Writing \cup {"dns", "counts"} \cup Locked \cup WaiterStore)
  BY DEF PCs, Writing, Locked, Fetching, JobStore, WaiterStore
<1> QED
  BY <1>1, PlainMove DEF Return, shared

LEMMA UpstreamRecord ==
    ASSUME TypeOK, RecordInv, NEW c \in Callers, Upstream(c)
    PROVE  RecordInv'
<1>1. /\ {"plugins", "fetch", "dns", "counts"} \subseteq Locked
      /\ {"dns", "counts"} \cap Writing = {}
      /\ "fetch" \in PCs \ (Writing \cup {"dns", "counts"})
  BY DEF PCs, InJob, Locked, Fetching, JobStore, Writing
<1>2. CASE Plugins(c)
  BY <1>1, <1>2, PlainMove, ExceptRecord DEF Plugins
<1>3. CASE FetchBody(c)
  <2>1. pc[c] \in Locked /\ now[c] > 0 /\ UNCHANGED <<stored, old>>
    BY <1>1, <1>3 DEF FetchBody, RecordInv
  <2>2. CASE Except(c) /\ UNCHANGED draft
    BY <2>1, <2>2, ExceptRecord
  <2>3. ASSUME NEW v \in Versions, NEW tag \in {v, NoVersion},
               draft' = [draft EXCEPT ![c] = Fetched(v, tag)], UNCHANGED now,
               Goto(c, "dns") \/ (Goto(c, "counts") /\ NodesOf(v) # NoVersion)
        PROVE  RecordInv'
    <3>1. draft'[c] = Fetched(v, tag)
      BY <2>3 DEF TypeOK
    <3>2. Fresh(draft'[c]) /\ draft'[c].nodes = NodesOf(v)
      BY <3>1, FetchedFresh
    <3>3. /\ pc'[c] \in {"dns", "counts"}
          /\ pc'[c] = "counts" => NodesOf(v) # NoVersion
          /\ \A d \in Callers \ {c} : pc'[d] = pc[d] /\ draft'[d] = draft[d]
      BY <2>3 DEF Goto, TypeOK
    <3> QED
      BY <1>1, <2>1, <2>3, <3>2, <3>3, OneClient DEF RecordInv
  <2> QED
    BY <1>3, <2>2, <2>3 DEF FetchBody
<1>4. CASE FetchNotModified(c)
  <2>1. /\ pc[c] \in Locked /\ now[c] > 0 /\ UNCHANGED <<stored, old, now>>
        /\ draft'[c] = old[c] /\ pc'[c] = "counts"
        /\ \A d \in Callers \ {c} : pc'[d] = pc[d] /\ draft'[d] = draft[d]
    BY <1>1, <1>4 DEF FetchNotModified, Goto, RecordInv, TypeOK
  <2>2. old[c].etag # NoVersion /\ Good(old[c])
    BY <1>4 DEF FetchNotModified, SentValidator, RecordInv
  <2>3. Fresh(old[c]) /\ old[c].nodes # NoVersion
    BY <2>2 DEF Good, CoherentRecord, Fresh
  <2> QED
    BY <1>1, <2>1, <2>2, <2>3, OneClient DEF RecordInv
<1>5. CASE FetchError(c)
  BY <1>1, <1>5, ExceptRecord DEF FetchError
<1>6. CASE Dns(c)
  <2>1. CASE Except(c)
    BY <1>1, <1>6, <2>1, ExceptRecord DEF Dns
  <2>2. CASE draft[c].nodes # NoVersion /\ Goto(c, "counts") /\ UNCHANGED <<now, clock>>
    <3>1. /\ pc[c] = "dns" /\ now[c] > 0 /\ UNCHANGED <<stored, old, now, draft>>
          /\ pc'[c] = "counts" /\ \A d \in Callers \ {c} : pc'[d] = pc[d]
      BY <1>1, <1>6, <2>2 DEF Dns, Goto, RecordInv, TypeOK
    <3> QED
      BY <1>1, <2>2, <3>1, OneClient DEF RecordInv
  <2> QED
    BY <1>6, <2>1, <2>2 DEF Dns
<1> QED
  BY <1>2, <1>3, <1>4, <1>5, <1>6 DEF Upstream

LEMMA JobStoreRecord ==
    ASSUME TypeOK, RecordInv, NEW c \in Callers,
           Get(c) \/ Counts(c) \/ Set(c) \/ FailCounts(c) \/ FailSet(c)
    PROVE  RecordInv'
<1>1. /\ {"get", "counts", "set", "fcounts", "fset"} \subseteq Locked
      /\ {"set", "fset"} \subseteq Writing \ {"dns", "counts"}
      /\ {"plugins", "done"} \cap (Writing \cup {"dns", "counts"}) = {}
      /\ "done" \in PCs \ (Locked \cup WaiterStore)
  BY DEF PCs, InJob, Locked, Fetching, JobStore, WaiterStore, Writing
<1>2. CASE Get(c)
  <2>1. CASE Except(c) /\ UNCHANGED old
    BY <1>1, <1>2, <2>1, ExceptRecord DEF Get
  <2>2. CASE old' = [old EXCEPT ![c] = stored] /\ Goto(c, "plugins") /\ UNCHANGED now
    <3>1. /\ old'[c] = stored /\ pc'[c] = "plugins" /\ pc[c] = "get"
          /\ UNCHANGED <<stored, draft, now>>
          /\ \A d \in Callers \ {c} : pc'[d] = pc[d] /\ old'[d] = old[d]
      BY <1>2, <2>2 DEF Get, Goto, TypeOK
    <3> QED
      BY <1>1, <3>1, OneClient DEF RecordInv
  <2> QED
    BY <1>2, <2>1, <2>2 DEF Get
<1>3. CASE Counts(c)
  <2>1. CASE Except(c) /\ UNCHANGED draft
    BY <1>1, <1>3, <2>1, ExceptRecord DEF Counts
  <2>2. CASE /\ draft' = [draft EXCEPT ![c] = Succeeded(draft[c], Latest(c), now[c])]
             /\ Goto(c, "set")
             /\ UNCHANGED now
    <3>1. Good(Succeeded(draft[c], Latest(c), now[c]))
      BY <1>1, <1>3, LatestType, LatestGood, SucceededGood DEF Counts, RecordInv
    <3>2. /\ draft'[c] = Succeeded(draft[c], Latest(c), now[c]) /\ pc'[c] = "set"
          /\ pc[c] = "counts" /\ UNCHANGED <<stored, old, now>>
          /\ \A d \in Callers \ {c} : pc'[d] = pc[d] /\ draft'[d] = draft[d]
      BY <1>3, <2>2 DEF Counts, Goto, TypeOK
    <3> QED
      BY <1>1, <3>1, <3>2, OneClient DEF RecordInv
  <2> QED
    BY <1>3, <2>1, <2>2 DEF Counts
<1>4. CASE Set(c)
  <2>1. CASE Except(c) /\ UNCHANGED stored
    BY <1>1, <1>4, <2>1, ExceptRecord DEF Set
  <2>2. CASE stored' = draft[c] /\ Finish(c, "ok") /\ UNCHANGED now
    <3>1. /\ pc'[c] = "done" /\ pc[c] = "set" /\ UNCHANGED <<old, now, draft>>
          /\ \A d \in Callers \ {c} : pc'[d] = pc[d]
      BY <1>4, <2>2 DEF Set, Finish, Goto, TypeOK
    <3> QED
      BY <1>1, <2>2, <3>1, OneClient DEF RecordInv
  <2> QED
    BY <1>4, <2>1, <2>2 DEF Set
<1>5. CASE FailCounts(c)
  <2>1. CASE Finish(c, "raised") /\ UNCHANGED draft
    BY <1>1, <1>5, <2>1, PlainMove DEF FailCounts, Finish
  <2>2. CASE /\ draft' = [draft EXCEPT ![c] = Failed(old[c], Latest(c), now[c])]
             /\ Goto(c, "fset")
    <3>1. Good(Failed(old[c], Latest(c), now[c]))
      BY LatestType, LatestGood, FailedGood DEF RecordInv
    <3>2. /\ draft'[c] = Failed(old[c], Latest(c), now[c]) /\ pc'[c] = "fset"
          /\ pc[c] = "fcounts" /\ UNCHANGED <<stored, old, now>>
          /\ \A d \in Callers \ {c} : pc'[d] = pc[d] /\ draft'[d] = draft[d]
      BY <1>5, <2>2 DEF FailCounts, Goto, TypeOK
    <3> QED
      BY <1>1, <3>1, <3>2, OneClient DEF RecordInv
  <2> QED
    BY <1>5, <2>1, <2>2 DEF FailCounts
<1>6. CASE FailSet(c)
  <2>1. /\ pc'[c] = "done" /\ pc[c] = "fset" /\ UNCHANGED <<old, now, draft>>
        /\ \A d \in Callers \ {c} : pc'[d] = pc[d]
        /\ stored' \in {stored, draft[c]}
    BY <1>6 DEF FailSet, Finish, Goto, TypeOK
  <2> QED
    BY <1>1, <2>1, OneClient DEF RecordInv
<1> QED
  BY <1>2, <1>3, <1>4, <1>5, <1>6

LEMMA RecordRecord ==
    ASSUME TypeOK, RecordInv, NEW c \in Callers,
           RecordGet(c) \/ RecordSkip(c) \/ RecordSet(c)
    PROVE  RecordInv'
<1>1. /\ {"rget", "rset", "wget", "wset"} \subseteq Locked \cup WaiterStore
      /\ {"rset", "wset"} \subseteq Writing \ {"dns", "counts"}
      /\ {"done", "reply"} \cap
            (Writing \cup {"dns", "counts"} \cup Locked \cup WaiterStore) = {}
  BY DEF Locked, Fetching, JobStore, WaiterStore, Writing
<1>2. CASE RecordGet(c)
  <2>1. Good(Failed(stored, stored, now[c]))
    BY LatestType, FailedGood DEF RecordInv
  <2>2. /\ draft'[c] = Failed(stored, stored, now[c]) /\ pc'[c] \in {"rset", "wset"}
        /\ pc[c] \in {"rget", "wget"} /\ UNCHANGED <<stored, old, now>>
        /\ \A d \in Callers \ {c} : pc'[d] = pc[d] /\ draft'[d] = draft[d]
    BY <1>2 DEF RecordGet, Goto, TypeOK
  <2> QED
    BY <1>1, <2>1, <2>2, OneClient DEF RecordInv
<1>3. CASE RecordSkip(c) \/ RecordSet(c)
  <2>1. /\ pc'[c] \in {"done", "reply"} /\ UNCHANGED old
        /\ \A d \in Callers \ {c} : pc'[d] = pc[d] /\ draft'[d] = draft[d]
                                    /\ now'[d] = now[d]
    BY <1>3 DEF RecordSkip, RecordSet, JobRecorded, WaiterRecorded, Finish, Goto, TypeOK
  <2>2. Good(stored')
    BY <1>1, <1>3 DEF RecordSkip, RecordSet, RecordInv
  <2> QED
    BY <1>1, <2>1, <2>2, OneClient DEF RecordInv
<1> QED
  BY <1>2, <1>3

LEMMA TornWriteGood ==
    ASSUME RecordInv, TornWrite
    PROVE  Good(stored')
BY DEF RecordInv, TornWrite

LEMMA CancelRecord ==
    ASSUME TypeOK, RecordInv, NEW c \in Callers, CancelJob(c) \/ CancelWaiter(c)
    PROVE  RecordInv'
<1>1. {"done", "reply"} \cap
        (Writing \cup {"dns", "counts"} \cup Locked \cup WaiterStore) = {}
  BY DEF Locked, Fetching, JobStore, WaiterStore, Writing
<1>2. Good(stored')
  BY TornWriteGood DEF CancelJob, CancelWaiter, RecordInv
<1>3. /\ pc'[c] \in {"done", "reply"} /\ UNCHANGED old
      /\ \A d \in Callers \ {c} : pc'[d] = pc[d] /\ draft'[d] = draft[d]
                                  /\ now'[d] = now[d]
  BY DEF CancelJob, CancelWaiter, Finish, Goto, TypeOK
<1> QED
  BY <1>1, <1>2, <1>3, OneClient DEF RecordInv

LEMMA InitRecord == Init => RecordInv
BY NoCacheGood
   DEF Init, Each, RecordInv, Writing, Locked, Fetching, JobStore, WaiterStore

LEMMA RestartRecord == RecordInv /\ Restart => RecordInv'
BY NoCacheGood, TornWriteGood
   DEF Restart, Each, RecordInv, Writing, Locked, Fetching, JobStore, WaiterStore

LEMMA StepRecord == TypeOK /\ RecordInv /\ [Next]_vars => RecordInv'
<1> SUFFICES ASSUME TypeOK, RecordInv, [Next]_vars
             PROVE  RecordInv'
  OBVIOUS
<1>1. ASSUME NEW c \in Callers, Step(c)
      PROVE  RecordInv'
  BY <1>1, StampRecord, JobStoreRecord, RecordRecord, PopRecord, ReturnRecord
     DEF Step, StoreStep
<1>2. CASE LoseFile
  BY <1>2, NoCacheGood DEF LoseFile, RecordInv, local
<1>3. CASE Stop \/ Terminated \/ UNCHANGED vars
  BY <1>3 DEF Stop, Terminated, RecordInv, vars, shared, local
<1> QED
  BY <1>1, <1>2, <1>3, CallRecord, StampRecord, UpstreamRecord, CancelRecord,
     RestartRecord DEF Next

(* Whatever races, fails, is cancelled or killed, the record that is       *)
(* stored pairs a validator with the nodes it validates, has nodes exactly *)
(* if there was a success, and counters that add up.                       *)
THEOREM CacheIsCoherent == Spec => [](CoherentCache /\ CountersBalance)
<1>1. Spec => []RecordInv
  BY InitType, StepType, InitRecord, StepRecord, PTL DEF Spec
<1>2. RecordInv => CoherentCache /\ CountersBalance
  BY DEF RecordInv, Good, CoherentCache, CountersBalance
<1> QED
  BY <1>1, <1>2, PTL

----------------------------------------------------------------------------
(* The contract.  When no wait times out the job is the store's only       *)
(* client: what it has read stays the record until it writes, so each      *)
(* write is one success or one failure after the record before it.         *)

HasRead == Fetching \cup {"counts", "set", "fcounts", "fset"}
Unread == {"idle", "wait", "reply", "acquire", "get"}
Drafted == {"set", "fset", "rset"}

ContractInv ==
    /\ clock >= stored.att
    /\ \A c \in Callers :
          /\ pc[c] \notin WaiterStore
          /\ pc[c] \in HasRead => old[c] = stored
          /\ pc[c] \in Unread => old[c] = NoCache
          /\ pc[c] \in Locked => now[c] > stored.att /\ now[c] <= clock
          /\ pc[c] = "set" => Contract!SuccessAfter(stored, draft[c])
          /\ pc[c] \in {"fset", "rset"} => Contract!FailureAfter(stored, draft[c])
          /\ pc[c] \in Drafted => draft[c].att <= clock

LEMMA ContractFacts ==
    /\ HasRead \subseteq Locked /\ {"get", "rget", "rset"} \subseteq Locked \ HasRead
    /\ Writing \subseteq Locked \cup WaiterStore
    /\ Locked \cap WaiterStore = {}
    /\ {"idle", "wait", "reply", "acquire", "done"} \cap (Locked \cup WaiterStore) = {}
    /\ Locked \subseteq InJob
BY DEF HasRead, Locked, Fetching, JobStore, Writing, WaiterStore, InJob

(* No other client than c is inside the critical section.                  *)
LEMMA OnlyJob ==
    ASSUME FlightInv, NEW c \in Callers, pc[c] \in InJob
    PROVE  \A d \in Callers \ {c} : pc[d] \notin Locked
BY ContractFacts DEF FlightInv, SingleFlight

LEMMA OneClientContract ==
    ASSUME TypeOK, TypeOK', FlightInv, ContractInv, NEW c \in Callers,
           clock' >= stored'.att, clock' >= clock,
           stored' = stored \/ pc[c] \in InJob,
           \A d \in Callers \ {c} :
              /\ pc'[d] = pc[d] /\ old'[d] = old[d]
              /\ draft'[d] = draft[d] /\ now'[d] = now[d],
           pc'[c] \notin WaiterStore,
           pc'[c] \in HasRead => old'[c] = stored',
           pc'[c] \in Unread => old'[c] = NoCache,
           pc'[c] \in Locked => now'[c] > stored'.att /\ now'[c] <= clock',
           pc'[c] = "set" => Contract!SuccessAfter(stored', draft'[c]),
           pc'[c] \in {"fset", "rset"} => Contract!FailureAfter(stored', draft'[c]),
           pc'[c] \in Drafted => draft'[c].att <= clock'
    PROVE  ContractInv'
<1>1. ASSUME NEW d \in Callers \ {c}
      PROVE  /\ pc'[d] \notin WaiterStore
             /\ pc'[d] \in HasRead => old'[d] = stored'
             /\ pc'[d] \in Unread => old'[d] = NoCache
             /\ pc'[d] \in Locked => now'[d] > stored'.att /\ now'[d] <= clock'
             /\ pc'[d] = "set" => Contract!SuccessAfter(stored', draft'[d])
             /\ pc'[d] \in {"fset", "rset"} => Contract!FailureAfter(stored', draft'[d])
             /\ pc'[d] \in Drafted => draft'[d].att <= clock'
  <2>1. CASE pc[c] \in InJob
    <3>1. pc[d] \notin Locked /\ pc'[d] = pc[d] /\ pc[d] \notin WaiterStore
      BY <2>1, OnlyJob DEF ContractInv
    <3>2. Drafted = {"set", "fset", "rset"} /\ Drafted \subseteq Locked
      BY DEF Locked, JobStore, Drafted
    <3>3. pc'[d] \in Unread => old'[d] = NoCache
      BY DEF ContractInv
    <3> QED
      BY <3>1, <3>2, <3>3, ContractFacts
  <2>2. CASE stored' = stored
    <3>1. pc'[d] = pc[d] /\ old'[d] = old[d] /\ draft'[d] = draft[d] /\ now'[d] = now[d]
      OBVIOUS
    <3>2. pc[d] \in Locked => now'[d] > stored'.att /\ now'[d] <= clock'
      <4> SUFFICES ASSUME pc[d] \in Locked
                   PROVE  now'[d] > stored'.att /\ now'[d] <= clock'
        OBVIOUS
      <4>1. now[d] > stored.att /\ now[d] <= clock
        BY DEF ContractInv
      <4> QED
        BY <2>2, <3>1, <4>1 DEF TypeOK
    <3>3. pc[d] \in Drafted => draft'[d].att <= clock'
      <4> SUFFICES ASSUME pc[d] \in Drafted
                   PROVE  draft'[d].att <= clock'
        OBVIOUS
      <4>1. draft[d].att <= clock /\ draft[d].att \in Nat
        BY DEF ContractInv, TypeOK, Records
      <4> QED
        BY <3>1, <4>1 DEF TypeOK
    <3> QED
      BY <2>2, <3>1, <3>2, <3>3 DEF ContractInv
  <2> QED
    BY <2>1, <2>2
<1> QED
  BY <1>1 DEF ContractInv

LEMMA SuccessFollows ==
    ASSUME NEW s \in Records, NEW r \in Records, NEW t \in Nat, t > s.att,
           Fresh(r), r.nodes # NoVersion
    PROVE  Contract!SuccessAfter(s, Succeeded(r, s, t))
BY DEF Contract!SuccessAfter, Contract!Follows, Succeeded, Records, Contents, Fresh

LEMMA FailureFollows ==
    ASSUME NEW s \in Records, NEW t \in Nat, t > s.att
    PROVE  Contract!FailureAfter(s, Failed(s, s, t))
BY DEF Contract!FailureAfter, Contract!Follows, Failed, Records

(* A step that moves on without touching the record.                       *)
LEMMA PlainContract ==
    ASSUME TypeOK, TypeOK', FlightInv, ContractInv,
           NEW c \in Callers, NEW p \in PCs, Goto(c, p),
           p \notin WaiterStore \cup Drafted,
           p \in HasRead => pc[c] \in HasRead,
           p \in Locked => pc[c] \in Locked,
           p \in Unread => pc[c] \in Unread,
           UNCHANGED <<stored, old, now, clock>>,
           \A d \in Callers \ {c} : draft'[d] = draft[d]
    PROVE  ContractInv'
<1>1. /\ \A d \in Callers \ {c} : pc'[d] = pc[d]
      /\ pc'[c] = p
  BY DEF Goto, TypeOK
<1>2. p \in Locked => now[c] > stored.att /\ now[c] <= clock
  BY DEF ContractInv
<1>3. p \in HasRead => old[c] = stored
  BY DEF ContractInv
<1>4. clock >= stored.att /\ clock >= clock
  BY DEF ContractInv, TypeOK
<1>5. p \in Unread => old[c] = NoCache
  BY DEF ContractInv
<1>6. {"set", "fset", "rset"} \subseteq Drafted
  BY DEF Drafted
<1> QED
  BY <1>1, <1>2, <1>3, <1>4, <1>5, <1>6, OneClientContract

LEMMA StampContract ==
    ASSUME TypeOK, TypeOK', FlightInv, ContractInv,
           NEW c \in Callers, NEW p \in {"get", "rget"}, Goto(c, p), Stamp(c),
           p = "get" => pc[c] = "acquire",
           UNCHANGED <<stored, old, draft>>
    PROVE  ContractInv'
<1>1. /\ \A d \in Callers \ {c} : pc'[d] = pc[d] /\ now'[d] = now[d]
      /\ pc'[c] = p /\ now'[c] = clock + 1 /\ clock' = clock + 1
  BY DEF Goto, Stamp, TypeOK
<1>2. clock \in Nat /\ stored.att \in Nat /\ clock >= stored.att
  BY DEF ContractInv, TypeOK, Records
<1>3. p \notin WaiterStore \cup HasRead \cup Drafted \cup {"set", "fset", "rset"}
  BY DEF WaiterStore, HasRead, Fetching, Drafted
<1>4. p \in Unread => old[c] = NoCache
  BY DEF Unread, ContractInv
<1> QED
  BY <1>1, <1>2, <1>3, <1>4, OneClientContract

LEMMA ExceptContract ==
    ASSUME TypeOK, TypeOK', FlightInv, ContractInv, NEW c \in Callers,
           pc[c] \in HasRead \/ (pc[c] \in Locked /\ ~old[c].present), Except(c),
           UNCHANGED <<stored, old, draft>>
    PROVE  ContractInv'
<1>1. CASE old[c].present
  <2>1. /\ "fcounts" \in PCs
        /\ "fcounts" \notin WaiterStore \cup Unread \cup Drafted
    BY DEF PCs, InJob, Locked, JobStore, WaiterStore, Unread, Drafted
  <2>2. pc[c] \in HasRead /\ pc[c] \in Locked
    BY <1>1, ContractFacts
  <2> QED
    BY <1>1, <2>1, <2>2, PlainContract DEF Except
<1>2. CASE ~old[c].present
  BY <1>2, StampContract DEF Except
<1> QED
  BY <1>1, <1>2

LEMMA CallContract ==
    ASSUME TypeOK, TypeOK', FlightInv, ContractInv, NEW c \in Callers,
           Call(c) \/ Return(c)
    PROVE  ContractInv'
<1>1. /\ {"idle", "acquire", "wait", "reply"} \subseteq PCs
      /\ {"idle", "acquire", "wait", "reply"} \subseteq Unread
      /\ {"idle", "acquire", "wait", "reply"} \cap
            (WaiterStore \cup HasRead \cup Locked \cup Drafted) = {}
  BY DEF PCs, InJob, Unread, HasRead, Locked, Fetching, JobStore, WaiterStore, Drafted
<1> QED
  BY <1>1, PlainContract DEF Call, Start, Join, JoinDone, Return, shared

LEMMA AcquireContract ==
    ASSUME TypeOK, TypeOK', FlightInv, ContractInv, NEW c \in Callers, Acquire(c)
    PROVE  ContractInv'
BY StampContract DEF Acquire

LEMMA PopContract ==
    ASSUME TypeOK, TypeOK', FlightInv, ContractInv, NEW c \in Callers, Pop(c)
    PROVE  ContractInv'
<1>1. "reply" \notin WaiterStore \cup HasRead \cup Locked \cup Drafted \cup {"set", "fset", "rset"}
  BY DEF HasRead, Locked, Fetching, JobStore, WaiterStore, Drafted
<1>2. ASSUME NEW d \in Callers
      PROVE  \/ pc'[d] = "reply" /\ old'[d] = NoCache
             \/ /\ pc'[d] = pc[d] /\ old'[d] = old[d]
                /\ draft'[d] = draft[d] /\ now'[d] = now[d]
  <2>1. CASE d = c
    BY <2>1 DEF Pop, TypeOK
  <2>2. CASE d # c /\ pc[d] = "wait"
    <3>1. old'[d] = old[d] /\ old[d] = NoCache
      BY <2>2 DEF Pop, TypeOK, ContractInv, Unread
    <3>2. pc'[d] \in {"reply", pc[d]}
      BY DEF Pop
    <3> QED
      BY <2>2, <3>1, <3>2 DEF Pop, TypeOK
  <2>3. CASE d # c /\ pc[d] # "wait"
    BY <2>3 DEF Pop, TypeOK
  <2> QED
    BY <2>1, <2>2, <2>3
<1>3. stored' = stored /\ clock' = clock
  BY DEF Pop
<1> QED
  BY <1>1, <1>2, <1>3 DEF ContractInv

LEMMA UpstreamContract ==
    ASSUME TypeOK, TypeOK', FlightInv, ContractInv, NEW c \in Callers, Upstream(c)
    PROVE  ContractInv'
<1>1. /\ {"plugins", "fetch", "dns", "counts"} \subseteq PCs \cap HasRead \cap Locked
      /\ {"plugins", "fetch", "dns", "counts"} \cap
            (WaiterStore \cup Unread \cup Drafted) = {}
  BY DEF PCs, InJob, Unread, HasRead, Locked, Fetching, JobStore, WaiterStore, Drafted
<1>2. CASE Plugins(c)
  BY <1>1, <1>2, PlainContract, ExceptContract DEF Plugins
<1>3. CASE FetchBody(c)
  <2>1. pc[c] = "fetch" /\ UNCHANGED <<stored, old>>
    BY <1>3 DEF FetchBody
  <2>2. CASE Except(c) /\ UNCHANGED draft
    BY <1>1, <2>1, <2>2, ExceptContract
  <2>3. ASSUME NEW v \in Versions, NEW tag \in {v, NoVersion},
               draft' = [draft EXCEPT ![c] = Fetched(v, tag)], UNCHANGED <<now, clock>>,
               Goto(c, "dns") \/ Goto(c, "counts")
        PROVE  ContractInv'
    <3>1. \A d \in Callers \ {c} : draft'[d] = draft[d]
      BY <2>3 DEF TypeOK
    <3> QED
      BY <1>1, <2>1, <2>3, <3>1, PlainContract
  <2> QED
    BY <1>3, <2>2, <2>3 DEF FetchBody
<1>4. CASE FetchNotModified(c)
  <2>1. \A d \in Callers \ {c} : draft'[d] = draft[d]
    BY <1>4 DEF FetchNotModified, TypeOK
  <2> QED
    BY <1>1, <1>4, <2>1, PlainContract DEF FetchNotModified
<1>5. CASE FetchError(c)
  BY <1>1, <1>5, ExceptContract DEF FetchError
<1>6. CASE Dns(c)
  BY <1>1, <1>6, PlainContract, ExceptContract DEF Dns
<1> QED
  BY <1>2, <1>3, <1>4, <1>5, <1>6 DEF Upstream

(* A job ends: it has written, failed to write, or been cancelled.         *)
LEMMA EndContract ==
    ASSUME TypeOK, TypeOK', FlightInv, ContractInv, NEW c \in Callers,
           pc[c] \in InJob, pc'[c] = "done",
           \A d \in Callers \ {c} : pc'[d] = pc[d],
           stored' = stored \/ (pc[c] \in Drafted /\ stored' = draft[c]),
           \A d \in Callers \ {c} : now'[d] = now[d],
           UNCHANGED <<old, draft, clock>>
    PROVE  /\ ContractInv'
           /\ [Contract!Next]_stored
<1>1. "done" \notin WaiterStore \cup HasRead \cup Locked \cup Unread \cup Drafted
                   \cup {"set", "fset", "rset"}
  BY DEF HasRead, Locked, Fetching, JobStore, WaiterStore, Unread, Drafted
<1>2. CASE stored' = stored
  <2>1. clock' >= stored'.att /\ clock' >= clock
    BY <1>2 DEF ContractInv, TypeOK
  <2> QED
    BY <1>1, <1>2, <2>1, OneClientContract
<1>3. CASE pc[c] \in Drafted /\ stored' = draft[c]
  <2>1. \/ Contract!SuccessAfter(stored, stored')
        \/ Contract!FailureAfter(stored, stored')
    BY <1>3 DEF ContractInv, Drafted
  <2>2. clock' >= stored'.att /\ clock' >= clock
    BY <1>3 DEF ContractInv, TypeOK, Records
  <2>3. ContractInv'
    BY <1>1, <2>2, OneClientContract
  <2> QED
    BY <2>1, <2>3 DEF Contract!Next, Contract!Succeed, Contract!Fail
<1> QED
  BY <1>2, <1>3

(* The job has computed the record it will write.                          *)
LEMMA DraftContract ==
    ASSUME TypeOK, TypeOK', FlightInv, ContractInv, NEW c \in Callers,
           NEW p \in Drafted, NEW r \in Records, Goto(c, p),
           p # "rset" => pc[c] \in HasRead,
           pc[c] \in Locked,
           draft' = [draft EXCEPT ![c] = r],
           p = "set" => Contract!SuccessAfter(stored, r),
           p # "set" => Contract!FailureAfter(stored, r),
           r.att = now[c],
           UNCHANGED <<stored, old, now, clock>>
    PROVE  ContractInv'
<1>1. /\ \A d \in Callers \ {c} : pc'[d] = pc[d] /\ draft'[d] = draft[d]
      /\ pc'[c] = p /\ draft'[c] = r
  BY DEF Goto, TypeOK
<1>2. now[c] > stored.att /\ now[c] <= clock
  BY DEF ContractInv
<1>3. p \in HasRead => old[c] = stored
  BY DEF ContractInv, HasRead, Fetching, Drafted
<1>4. clock >= stored.att /\ clock >= clock
  BY DEF ContractInv, TypeOK
<1>5. p \notin WaiterStore \cup Unread
  BY DEF Drafted, WaiterStore, Unread
<1>6. p \in {"fset", "rset"} => p # "set"
  OBVIOUS
<1> QED
  BY <1>1, <1>2, <1>3, <1>4, <1>5, <1>6, OneClientContract

LEMMA LatestIsStored ==
    ASSUME NEW c \in Callers, old[c] = stored
    PROVE  Latest(c) = stored
BY DEF Latest

LEMMA JobStoreContract ==
    ASSUME TypeOK, TypeOK', FlightInv, RecordInv, ContractInv, NEW c \in Callers,
           Get(c) \/ Counts(c) \/ Set(c) \/ FailCounts(c) \/ FailSet(c)
    PROVE  ContractInv' /\ [Contract!Next]_stored
<1>1. /\ {"counts", "set", "fcounts", "fset"} \subseteq HasRead
      /\ "get" \in Locked /\ HasRead \subseteq Locked /\ Locked \subseteq InJob
      /\ {"set", "fset"} \subseteq Drafted
      /\ "plugins" \notin WaiterStore \cup Unread \cup Drafted \cup {"set", "fset", "rset"}
  BY ContractFacts DEF HasRead, Locked, JobStore, Drafted, WaiterStore, Unread
<1>2. CASE Get(c)
  <2>1. CASE Except(c) /\ UNCHANGED old
    <3>1. ~old[c].present
      BY <1>2 DEF Get, ContractInv, Unread, NoCache
    <3> QED
      BY <1>1, <1>2, <2>1, <3>1, ExceptContract DEF Get
  <2>2. CASE old' = [old EXCEPT ![c] = stored] /\ Goto(c, "plugins") /\ UNCHANGED <<now, clock>>
    <3>1. /\ old'[c] = stored /\ pc'[c] = "plugins" /\ pc[c] = "get"
          /\ UNCHANGED <<stored, draft, now, clock>>
          /\ \A d \in Callers \ {c} : pc'[d] = pc[d] /\ old'[d] = old[d]
      BY <1>2, <2>2 DEF Get, Goto, TypeOK
    <3>2. now[c] > stored.att /\ now[c] <= clock
      BY <1>1, <3>1 DEF ContractInv
    <3>3. clock >= stored.att /\ clock >= clock
      BY DEF ContractInv, TypeOK
    <3> QED
      BY <1>1, <3>1, <3>2, <3>3, OneClientContract
  <2> QED
    BY <1>2, <2>1, <2>2 DEF Get
<1>3. CASE Counts(c)
  <2>1. CASE Except(c) /\ UNCHANGED draft
    BY <1>1, <1>3, <2>1, ExceptContract DEF Counts
  <2>2. CASE /\ draft' = [draft EXCEPT ![c] = Succeeded(draft[c], Latest(c), now[c])]
             /\ Goto(c, "set")
             /\ UNCHANGED <<now, clock>>
    <3>1. pc[c] = "counts" /\ UNCHANGED <<stored, old>>
      BY <1>3 DEF Counts
    <3>2. Latest(c) = stored /\ now[c] > stored.att
      BY <1>1, <3>1, LatestIsStored DEF ContractInv
    <3>3. Contract!SuccessAfter(stored, Succeeded(draft[c], stored, now[c]))
      BY <3>1, <3>2, LatestType, SuccessFollows DEF RecordInv
    <3>4. /\ Succeeded(draft[c], stored, now[c]) \in Records
          /\ Succeeded(draft[c], stored, now[c]).att = now[c]
      BY LatestType, SucceededType DEF Succeeded
    <3> QED
      BY <1>1, <2>2, <3>1, <3>2, <3>3, <3>4, DraftContract
  <2> QED
    BY <1>3, <2>1, <2>2 DEF Counts
<1>4. CASE Set(c)
  <2>1. CASE Except(c) /\ UNCHANGED stored
    BY <1>1, <1>4, <2>1, ExceptContract DEF Set
  <2>2. CASE stored' = draft[c] /\ Finish(c, "ok") /\ UNCHANGED <<now, clock>>
    <3>1. /\ pc'[c] = "done" /\ pc[c] = "set" /\ UNCHANGED <<old, now, draft, clock>>
          /\ \A d \in Callers \ {c} : pc'[d] = pc[d]
      BY <1>4, <2>2 DEF Set, Finish, Goto, TypeOK
    <3> QED
      BY <1>1, <2>2, <3>1, EndContract
  <2> QED
    BY <1>4, <2>1, <2>2 DEF Set
<1>5. CASE FailCounts(c)
  <2>1. CASE Finish(c, "raised") /\ UNCHANGED draft
    <3>1. /\ pc'[c] = "done" /\ pc[c] = "fcounts"
          /\ UNCHANGED <<stored, old, now, draft, clock>>
          /\ \A d \in Callers \ {c} : pc'[d] = pc[d]
      BY <1>5, <2>1 DEF FailCounts, Finish, Goto, TypeOK
    <3> QED
      BY <1>1, <3>1, EndContract
  <2>2. CASE /\ draft' = [draft EXCEPT ![c] = Failed(old[c], Latest(c), now[c])]
             /\ Goto(c, "fset")
    <3>1. pc[c] = "fcounts" /\ UNCHANGED <<stored, old, now, clock>>
      BY <1>5 DEF FailCounts
    <3>2. Latest(c) = stored /\ old[c] = stored /\ now[c] > stored.att
      BY <1>1, <3>1, LatestIsStored DEF ContractInv
    <3>3. Contract!FailureAfter(stored, Failed(stored, stored, now[c]))
      BY <3>2, LatestType, FailureFollows
    <3>4. /\ Failed(stored, stored, now[c]) \in Records
          /\ Failed(stored, stored, now[c]).att = now[c]
      BY LatestType, FailedType DEF Failed
    <3> QED
      BY <1>1, <2>2, <3>1, <3>2, <3>3, <3>4, DraftContract
  <2> QED
    BY <1>5, <2>1, <2>2 DEF FailCounts
<1>6. CASE FailSet(c)
  <2>1. /\ pc'[c] = "done" /\ pc[c] = "fset" /\ UNCHANGED <<old, now, draft, clock>>
        /\ \A d \in Callers \ {c} : pc'[d] = pc[d]
        /\ stored' \in {stored, draft[c]}
    BY <1>6 DEF FailSet, Finish, Goto, TypeOK
  <2> QED
    BY <1>1, <2>1, EndContract
<1>7. stored' = stored \/ Set(c) \/ FailSet(c)
  BY DEF Get, Counts, FailCounts
<1> QED
  BY <1>2, <1>3, <1>4, <1>5, <1>6, <1>7

LEMMA RecordContract ==
    ASSUME TypeOK, TypeOK', FlightInv, ContractInv, NEW c \in Callers,
           RecordGet(c) \/ RecordSkip(c) \/ RecordSet(c)
    PROVE  ContractInv' /\ [Contract!Next]_stored
<1>1. /\ {"rget", "rset"} \subseteq Locked /\ {"rget", "rset"} \subseteq InJob
      /\ "rset" \in Drafted
      /\ {"wget", "wset"} \subseteq WaiterStore
  BY DEF InJob, Locked, JobStore, Drafted, WaiterStore
<1>2. pc[c] \in {"rget", "rset"}
  BY <1>1 DEF RecordGet, RecordSkip, RecordSet, ContractInv
<1>3. CASE RecordGet(c)
  <2>1. pc[c] = "rget" /\ Goto(c, "rset") /\ UNCHANGED <<stored, old, now, clock>>
        /\ draft' = [draft EXCEPT ![c] = Failed(stored, stored, now[c])]
    BY <1>2, <1>3 DEF RecordGet
  <2>2. now[c] > stored.att
    BY <1>1, <2>1 DEF ContractInv
  <2>3. Contract!FailureAfter(stored, Failed(stored, stored, now[c]))
    BY <2>2, LatestType, FailureFollows
  <2>4. /\ Failed(stored, stored, now[c]) \in Records
        /\ Failed(stored, stored, now[c]).att = now[c]
    BY LatestType, FailedType DEF Failed
  <2> QED
    BY <1>1, <2>1, <2>3, <2>4, DraftContract
<1>4. CASE RecordSkip(c) \/ RecordSet(c)
  <2>1. JobRecorded(c)
    BY <1>1, <1>2, <1>4 DEF RecordSkip, RecordSet
  <2>2. /\ pc'[c] = "done" /\ UNCHANGED <<old, now, draft, clock>>
        /\ \A d \in Callers \ {c} : pc'[d] = pc[d]
        /\ stored' = stored \/ (pc[c] = "rset" /\ stored' = draft[c])
    BY <1>2, <1>4, <2>1 DEF RecordSkip, RecordSet, JobRecorded, Finish, Goto, TypeOK
  <2> QED
    BY <1>1, <1>2, <2>2, EndContract
<1> QED
  BY <1>3, <1>4 DEF RecordGet

(* A torn write is the write of the one job that can be writing.           *)
LEMMA TornContract ==
    ASSUME TypeOK, FlightInv, ContractInv, TornWrite
    PROVE  \/ stored' = stored
           \/ \E c \in Callers : pc[c] \in Drafted /\ stored' = draft[c]
BY DEF TornWrite, ContractInv, Writing, Drafted, WaiterStore

LEMMA CancelContract ==
    ASSUME TypeOK, TypeOK', FlightInv, ContractInv, NEW c \in Callers,
           CancelJob(c) \/ CancelWaiter(c)
    PROVE  ContractInv' /\ [Contract!Next]_stored
<1>1. {"done", "reply"} \cap (WaiterStore \cup HasRead \cup Locked \cup Drafted
                                          \cup {"set", "fset", "rset"}) = {}
  BY DEF HasRead, Locked, Fetching, JobStore, WaiterStore, Drafted
<1>2. CASE CancelJob(c)
  <2>1. /\ pc[c] \in InJob /\ pc'[c] = "done" /\ UNCHANGED <<old, now, draft, clock>>
        /\ \A d \in Callers \ {c} : pc'[d] = pc[d]
    BY <1>2 DEF CancelJob, Finish, Goto, TypeOK
  <2>2. stored' = stored \/ (pc[c] \in Drafted /\ stored' = draft[c])
    <3>1. CASE pc[c] \in Writing /\ Served(c) /\ TornWrite
      <4>1. \A d \in Callers : Served(d) => d = c
        BY <3>1 DEF Served
      <4> QED
        BY <3>1, <4>1 DEF TornWrite, Writing, Drafted, ContractInv, WaiterStore
    <3>2. CASE UNCHANGED stored
      BY <3>2
    <3> QED
      BY <1>2, <3>1, <3>2 DEF CancelJob
  <2> QED
    BY <2>1, <2>2, EndContract
<1>3. CASE CancelWaiter(c)
  <2>1. /\ pc[c] = "wait" /\ pc'[c] = "reply" /\ old'[c] = NoCache
        /\ UNCHANGED <<stored, old, clock>>
        /\ \A d \in Callers \ {c} : /\ pc'[d] = pc[d] /\ draft'[d] = draft[d]
                                    /\ now'[d] = now[d]
    BY <1>3 DEF CancelWaiter, ContractInv, Goto, TypeOK, Writing, Unread
  <2>2. clock >= stored.att /\ clock >= clock
    BY DEF ContractInv, TypeOK
  <2> QED
    BY <1>1, <2>1, <2>2, OneClientContract
<1> QED
  BY <1>2, <1>3

LEMMA RestartContract ==
    ASSUME TypeOK, FlightInv, ContractInv, Restart
    PROVE  ContractInv' /\ [Contract!Next]_stored
<1>1. /\ \A c \in Callers : pc'[c] = "idle" /\ old'[c] = NoCache
      /\ clock' = clock
  BY DEF Restart, Each
<1>2. "idle" \notin WaiterStore \cup HasRead \cup Locked \cup Drafted \cup {"set", "fset", "rset"}
  BY DEF HasRead, Locked, Fetching, JobStore, WaiterStore, Drafted
<1>3. CASE stored' = stored
  BY <1>1, <1>2, <1>3 DEF ContractInv
<1>4. ASSUME NEW c \in Callers, pc[c] \in Drafted, stored' = draft[c]
      PROVE  ContractInv' /\ [Contract!Next]_stored
  <2>1. \/ Contract!SuccessAfter(stored, stored')
        \/ Contract!FailureAfter(stored, stored')
    BY <1>4 DEF ContractInv, Drafted
  <2>2. clock' >= stored'.att
    BY <1>1, <1>4 DEF ContractInv
  <2> QED
    BY <1>1, <1>2, <2>1, <2>2
       DEF ContractInv, Contract!Next, Contract!Succeed, Contract!Fail
<1> QED
  BY <1>3, <1>4, TornContract DEF Restart

LEMMA InitContract == Init => ContractInv /\ Contract!Init
BY DEF Init, Each, ContractInv, Contract!Init, NoCache, WaiterStore, HasRead, Locked,
       Fetching, JobStore, Drafted

LEMMA StepContract ==
    ASSUME ~MayTimeOut, ~MayLoseFile,
           TypeOK, FlightInv, RecordInv, ContractInv, [Next]_vars
    PROVE  ContractInv' /\ [Contract!Next]_stored
<1>1. TypeOK'
  BY StepType
<1>2. ASSUME NEW c \in Callers, Call(c) \/ Acquire(c) \/ Upstream(c) \/ Pop(c) \/ Return(c)
      PROVE  ContractInv' /\ UNCHANGED stored
  <2>1. UNCHANGED stored
    BY <1>2 DEF Call, Start, Join, JoinDone, Acquire, Upstream, Plugins, FetchBody,
                FetchNotModified, FetchError, Dns, Pop, Return, shared
  <2> QED
    BY <1>1, <1>2, <2>1, CallContract, AcquireContract, UpstreamContract, PopContract
<1>3. ASSUME NEW c \in Callers, StoreStep(c)
      PROVE  ContractInv' /\ [Contract!Next]_stored
  BY <1>1, <1>3, JobStoreContract, RecordContract DEF StoreStep
<1>4. ASSUME NEW c \in Callers
      PROVE  ~TimeOut(c) /\ ~LoseFile
  BY DEF TimeOut, LoseFile
<1>5. CASE Stop \/ Terminated \/ UNCHANGED vars
  BY <1>5 DEF Stop, Terminated, ContractInv, vars, shared, local
<1>6. ~LoseFile
  BY DEF LoseFile
<1> QED
  BY <1>1, <1>2, <1>3, <1>4, <1>5, <1>6, CancelContract, RestartContract DEF Next, Step

(* While no wait times out and nobody removes the file, the refresher      *)
(* implements its contract: no failure, race, cancellation or crash takes  *)
(* away cached nodes, and every record follows from the one before.        *)
THEOREM ContractKept ==
    ASSUME ~MayTimeOut, ~MayLoseFile
    PROVE  Spec => KeepsContract
<1>1. Init => TypeOK /\ FlightInv /\ RecordInv /\ ContractInv /\ Contract!Init
  BY InitType, InitFlight, InitRecord, InitContract
<1>2. TypeOK /\ FlightInv /\ RecordInv /\ ContractInv /\ [Next]_vars
        => /\ (TypeOK /\ FlightInv /\ RecordInv /\ ContractInv)'
           /\ [Contract!Next]_stored
  BY StepType, StepFlight, StepRecord, StepContract
<1> QED
  BY <1>1, <1>2, PTL DEF Spec, KeepsContract, Contract!Spec
=============================================================================
