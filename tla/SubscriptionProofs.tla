------------------------ MODULE SubscriptionProofs ------------------------
(***************************************************************************)
(* Theorems about a refresh in Subscription, for every set of origins,     *)
(* hosts and DNS servers, every bound and every subscription: what headers *)
(* hold stays with its origin, the semaphore of the resolver loses no      *)
(* permit, no query outlives the host it was for, the first address wins,  *)
(* and what becomes of the nodes of a body, however many it has.           *)
(***************************************************************************)
EXTENDS Subscription, RecordProofs

----------------------------------------------------------------------------
(* The redirect loop: what holds when a request is sent holds from its     *)
(* first hop on.                                                           *)

HeldAtHome ==
    /\ req.phase = "sent" => req.at \in SafeOrigins
    /\ req.headers \ {"allowed"} # {} => req.at = Home
    /\ "content" \in req.headers => req.body

(* A body goes with a POST, over redirects of status 307 only.             *)
BodyFollows ==
    /\ req.body <=> req.method = "POST"
    /\ req.body => 303 \notin req.kinds

HttpInv == HttpTypeOK /\ HeldAtHome /\ BodyFollows

(* The request at rest.                                                    *)
LEMMA RestHolds ==
    ASSUME NEW p \in HttpPhases \ {"sent"}, NEW s \in {0, 200, 304, 404}, req' = Rest(p, s)
    PROVE  HttpInv'
<1> DEFINE o == CHOOSE o \in Origins : TRUE
<1>1. 0 \in 0..MaxRedirects /\ o \in Origins
  BY RedirectAssumption, HomeAssumption
<1> HIDE DEF o
<1>2. req' = [phase |-> p, at |-> o, method |-> "GET", body |-> FALSE,
              headers |-> {}, hops |-> 0, status |-> s, kinds |-> {}]
  BY DEF Rest, o
<1>3. HttpTypeOK'
  BY <1>1, <1>2 DEF HttpTypeOK, Methods
<1>4. req'.phase # "sent" /\ req'.headers = {} /\ ~req'.body /\ req'.method = "GET"
  BY <1>2
<1> QED
  BY <1>3, <1>4 DEF HttpInv, HeldAtHome, BodyFollows

LEMMA RequestHolds ==
    ASSUME NEW m \in Methods, NEW b \in BOOLEAN, NEW H \in SUBSET Headers,
           req' = Request(Home, m, b, H),
           "content" \in H => b, b <=> m = "POST"
    PROVE  HttpInv'
BY HomeAssumption, RedirectAssumption
DEF HttpInv, HttpTypeOK, HeldAtHome, BodyFollows, Request, HttpPhases, Methods, Headers

(* A redirect keeps the headers that are secret only on their origin.      *)
LEMMA RedirectHolds ==
    ASSUME HttpInv, NEW status \in {303, 307}, NEW to \in Origins, Redirect(status, to)
    PROVE  HttpInv'
<1> DEFINE kept == IF to = req.at THEN req.headers ELSE req.headers \cap {"allowed"}
<1>1. CASE req.hops = MaxRedirects
  <2>1. req' = [req EXCEPT !.phase = "raised"]
    BY <1>1 DEF Redirect
  <2> QED
    BY <2>1 DEF HttpInv, HttpTypeOK, HeldAtHome, BodyFollows, HttpPhases
<1>2. CASE req.hops # MaxRedirects
  <2> DEFINE m == IF status = 307 THEN req.method ELSE "GET"
             b == status = 307 /\ req.body
             H == IF status = 307 THEN kept ELSE kept \ {"content"}
             n == req.hops + 1
             ks == req.kinds \cup {status}
  <2>1. req' = [req EXCEPT !.phase = "check", !.at = to, !.hops = n, !.kinds = ks,
                           !.method = m, !.body = b, !.headers = H]
    BY <1>2 DEF Redirect
  <2>2. /\ kept \in SUBSET Headers /\ kept \subseteq req.headers
        /\ to # req.at => kept \subseteq {"allowed"}
    BY DEF HttpInv, HttpTypeOK
  <2>3. /\ m \in Methods /\ b \in BOOLEAN /\ H \in SUBSET Headers
        /\ ks \in SUBSET {303, 307} /\ n \in 0..MaxRedirects
    BY <1>2, <2>2, RedirectAssumption DEF HttpInv, HttpTypeOK, Methods
  <2>4. /\ H \subseteq kept
        /\ status = 307 => m = req.method /\ b = req.body /\ ks \ {307} \subseteq req.kinds
        /\ status # 307 => m = "GET" /\ ~b /\ "content" \notin H
    <3>1. CASE status = 307
      BY <3>1 DEF HttpInv, HttpTypeOK
    <3>2. CASE status # 307
      BY <3>2
    <3> QED
      BY <3>1, <3>2
  <2> HIDE DEF m, b, H, n, ks, kept
  <2>5. /\ req = [phase |-> req.phase, at |-> req.at, method |-> req.method,
                  body |-> req.body, headers |-> req.headers, hops |-> req.hops,
                  status |-> req.status, kinds |-> req.kinds]
        /\ req.status \in {0, 200, 304, 404}
    BY DEF HttpInv, HttpTypeOK
  <2>6. req' = [phase |-> "check", at |-> to, method |-> m, body |-> b,
                headers |-> H, hops |-> n, status |-> req.status, kinds |-> ks]
    BY <2>1, <2>5
  <2>7. HttpTypeOK'
    BY <2>3, <2>5, <2>6 DEF HttpTypeOK, HttpPhases
  <2>8. /\ req'.phase = "check" /\ req'.at = to /\ req'.method = m
        /\ req'.body = b /\ req'.headers = H /\ req'.kinds = ks
    BY <2>6
  <2>9. HeldAtHome'
    <3>1. ASSUME H \ {"allowed"} # {} PROVE to = Home
      <4>1. PICK h \in H : h # "allowed"
        BY <3>1
      <4>2. to = req.at /\ h \in req.headers
        BY <2>2, <2>4, <4>1
      <4> QED
        BY <4>1, <4>2 DEF HttpInv, HeldAtHome
    <3> QED
      BY <2>2, <2>4, <2>8, <3>1 DEF HttpInv, HeldAtHome
  <2>10. BodyFollows'
    BY <2>4, <2>8 DEF HttpInv, BodyFollows
  <2> QED
    BY <2>7, <2>9, <2>10 DEF HttpInv
<1> QED
  BY <1>1, <1>2

LEMMA HttpStepHolds ==
    ASSUME HttpInv, HttpStep
    PROVE  HttpInv'
<1>1. CASE CheckHop
  BY <1>1 DEF CheckHop, HttpInv, HttpTypeOK, HeldAtHome, BodyFollows, HttpPhases
<1>2. ASSUME NEW status \in {200, 304, 404}, Answer(status)
      PROVE  HttpInv'
  BY <1>2, RestHolds DEF Answer, HttpPhases
<1>3. CASE Breaks
  BY <1>3, RestHolds DEF Breaks, HttpPhases
<1> QED
  BY <1>1, <1>2, <1>3, RedirectHolds DEF HttpStep

LEMMA IdleAgain == ASSUME req' = Idle PROVE HttpInv'
BY RestHolds DEF Idle, HttpPhases

LEMMA HttpInitially == Init => HttpInv
<1> SUFFICES ASSUME Init PROVE HttpInv
  OBVIOUS
<1> DEFINE o == CHOOSE o \in Origins : TRUE
<1>1. 0 \in 0..MaxRedirects /\ o \in Origins
  BY RedirectAssumption, HomeAssumption
<1> HIDE DEF o
<1>2. req = [phase |-> "idle", at |-> o, method |-> "GET", body |-> FALSE,
             headers |-> {}, hops |-> 0, status |-> 0, kinds |-> {}]
  BY DEF Init, Idle, Rest, o
<1>3. HttpTypeOK
  BY <1>1, <1>2 DEF HttpTypeOK, HttpPhases, Methods
<1>4. req.phase # "sent" /\ req.headers = {} /\ ~req.body /\ req.method = "GET"
  BY <1>2
<1> QED
  BY <1>3, <1>4 DEF HttpInv, HeldAtHome, BodyFollows

LEMMA HttpNext == HttpInv /\ [Next]_vars => HttpInv'
<1> SUFFICES ASSUME HttpInv, [Next]_vars PROVE HttpInv'
  OBVIOUS
<1>1. ASSUME UNCHANGED req PROVE HttpInv'
  BY <1>1 DEF HttpInv, HttpTypeOK, HeldAtHome, BodyFollows
<1>2. CASE PluginSends
  BY <1>2, RequestHolds DEF PluginSends, Methods, Headers
<1>3. CASE FetchSends
  <2>1. PICK H \in SUBSET {"validator"} : req' = Request(Home, "GET", FALSE, {"custom"} \cup H)
    BY <1>3 DEF FetchSends
  <2>2. {"custom"} \cup H \in SUBSET Headers /\ "content" \notin {"custom"} \cup H
    BY DEF Headers
  <2> QED
    BY <2>1, <2>2, RequestHolds DEF Methods
<1>4. CASE PluginEnds \/ FetchFails \/ NotModified \/ Fetched
  BY <1>4, IdleAgain DEF PluginEnds, FetchFails, NotModified, Fetched
<1>5. CASE Sending
  BY <1>5, HttpStepHolds DEF Sending
<1>6. CASE Parses \/ Resolving \/ Resolved \/ CancelJob \/ CancelDone
  BY <1>1, <1>6 DEF Parses, Resolving, Resolved, CancelJob, CancelDone
<1>7. CASE UNCHANGED vars
  BY <1>1, <1>7 DEF vars
<1> QED
  BY <1>2, <1>3, <1>4, <1>5, <1>6, <1>7 DEF Next, Step, Terminated

(* However long the chain of redirects is, no request goes to an origin    *)
(* that was not checked, what a source sends along in headers reaches no   *)
(* origin but the one the user gave, and a plugin's body, which another    *)
(* origin may get, goes on only where each redirect was a 307 or 308       *)
(* (SafeHttpClient.request).                                               *)
THEOREM HeadersAreHeld == Spec => []HeadersStayHome
<1>1. HttpInv => HeadersStayHome
  BY DEF HttpInv, HeldAtHome, BodyFollows, HeadersStayHome
<1> QED
  BY <1>1, HttpInitially, HttpNext, PTL DEF Spec

----------------------------------------------------------------------------
(* The resolver: where its tasks wait, and what a host leaves behind.      *)

QueueOK ==
    /\ queue \in Seq(Tasks)
    /\ \A i \in 1..Len(queue) : task[queue[i]] = "queued"
    /\ \A i, j \in 1..Len(queue) : queue[i] = queue[j] => i = j

LeftBehind == {"idle", "next", "found", "unresolved", "cancelled"}

HostsDone == \A h \in Hosts : host[h] \in LeftBehind => Finished(h)

Typed ==
    /\ host \in [Hosts -> HostStates]
    /\ task \in [Tasks -> TaskStates]
    /\ permits \in Nat

ResolverInv == Typed /\ QueueOK /\ HostsDone /\ PermitsBalance

(* Outside the resolution nothing of it is left; a cancelled one has no    *)
(* host that goes on.                                                      *)
StageInv ==
    /\ stage = "cancelling" => Active = {}
    /\ stage \notin {"resolve", "cancelling"} => Running = {} /\ queue = <<>>

LEMMA TasksFinite == IsFiniteSet(Tasks)
<1>1. IsFiniteSet(Families)
  <2>1. Families = {"A"} \cup {"AAAA"}
    BY DEF Families
  <2> QED
    BY <2>1, FS_Singleton, FS_Union
<1> QED
  BY <1>1, HostAssumption, FS_Product DEF Tasks

LEMMA RunningFinite == IsFiniteSet(Running)
BY TasksFinite, FS_Subset DEF Running

LEMMA RemoveAtIs ==
    ASSUME NEW S, NEW q \in Seq(S), NEW i \in 1..Len(q)
    PROVE  /\ RemoveAt(q, i) \in Seq(S)
           /\ Len(RemoveAt(q, i)) = Len(q) - 1
           /\ \A j \in 1..(Len(q) - 1) :
                RemoveAt(q, i)[j] = IF j < i THEN q[j] ELSE q[j + 1]
<1> DEFINE a == SubSeq(q, 1, i - 1)
           b == SubSeq(q, i + 1, Len(q))
<1>1. Len(q) \in Nat /\ \A j \in 1..Len(q) : q[j] \in S
  OBVIOUS
<1>2. a \in Seq(S) /\ Len(a) = i - 1 /\ \A j \in 1..(i - 1) : a[j] = q[j]
  <2>1. \A j \in 1..(i - 1) : q[j] \in S
    BY <1>1
  <2>2. i - 1 \in 1..(Len(q) + 1) \/ i - 1 = 0
    BY <1>1
  <2> QED
    BY <1>1, <2>1, <2>2, SubSeqProperties
<1>3. b \in Seq(S) /\ Len(b) = Len(q) - i /\ \A j \in 1..(Len(q) - i) : b[j] = q[i + j]
  BY <1>1, SubSeqProperties
<1> HIDE DEF a, b
<1>4. a \o b \in Seq(S) /\ Len(a \o b) = Len(q) - 1
  <2>1. a \o b \in Seq(S) /\ Len(a \o b) = Len(a) + Len(b)
    BY <1>2, <1>3, ConcatProperties
  <2> QED
    BY <1>1, <1>2, <1>3, <2>1
<1>5. ASSUME NEW j \in 1..(Len(q) - 1)
      PROVE  (a \o b)[j] = IF j < i THEN q[j] ELSE q[j + 1]
  <2>1. CASE j < i
    BY <1>1, <1>2, <1>3, <2>1, ConcatProperties
  <2>2. CASE ~(j < i)
    <3>1. (a \o b)[j] = b[j - (i - 1)]
      BY <1>1, <1>2, <1>3, <2>2, ConcatProperties
    <3>2. b[j - (i - 1)] = q[i + (j - (i - 1))]
      BY <1>1, <1>3, <2>2
    <3> QED
      BY <1>1, <2>2, <3>1, <3>2
  <2> QED
    BY <2>1, <2>2
<1>6. RemoveAt(q, i) = a \o b
  BY DEF RemoveAt, a, b
<1> QED
  BY <1>4, <1>5, <1>6

(* A task that begins or ends to run moves one permit.                     *)
LEMMA Starts ==
    ASSUME Typed, PermitsBalance, NEW t \in Tasks, task[t] # "running", permits > 0,
           task' = [task EXCEPT ![t] = "running"], permits' = permits - 1
    PROVE  PermitsBalance' /\ permits' \in Nat
<1>1. Running' = Running \cup {t} /\ t \notin Running
  BY DEF Typed, Running
<1>2. Cardinality(Running') = Cardinality(Running) + 1
  BY <1>1, RunningFinite, FS_AddElement
<1>3. Cardinality(Running) \in Nat
  BY RunningFinite, FS_CardinalityType
<1> QED
  BY <1>2, <1>3, ConcurrencyAssumption DEF PermitsBalance, Typed

LEMMA Stops ==
    ASSUME Typed, PermitsBalance, NEW t \in Tasks, task[t] = "running", NEW s \in TaskStates,
           s # "running", task' = [task EXCEPT ![t] = s], permits' = permits + 1
    PROVE  PermitsBalance' /\ permits' \in Nat
<1>1. Running' = Running \ {t} /\ t \in Running
  BY DEF Typed, Running
<1>2. Cardinality(Running') = Cardinality(Running) - 1
  BY <1>1, RunningFinite, FS_RemoveElement
<1>3. Cardinality(Running) \in Nat
  BY RunningFinite, FS_CardinalityType
<1> QED
  BY <1>2, <1>3, ConcurrencyAssumption DEF PermitsBalance, Typed

LEMMA RunningSame ==
    ASSUME Typed, PermitsBalance, UNCHANGED permits, Running' = Running
    PROVE  PermitsBalance' /\ permits' \in Nat
BY DEF PermitsBalance, Typed

LEMMA WithoutIs ==
    ASSUME QueueOK, NEW t \in Tasks
    PROVE  /\ Without(queue, t) \in Seq(Tasks)
           /\ \A i \in 1..Len(Without(queue, t)) :
                \E k \in 1..Len(queue) : Without(queue, t)[i] = queue[k] /\ queue[k] # t
           /\ \A i, j \in 1..Len(Without(queue, t)) :
                Without(queue, t)[i] = Without(queue, t)[j] => i = j
<1>1. queue \in Seq(Tasks) /\ DOMAIN queue = 1..Len(queue) /\ Len(queue) \in Nat
  BY DEF QueueOK
<1>2. CASE t \notin Range(queue)
  <2>1. Without(queue, t) = queue
    BY <1>2 DEF Without
  <2>2. \A k \in 1..Len(queue) : queue[k] # t
    BY <1>1, <1>2 DEF Range
  <2> QED
    BY <1>1, <2>1, <2>2 DEF QueueOK
<1>3. CASE t \in Range(queue)
  <2> DEFINE n == CHOOSE i \in DOMAIN queue : queue[i] = t
             r == RemoveAt(queue, n)
  <2>1. n \in 1..Len(queue) /\ queue[n] = t
    BY <1>1, <1>3 DEF Range
  <2>2. Without(queue, t) = r
    BY <1>3 DEF Without
  <2> HIDE DEF n
  <2>3. /\ r \in Seq(Tasks) /\ Len(r) = Len(queue) - 1
        /\ \A j \in 1..(Len(queue) - 1) : r[j] = IF j < n THEN queue[j] ELSE queue[j + 1]
    BY <1>1, <2>1, RemoveAtIs
  <2> HIDE DEF r
  <2>4. \A i \in 1..Len(r) : \E k \in 1..Len(queue) : r[i] = queue[k] /\ queue[k] # t
    <3> TAKE i \in 1..Len(r)
    <3> DEFINE k == IF i < n THEN i ELSE i + 1
    <3>1. k \in 1..Len(queue) /\ k # n /\ r[i] = queue[k]
      BY <1>1, <2>1, <2>3
    <3>2. queue[k] # t
      BY <2>1, <3>1 DEF QueueOK
    <3> QED
      BY <3>1, <3>2
  <2>5. \A i, j \in 1..Len(r) : r[i] = r[j] => i = j
    <3> TAKE i, j \in 1..Len(r)
    <3> HAVE r[i] = r[j]
    <3> DEFINE k(x) == IF x < n THEN x ELSE x + 1
    <3>1. k(i) \in 1..Len(queue) /\ k(j) \in 1..Len(queue) /\ r[i] = queue[k(i)] /\ r[j] = queue[k(j)]
      BY <1>1, <2>1, <2>3
    <3>2. k(i) = k(j)
      BY <3>1 DEF QueueOK
    <3> QED
      BY <1>1, <2>1, <2>3, <3>2
  <2> QED
    BY <2>2, <2>3, <2>4, <2>5
<1> QED
  BY <1>2, <1>3

----------------------------------------------------------------------------
(* One step of a host or of a task.                                        *)

LEMMA HostsLeave ==
    ASSUME ResolverInv, NEW h \in Hosts, NEW s \in HostStates, Becomes(h, s),
           s \in LeftBehind => Finished(h), UNCHANGED <<task, queue, permits>>
    PROVE  ResolverInv'
<1>1. host' \in [Hosts -> HostStates] /\ \A g \in Hosts : host'[g] = IF g = h THEN s ELSE host[g]
  BY DEF Becomes, ResolverInv, Typed
<1>2. Typed' /\ QueueOK'
  BY <1>1 DEF ResolverInv, Typed, QueueOK
<1>3. HostsDone'
  BY <1>1 DEF ResolverInv, HostsDone, Finished, Waits
<1>4. PermitsBalance'
  BY DEF ResolverInv, PermitsBalance, Running
<1> QED
  BY <1>2, <1>3, <1>4 DEF ResolverInv

LEMMA HostStepHolds ==
    ASSUME ResolverInv, NEW h \in Hosts, HostStep(h)
    PROVE  ResolverInv'
<1>1. CASE GiveUp(h)
  <2>1. Finished(h)
    BY <1>1 DEF GiveUp, ResolverInv, HostsDone, LeftBehind
  <2> QED
    BY <1>1, <2>1, HostsLeave DEF GiveUp, HostStates
<1>2. CASE AComes(h)
  <2>1. CASE Becomes(h, "closing") \/ Becomes(h, "awaitAAAA")
    BY <1>2, <2>1, HostsLeave DEF AComes, HostStates, LeftBehind
  <2>2. CASE /\ Becomes(h, "next")
             /\ task[<<h, "A">>] = "nothing" /\ task[<<h, "AAAA">>] = "none"
    <3>1. Finished(h)
      BY <2>2 DEF Finished, TasksOf, Families, Waits
    <3> QED
      BY <1>2, <2>2, <3>1, HostsLeave DEF AComes, HostStates
  <2> QED
    BY <1>2, <2>1, <2>2 DEF AComes
<1>3. CASE AAAAComes(h)
  BY <1>3, HostsLeave DEF AAAAComes, HostStates, LeftBehind
<1>4. CASE Close(h)
  BY <1>4, HostsLeave DEF Close, HostStates
<1>5. CASE HostCancelled(h)
  BY <1>5, HostsLeave DEF HostCancelled, HostStates
<1> QED
  BY <1>1, <1>2, <1>3, <1>4, <1>5 DEF HostStep

(* The tasks of a host that has just left an endpoint are not in the queue. *)
LEMMA AskHolds ==
    ASSUME ResolverInv, NEW h \in Hosts, NEW ipv6, AskEndpoint(h, ipv6)
    PROVE  ResolverInv'
<1> DEFINE new == IF ipv6 THEN <<<<h, "A">>, <<h, "AAAA">>>> ELSE <<<<h, "A">>>>
           isNew(t) == \E i \in DOMAIN new : new[i] = t
<1>1. /\ task' = [t \in Tasks |-> IF t \notin TasksOf(h) THEN task[t]
                                  ELSE IF isNew(t) THEN "queued" ELSE "none"]
      /\ queue' = queue \o new
      /\ Becomes(h, "awaitA") /\ UNCHANGED permits
  BY DEF AskEndpoint
<1>2. Finished(h)
  BY DEF AskEndpoint, ResolverInv, HostsDone, LeftBehind
<1>3. /\ new \in Seq(Tasks) /\ \A i \in 1..Len(new) : new[i] \in TasksOf(h)
      /\ \A i, j \in 1..Len(new) : new[i] = new[j] => i = j
      /\ DOMAIN new = 1..Len(new) /\ Len(new) \in Nat
  <2>1. <<h, "A">> \in Tasks \cap TasksOf(h) /\ <<h, "AAAA">> \in Tasks \cap TasksOf(h)
    BY DEF Tasks, TasksOf, Families
  <2>2. <<h, "A">> # <<h, "AAAA">>
    OBVIOUS
  <2>3. CASE ipv6
    <3>1. new = <<<<h, "A">>, <<h, "AAAA">>>>
      BY <2>3
    <3> HIDE DEF new
    <3> QED
      BY <2>1, <2>2, <3>1
  <2>4. CASE ~ipv6
    <3>1. new = <<<<h, "A">>>>
      BY <2>4
    <3> HIDE DEF new
    <3> QED
      BY <2>1, <3>1
  <2> QED
    BY <2>3, <2>4
<1> HIDE DEF new
<1>5. Typed'
  <2>1. task' \in [Tasks -> TaskStates]
    BY <1>1 DEF ResolverInv, Typed, TaskStates
  <2>2. host' \in [Hosts -> HostStates]
    BY <1>1 DEF Becomes, ResolverInv, Typed, HostStates
  <2> QED
    BY <1>1, <2>1, <2>2 DEF ResolverInv, Typed
<1>6. Running' = Running
  <2>1. \A t \in Tasks : task'[t] = "running" <=> task[t] = "running"
    <3> TAKE t \in Tasks
    <3>1. CASE t \in TasksOf(h)
      BY <1>1, <1>2, <3>1 DEF Finished, Waits
    <3>2. CASE t \notin TasksOf(h)
      BY <1>1, <3>2
    <3> QED
      BY <3>1, <3>2
  <2> QED
    BY <2>1 DEF Running
<1>7. QueueOK'
  <2>1. /\ queue \in Seq(Tasks) /\ Len(queue) \in Nat
        /\ queue' \in Seq(Tasks) /\ Len(queue') = Len(queue) + Len(new)
        /\ \A i \in 1..(Len(queue) + Len(new)) :
              queue'[i] = IF i <= Len(queue) THEN queue[i] ELSE new[i - Len(queue)]
    BY <1>1, <1>3, ConcatProperties DEF ResolverInv, QueueOK
  <2>2. \A i \in 1..Len(queue) : queue[i] \in Tasks \ TasksOf(h)
    BY <1>2, <2>1 DEF ResolverInv, QueueOK, Finished, Waits
  <2>3. ASSUME NEW i \in 1..Len(queue')
        PROVE  task'[queue'[i]] = "queued"
    <3>1. CASE i <= Len(queue)
      BY <1>1, <2>1, <2>2, <3>1 DEF ResolverInv, QueueOK
    <3>2. CASE ~(i <= Len(queue))
      <4>1. i - Len(queue) \in 1..Len(new) /\ queue'[i] = new[i - Len(queue)]
        BY <1>3, <2>1, <3>2
      <4>2. isNew(queue'[i]) /\ queue'[i] \in TasksOf(h) /\ queue'[i] \in Tasks
        BY <1>3, <2>1, <4>1
      <4> QED
        BY <1>1, <4>2
    <3> QED
      BY <3>1, <3>2
  <2>4. ASSUME NEW i \in 1..Len(queue'), NEW j \in 1..Len(queue'), queue'[i] = queue'[j]
        PROVE  i = j
    <3>1. \A k \in 1..Len(queue') : queue'[k] \in TasksOf(h) <=> ~(k <= Len(queue))
      BY <1>3, <2>1, <2>2
    <3>2. CASE i <= Len(queue)
      BY <2>1, <2>4, <3>1, <3>2 DEF ResolverInv, QueueOK
    <3>3. CASE ~(i <= Len(queue))
      <4>1. ~(j <= Len(queue))
        BY <2>4, <3>1, <3>3
      <4>2. i - Len(queue) \in 1..Len(new) /\ j - Len(queue) \in 1..Len(new)
        BY <1>3, <2>1, <3>3, <4>1
      <4>3. new[i - Len(queue)] = new[j - Len(queue)]
        BY <2>1, <2>4, <3>3, <4>1
      <4>4. i - Len(queue) = j - Len(queue)
        BY <1>3, <4>2, <4>3
      <4> QED
        BY <2>1, <4>4
    <3> QED
      BY <3>2, <3>3
  <2> QED
    BY <2>1, <2>3, <2>4 DEF QueueOK
<1>8. HostsDone'
  <2>1. \A g \in Hosts : g # h => host'[g] = host[g]
    BY <1>1 DEF Becomes, ResolverInv, Typed
  <2>2. host'[h] = "awaitA"
    BY <1>1 DEF Becomes, ResolverInv, Typed
  <2>3. ASSUME NEW g \in Hosts, g # h, NEW t \in TasksOf(g)
        PROVE  task'[t] = task[t]
    BY <1>1, <2>3 DEF TasksOf, Tasks
  <2> QED
    BY <2>1, <2>2, <2>3 DEF ResolverInv, HostsDone, LeftBehind, Finished, Waits
<1> QED
  BY <1>1, <1>5, <1>6, <1>7, <1>8, RunningSame DEF ResolverInv

(* A task that is not in the queue any more: the hosts it is left by stay. *)
LEMMA TaskLeaves ==
    ASSUME ResolverInv, NEW t \in Tasks, Waits(t), NEW s \in TaskStates \ {"queued"},
           task' = [task EXCEPT ![t] = s], UNCHANGED host
    PROVE  HostsDone'
<1>1. \A g \in Hosts : g # t[1] => t \notin TasksOf(g)
  BY DEF Tasks, TasksOf
<1>2. t[1] \in Hosts /\ t \in TasksOf(t[1])
  BY DEF Tasks, TasksOf
<1>3. host[t[1]] \notin LeftBehind
  BY <1>2 DEF ResolverInv, HostsDone, Finished
<1>4. \A u \in Tasks : u # t => task'[u] = task[u]
  BY DEF ResolverInv, Typed
<1>5. \A g \in Hosts : TasksOf(g) \subseteq Tasks
  BY DEF Tasks, TasksOf
<1> QED
  BY <1>1, <1>3, <1>4, <1>5 DEF ResolverInv, HostsDone, Finished, Waits

LEMMA TaskStepHolds ==
    ASSUME ResolverInv, NEW t \in Tasks, TaskStep(t)
    PROVE  ResolverInv'
<1>1. CASE Acquire(t)
  <2>1. /\ queue \in Seq(Tasks) /\ queue # <<>> /\ queue[1] = t /\ Len(queue) \in Nat /\ Len(queue) > 0
        /\ task[t] = "queued"
    BY <1>1 DEF Acquire, ResolverInv, QueueOK
  <2>2. /\ queue' \in Seq(Tasks) /\ Len(queue') = Len(queue) - 1
        /\ \A i \in 1..(Len(queue) - 1) : queue'[i] = queue[i + 1]
    BY <1>1, <2>1 DEF Acquire
  <2>3. \A u \in Tasks : task'[u] = IF u = t THEN "running" ELSE task[u]
    BY <1>1 DEF Acquire, ResolverInv, Typed
  <2>4. QueueOK'
    <3>1. ASSUME NEW i \in 1..Len(queue') PROVE task'[queue'[i]] = "queued"
      <4>1. i + 1 \in 1..Len(queue) /\ queue'[i] = queue[i + 1] /\ queue[i + 1] \in Tasks
        BY <2>1, <2>2
      <4>2. queue[i + 1] # t
        BY <2>1, <4>1 DEF ResolverInv, QueueOK
      <4> QED
        BY <2>3, <4>1, <4>2 DEF ResolverInv, QueueOK
    <3>2. ASSUME NEW i \in 1..Len(queue'), NEW j \in 1..Len(queue'), queue'[i] = queue'[j]
          PROVE  i = j
      <4>1. i + 1 \in 1..Len(queue) /\ j + 1 \in 1..Len(queue) /\ queue[i + 1] = queue[j + 1]
        BY <2>1, <2>2, <3>2
      <4>2. i + 1 = j + 1
        BY <4>1 DEF ResolverInv, QueueOK
      <4> QED
        BY <2>2, <4>2
    <3> QED
      BY <2>2, <3>1, <3>2 DEF QueueOK
  <2>5. PermitsBalance' /\ permits' \in Nat
    BY <1>1, <2>1, Starts DEF Acquire, ResolverInv
  <2>6. HostsDone'
    BY <1>1, <2>1, TaskLeaves DEF Acquire, Waits, TaskStates
  <2>7. Typed'
    BY <1>1, <2>5 DEF Acquire, ResolverInv, Typed, TaskStates
  <2> QED
    BY <2>4, <2>5, <2>6, <2>7 DEF ResolverInv
<1>2. CASE QueryEnds(t)
  <2>1. PICK s \in {"found", "nothing"} : task' = [task EXCEPT ![t] = s]
    BY <1>2 DEF QueryEnds
  <2>2. task[t] = "running" /\ permits' = permits + 1 /\ UNCHANGED <<host, queue>>
    BY <1>2 DEF QueryEnds
  <2>3. PermitsBalance' /\ permits' \in Nat
    BY <2>1, <2>2, Stops DEF ResolverInv, TaskStates
  <2>4. HostsDone'
    BY <2>1, <2>2, TaskLeaves DEF Waits, TaskStates
  <2>5. Typed'
    BY <2>1, <2>2, <2>3 DEF ResolverInv, Typed, TaskStates
  <2>6. QueueOK'
    BY <2>1, <2>2 DEF ResolverInv, QueueOK, Typed
  <2> QED
    BY <2>3, <2>4, <2>5, <2>6 DEF ResolverInv
<1>3. CASE Cancelled(t)
  <2>1. /\ task' = [task EXCEPT ![t] = "cancelled"] /\ queue' = Without(queue, t)
        /\ UNCHANGED host /\ Waits(t)
        /\ permits' = IF task[t] = "running" THEN permits + 1 ELSE permits
    BY <1>3 DEF Cancelled
  <2>2. PermitsBalance' /\ permits' \in Nat
    <3>1. CASE task[t] = "running"
      BY <2>1, <3>1, Stops DEF ResolverInv, TaskStates
    <3>2. CASE task[t] # "running"
      <4>1. Running' = Running
        BY <2>1, <3>2 DEF Running, ResolverInv, Typed
      <4> QED
        BY <2>1, <3>2, <4>1, RunningSame DEF ResolverInv
    <3> QED
      BY <3>1, <3>2
  <2>3. HostsDone'
    BY <2>1, TaskLeaves DEF TaskStates
  <2>4. Typed'
    BY <2>1, <2>2 DEF ResolverInv, Typed, TaskStates
  <2>5. \A u \in Tasks : u # t => task'[u] = task[u]
    BY <2>1 DEF ResolverInv, Typed
  <2>6. \A k \in 1..Len(queue) : queue[k] \in Tasks /\ task[queue[k]] = "queued"
    BY DEF ResolverInv, QueueOK
  <2>7. QueueOK'
    <3> DEFINE w == Without(queue, t)
    <3>1. /\ w \in Seq(Tasks)
          /\ \A i \in 1..Len(w) : \E k \in 1..Len(queue) : w[i] = queue[k] /\ queue[k] # t
          /\ \A i, j \in 1..Len(w) : w[i] = w[j] => i = j
      BY WithoutIs DEF ResolverInv
    <3>2. queue' = w
      BY <2>1
    <3> HIDE DEF w
    <3>3. \A i \in 1..Len(w) : task'[w[i]] = "queued"
      BY <2>5, <2>6, <3>1
    <3> QED
      BY <3>1, <3>2, <3>3 DEF QueueOK
  <2> QED
    BY <2>2, <2>3, <2>4, <2>7 DEF ResolverInv
<1> QED
  BY <1>1, <1>2, <1>3 DEF TaskStep

(* A new round of queries, and the cancellation of one.                    *)
LEMMA AnewHolds ==
    ASSUME NEW H, ResolveHosts(H)
    PROVE  ResolverInv' /\ Running' = {} /\ queue' = <<>>
<1>1. task' = [t \in Tasks |-> "none"] /\ queue' = <<>> /\ permits' = Concurrency
  BY DEF ResolveHosts
<1>2. Running' = {}
  BY <1>1 DEF Running
<1>3. Typed'
  BY <1>1, ConcurrencyAssumption DEF ResolveHosts, Typed, TaskStates, HostStates
<1>4. QueueOK'
  BY <1>1 DEF QueueOK
<1>5. HostsDone'
  <2>1. \A g \in Hosts : TasksOf(g) \subseteq Tasks
    BY DEF Tasks, TasksOf
  <2> QED
    BY <1>1, <2>1 DEF HostsDone, Finished, Waits
<1>6. PermitsBalance'
  BY <1>1, <1>2, FS_EmptySet, ConcurrencyAssumption DEF PermitsBalance
<1> QED
  BY <1>1, <1>2, <1>3, <1>4, <1>5, <1>6 DEF ResolverInv

LEMMA CancelHostsHolds ==
    ASSUME ResolverInv, CancelHosts
    PROVE  ResolverInv' /\ Active' = {}
<1>1. /\ host' = [h \in Hosts |-> IF h \in Active THEN "cancelling" ELSE host[h]]
      /\ UNCHANGED <<task, queue, permits>>
  BY DEF CancelHosts
<1>2. Typed' /\ QueueOK'
  BY <1>1 DEF ResolverInv, Typed, QueueOK, HostStates
<1>3. HostsDone'
  BY <1>1 DEF ResolverInv, HostsDone, LeftBehind, Finished, Waits
<1>4. PermitsBalance'
  BY <1>1 DEF ResolverInv, PermitsBalance, Running
<1>5. Active' = {}
  BY <1>1 DEF Active
<1> QED
  BY <1>2, <1>3, <1>4, <1>5 DEF ResolverInv

LEMMA ResolverSame ==
    ASSUME ResolverInv, UNCHANGED resolverVars
    PROVE  ResolverInv' /\ Running' = Running /\ Active' = Active /\ queue' = queue
BY DEF ResolverInv, Typed, QueueOK, HostsDone, PermitsBalance, Finished, Waits, Running, Active,
       resolverVars

(* When every host is left behind, no query runs and none waits.           *)
LEMMA AllDone ==
    ASSUME ResolverInv, \A h \in Hosts : host[h] \in LeftBehind
    PROVE  Running = {} /\ queue = <<>>
<1>1. \A t \in Tasks : t[1] \in Hosts /\ t \in TasksOf(t[1])
  BY DEF Tasks, TasksOf
<1>2. \A t \in Tasks : ~Waits(t)
  BY <1>1 DEF ResolverInv, HostsDone, Finished
<1>3. Running = {}
  BY <1>2 DEF Running, Waits
<1>4. ~(\E i \in 1..Len(queue) : TRUE)
  BY <1>2 DEF ResolverInv, QueueOK, Waits
<1>5. Len(queue) \in Nat /\ queue \in Seq(Tasks)
  BY DEF ResolverInv, QueueOK
<1>6. Len(queue) = 0
  BY <1>4, <1>5
<1> QED
  BY <1>3, <1>5, <1>6

LEMMA ResolverInitially == Init => ResolverInv /\ StageInv
<1> SUFFICES ASSUME Init PROVE ResolverInv /\ StageInv
  OBVIOUS
<1>1. /\ task = [t \in Tasks |-> "none"] /\ queue = <<>> /\ permits = Concurrency
      /\ host = [h \in Hosts |-> "idle"] /\ stage = "plugins"
  BY DEF Init, ResolverInit
<1>2. Running = {}
  BY <1>1 DEF Running
<1>3. Typed /\ QueueOK
  BY <1>1, ConcurrencyAssumption DEF Typed, TaskStates, HostStates, QueueOK
<1>4. HostsDone
  <2>1. \A g \in Hosts : TasksOf(g) \subseteq Tasks
    BY DEF Tasks, TasksOf
  <2> QED
    BY <1>1, <2>1 DEF HostsDone, Finished, Waits
<1>5. PermitsBalance
  BY <1>1, <1>2, FS_EmptySet, ConcurrencyAssumption DEF PermitsBalance
<1> QED
  BY <1>1, <1>2, <1>3, <1>4, <1>5 DEF ResolverInv, StageInv

(* A host that goes on is one of a resolution that is not cancelled.       *)
LEMMA CancellingHolds ==
    ASSUME Typed, Active = {}, NEW h \in Hosts, HostStep(h)
    PROVE  Active' = {}
<1>1. host[h] \notin {"next", "awaitA", "awaitAAAA", "closing"}
  BY DEF Active
<1>2. HostCancelled(h)
  BY <1>1 DEF HostStep, GiveUp, AComes, AAAAComes, Close
<1>3. \A g \in Hosts : host'[g] = IF g = h THEN "cancelled" ELSE host[g]
  BY <1>2 DEF HostCancelled, Becomes, Typed
<1> QED
  BY <1>3 DEF Active

LEMMA ResolvingHolds ==
    ASSUME ResolverInv, StageInv, Resolving
    PROVE  ResolverInv' /\ StageInv'
<1>1. stage' = stage /\ stage \in {"resolve", "cancelling"}
  BY DEF Resolving, pipelineVars
<1>2. ASSUME NEW h \in Hosts, AskEndpoint(h, setup.ipv6)
      PROVE  ResolverInv' /\ (Active = {} => Active' = {})
  <2>1. h \in Active
    BY <1>2 DEF AskEndpoint, Active
  <2> QED
    BY <1>2, <2>1, AskHolds
<1>3. ASSUME NEW h \in Hosts, HostStep(h)
      PROVE  ResolverInv' /\ (Active = {} => Active' = {})
  BY <1>3, HostStepHolds, CancellingHolds DEF ResolverInv
<1>4. ASSUME NEW t \in Tasks, TaskStep(t)
      PROVE  ResolverInv' /\ (Active = {} => Active' = {})
  <2>1. host' = host
    BY <1>4 DEF TaskStep, Acquire, QueryEnds, Cancelled
  <2> QED
    BY <1>4, <2>1, TaskStepHolds DEF Active
<1>5. ResolverInv' /\ (Active = {} => Active' = {})
  BY <1>2, <1>3, <1>4 DEF Resolving
<1> QED
  BY <1>1, <1>5 DEF StageInv

(* A step of the pipeline that leaves the resolver alone.                  *)
LEMMA PipelineSteps ==
    ASSUME StageInv, ResolverInv, UNCHANGED resolverVars,
           stage' # stage => stage \notin {"resolve", "cancelling"} /\ stage' \notin {"resolve", "cancelling"}
    PROVE  ResolverInv' /\ StageInv'
<1>1. stage' \notin {"resolve", "cancelling"} => stage \notin {"resolve", "cancelling"}
  OBVIOUS
<1>2. stage' = "cancelling" => stage = "cancelling"
  OBVIOUS
<1> QED
  BY <1>1, <1>2, ResolverSame DEF StageInv

LEMMA ResolverNext == ResolverInv /\ StageInv /\ [Next]_vars => ResolverInv' /\ StageInv'
<1> SUFFICES ASSUME ResolverInv, StageInv, [Next]_vars PROVE ResolverInv' /\ StageInv'
  OBVIOUS
<1>1. CASE PluginSends \/ PluginEnds \/ FetchSends \/ FetchFails \/ NotModified \/ Fetched
  <2>1. /\ stage \in {"plugins", "fetch"} /\ stage' \notin {"resolve", "cancelling"}
        /\ UNCHANGED resolverVars
    BY <1>1 DEF PluginSends, PluginEnds, FetchSends, FetchFails, NotModified, Fetched, To, Ends,
       pipelineVars
  <2> QED
    BY <2>1, PipelineSteps
<1>2. CASE Sending
  <2>1. stage' = stage /\ UNCHANGED resolverVars
    BY <1>2 DEF Sending, pipelineVars
  <2> QED
    BY <2>1, PipelineSteps
<1>3. CASE Parses
  <2>1. \/ /\ stage = "parse" /\ stage' \in Ends /\ UNCHANGED resolverVars
        \/ /\ stage' = "resolve" /\ \E H : ResolveHosts(H)
    BY <1>3 DEF Parses, Store, To, Ends
  <2>2. CASE stage = "parse" /\ stage' \in Ends /\ UNCHANGED resolverVars
    BY <2>2, PipelineSteps DEF Ends
  <2>3. CASE stage' = "resolve" /\ \E H : ResolveHosts(H)
    BY <2>3, AnewHolds DEF StageInv
  <2> QED
    BY <2>1, <2>2, <2>3
<1>4. CASE Resolving
  BY <1>4, ResolvingHolds
<1>5. CASE Resolved
  <2>1. ResolveHosts({}) /\ stage' \in Ends
    BY <1>5 DEF Resolved, Store, To, Ends
  <2> QED
    BY <2>1, AnewHolds DEF StageInv, Ends
<1>6. CASE CancelJob
  <2>1. CancelHosts /\ stage' = "cancelling"
    BY <1>6 DEF CancelJob, To
  <2> QED
    BY <2>1, CancelHostsHolds DEF StageInv
<1>7. CASE CancelDone
  <2>1. stage = "cancelling" /\ stage' = "cancelled" /\ UNCHANGED resolverVars
    BY <1>7 DEF CancelDone, To
  <2>2. \A h \in Hosts : host[h] \in LeftBehind
    BY <1>7, <2>1 DEF CancelDone, StageInv, Active, ResolverInv, Typed, HostStates, LeftBehind
  <2>3. Running = {} /\ queue = <<>>
    BY <2>2, AllDone
  <2> QED
    BY <2>1, <2>3, ResolverSame DEF StageInv
<1>8. CASE Terminated \/ UNCHANGED vars
  <2>1. stage' = stage /\ UNCHANGED resolverVars
    BY <1>8 DEF Terminated, vars, pipelineVars
  <2> QED
    BY <2>1, PipelineSteps
<1> QED
  BY <1>1, <1>2, <1>3, <1>4, <1>5, <1>6, <1>7, <1>8 DEF Next, Step

(* For every set of hosts, every number of servers and every bound the     *)
(* semaphore loses and gains no permit, though queries are cancelled where *)
(* they wait and where they run (_query_endpoint, run_one).                *)
THEOREM PermitsBalanced == Spec => []PermitsBalance
<1>1. ResolverInv => PermitsBalance
  BY DEF ResolverInv
<1> QED
  BY <1>1, ResolverInitially, ResolverNext, PTL DEF Spec

(* No query outlives its endpoint, and a refresh that ended has none, how  *)
(* ever it ended (the finally clause of _query_endpoint, gather).          *)
THEOREM NothingLeft == Spec => []NothingOutlives
<1>1. ResolverInv /\ StageInv => NothingOutlives
  BY DEF ResolverInv, HostsDone, LeftBehind, StageInv, NothingOutlives, Ends
<1> QED
  BY <1>1, ResolverInitially, ResolverNext, PTL DEF Spec

----------------------------------------------------------------------------
(* Whose answer counts: the only answers with an address are those of the  *)
(* endpoint a host is at, and no host goes on to the next with one.        *)

ToldOK ==
    /\ told \subseteq Hosts \X Nat \X Families
    /\ \A h \in Hosts, e \in Nat, f \in Families :
          <<h, e, f>> \in told <=> e = at[h] /\ task[<<h, f>>] = "found"

\* Where a host is, its address and its two tasks go together.
HostOK(h) ==
    /\ host[h] = "next" => task[<<h, "A">>] # "found" /\ task[<<h, "AAAA">>] # "found"
    /\ host[h] = "awaitAAAA" => task[<<h, "A">>] = "nothing"
    /\ host[h] \in {"closing", "found"} =>
          \/ ip[h] = "A" /\ task[<<h, "A">>] = "found"
          \/ ip[h] = "AAAA" /\ task[<<h, "AAAA">>] = "found" /\ task[<<h, "A">>] = "nothing"
          \/ /\ ip[h] = "none" /\ host[h] = "closing"
             /\ task[<<h, "A">>] = "nothing" /\ task[<<h, "AAAA">>] = "nothing"

AnswerTyped ==
    /\ host \in [Hosts -> HostStates] /\ task \in [Tasks -> TaskStates]
    /\ at \in [Hosts -> Nat] /\ ip \in [Hosts -> {"none", "A", "AAAA"}]

AnswerInv == AnswerTyped /\ ToldOK /\ \A h \in Hosts : HostOK(h)

LEMMA PairsAreTasks ==
    /\ \A h \in Hosts, f \in Families : <<h, f>> \in Tasks
    /\ \A t \in Tasks : t[1] \in Hosts /\ t[2] \in Families /\ t = <<t[1], t[2]>>
    /\ "A" \in Families /\ "AAAA" \in Families
    /\ \A f \in Families : f = "A" \/ f = "AAAA"
BY DEF Tasks, Families

(* A step of the coroutine of a host leaves the tasks alone.               *)
LEMMA AnswerHostStep ==
    ASSUME AnswerInv, NEW h \in Hosts, HostStep(h)
    PROVE  AnswerInv'
<1>1. /\ UNCHANGED <<at, task, told>>
      /\ \A g \in Hosts : g # h => host'[g] = host[g] /\ ip'[g] = ip[g]
      /\ host' \in [Hosts -> HostStates] /\ ip' \in [Hosts -> {"none", "A", "AAAA"}]
  BY DEF HostStep, GiveUp, AComes, AAAAComes, Close, HostCancelled, Becomes, AnswerInv,
         AnswerTyped, HostStates
<1>2. AnswerTyped' /\ ToldOK'
  BY <1>1 DEF AnswerInv, AnswerTyped, ToldOK
<1>3. \A g \in Hosts : g # h => HostOK(g)'
  BY <1>1 DEF AnswerInv, HostOK
<1>4. HostOK(h) /\ task[<<h, "A">>] \in TaskStates
  BY PairsAreTasks DEF AnswerInv, AnswerTyped
<1>5. HostOK(h)'
  <2>1. CASE GiveUp(h) \/ HostCancelled(h)
    BY <1>1, <2>1 DEF GiveUp, HostCancelled, Becomes, HostOK, AnswerInv, AnswerTyped
  <2>2. CASE AComes(h)
    BY <1>1, <1>4, <2>2 DEF AComes, Becomes, HostOK, AnswerInv, AnswerTyped
  <2>3. CASE AAAAComes(h)
    BY <1>1, <1>4, <2>3 DEF AAAAComes, Becomes, HostOK, AnswerInv, AnswerTyped
  <2>4. CASE Close(h)
    BY <1>1, <1>4, <2>4 DEF Close, Becomes, HostOK, AnswerInv, AnswerTyped
  <2> QED
    BY <2>1, <2>2, <2>3, <2>4 DEF HostStep
<1> QED
  BY <1>2, <1>3, <1>5 DEF AnswerInv

(* A task changes only while it waits, so no answer that counts is lost.   *)
LEMMA AnswerTaskStep ==
    ASSUME AnswerInv, ResolverInv, NEW t \in Tasks, TaskStep(t)
    PROVE  AnswerInv'
<1>1. PICK s \in {"running", "found", "nothing", "cancelled"} :
        /\ Waits(t) /\ task' = [task EXCEPT ![t] = s] /\ UNCHANGED <<host, at, ip>>
        /\ told' = IF s = "found" THEN told \cup {<<t[1], at[t[1]], t[2]>>} ELSE told
  <2>1. CASE Acquire(t)
    <3>1. Waits(t)
      BY <2>1 DEF Acquire, ResolverInv, QueueOK, Waits
    <3> QED
      BY <2>1, <3>1 DEF Acquire
  <2>2. CASE QueryEnds(t)
    BY <2>2 DEF QueryEnds, Waits
  <2>3. CASE Cancelled(t)
    BY <2>3 DEF Cancelled
  <2> QED
    BY <2>1, <2>2, <2>3 DEF TaskStep
<1>2. PICK h \in Hosts, f \in Families : t = <<h, f>>
  BY PairsAreTasks
<1>3. \A u \in Tasks : task'[u] = IF u = t THEN s ELSE task[u]
  BY <1>1 DEF AnswerInv, AnswerTyped
<1>4. AnswerTyped'
  BY <1>1 DEF AnswerInv, AnswerTyped, TaskStates
<1>5. ToldOK'
  <2>1. told' = IF s = "found" THEN told \cup {<<h, at[h], f>>} ELSE told
    BY <1>1, <1>2
  <2>2. at[h] \in Nat
    BY DEF AnswerInv, AnswerTyped
  <2>3. ASSUME NEW g \in Hosts, NEW e \in Nat, NEW k \in Families
        PROVE  <<g, e, k>> \in told' <=> e = at'[g] /\ task'[<<g, k>>] = "found"
    <3>1. <<g, e, k>> \in told <=> e = at[g] /\ task[<<g, k>>] = "found"
      BY DEF AnswerInv, ToldOK
    <3>2. CASE <<g, k>> = t
      <4>1. task[t] # "found"
        BY <1>1 DEF Waits
      <4>2. <<g, e, k>> \notin told /\ g = h /\ k = f
        BY <1>2, <3>1, <3>2, <4>1
      <4>3. task'[<<g, k>>] = s
        BY <1>3, <3>2
      <4> QED
        BY <1>1, <2>1, <4>2, <4>3
    <3>3. CASE <<g, k>> # t
      <4>1. <<g, e, k>> \in told' <=> <<g, e, k>> \in told
        BY <1>2, <2>1, <3>3
      <4>2. task'[<<g, k>>] = task[<<g, k>>]
        BY <1>3, <3>3, PairsAreTasks
      <4> QED
        BY <1>1, <3>1, <4>1, <4>2
    <3> QED
      BY <3>2, <3>3
  <2>4. told' \subseteq Hosts \X Nat \X Families
    BY <2>1, <2>2 DEF AnswerInv, ToldOK
  <2> QED
    BY <2>3, <2>4 DEF ToldOK
<1>6. ASSUME NEW g \in Hosts
      PROVE  HostOK(g)'
  <2>1. <<g, "A">> \in Tasks /\ <<g, "AAAA">> \in Tasks
    BY PairsAreTasks
  <2>2. \A k \in Families : task[<<g, k>>] \in {"found", "nothing"} => task'[<<g, k>>] = task[<<g, k>>]
    BY <1>1, <1>3, PairsAreTasks DEF Waits
  <2>3. CASE host[g] = "next"
    <3>1. ~Waits(<<g, "A">>) /\ ~Waits(<<g, "AAAA">>)
      BY <2>3, PairsAreTasks DEF ResolverInv, HostsDone, LeftBehind, Finished, TasksOf
    <3>2. task'[<<g, "A">>] = task[<<g, "A">>] /\ task'[<<g, "AAAA">>] = task[<<g, "AAAA">>]
      BY <1>1, <1>3, <2>1, <3>1
    <3> QED
      BY <1>1, <2>3, <3>2 DEF AnswerInv, HostOK
  <2>4. CASE host[g] # "next"
    BY <1>1, <2>2, <2>4, PairsAreTasks DEF AnswerInv, HostOK
  <2> QED
    BY <2>3, <2>4
<1> QED
  BY <1>4, <1>5, <1>6 DEF AnswerInv

(* The next endpoint is asked by a host without an answer.                 *)
LEMMA AnswerAsk ==
    ASSUME AnswerInv, NEW h \in Hosts, NEW ipv6, AskEndpoint(h, ipv6)
    PROVE  AnswerInv'
<1>1. /\ UNCHANGED <<ip, told>> /\ at' = [at EXCEPT ![h] = @ + 1] /\ host[h] = "next"
      /\ host' = [host EXCEPT ![h] = "awaitA"]
  BY DEF AskEndpoint, Becomes
<1>2. /\ task' \in [Tasks -> TaskStates]
      /\ \A t \in Tasks : /\ t \in TasksOf(h) => task'[t] # "found"
                          /\ t \notin TasksOf(h) => task'[t] = task[t]
  <2> DEFINE isNew(t) == \E i \in DOMAIN (IF ipv6 THEN <<<<h, "A">>, <<h, "AAAA">>>> ELSE <<<<h, "A">>>>) :
                           (IF ipv6 THEN <<<<h, "A">>, <<h, "AAAA">>>> ELSE <<<<h, "A">>>>)[i] = t
  <2>1. task' = [t \in Tasks |-> IF t \notin TasksOf(h) THEN task[t]
                                 ELSE IF isNew(t) THEN "queued" ELSE "none"]
    BY DEF AskEndpoint
  <2> HIDE DEF isNew
  <2> QED
    BY <2>1 DEF AnswerInv, AnswerTyped, TaskStates
<1>3. \A g \in Hosts, f \in Families : <<g, f>> \in TasksOf(h) <=> g = h
  BY DEF TasksOf
<1>4. AnswerTyped'
  BY <1>1, <1>2 DEF AnswerInv, AnswerTyped, HostStates
<1>5. ToldOK'
  <2>1. \A f \in Families : task[<<h, f>>] # "found"
    BY <1>1, PairsAreTasks DEF AnswerInv, HostOK
  <2>2. ASSUME NEW g \in Hosts, NEW e \in Nat, NEW f \in Families
        PROVE  <<g, e, f>> \in told' <=> e = at'[g] /\ task'[<<g, f>>] = "found"
    <3>1. <<g, e, f>> \in told <=> e = at[g] /\ task[<<g, f>>] = "found"
      BY DEF AnswerInv, ToldOK
    <3>2. CASE g = h
      BY <1>1, <1>2, <1>3, <2>1, <3>1, <3>2, PairsAreTasks
    <3>3. CASE g # h
      BY <1>1, <1>2, <1>3, <3>1, <3>3, PairsAreTasks DEF AnswerInv, AnswerTyped
    <3> QED
      BY <3>2, <3>3
  <2> QED
    BY <1>1, <2>2 DEF AnswerInv, ToldOK
<1>6. ASSUME NEW g \in Hosts
      PROVE  HostOK(g)'
  <2>1. CASE g = h
    BY <1>1, <2>1 DEF AnswerInv, AnswerTyped, HostOK
  <2>2. CASE g # h
    <3>1. task'[<<g, "A">>] = task[<<g, "A">>] /\ task'[<<g, "AAAA">>] = task[<<g, "AAAA">>]
      BY <1>2, <1>3, <2>2, PairsAreTasks
    <3> QED
      BY <1>1, <2>2, <3>1 DEF AnswerInv, AnswerTyped, HostOK
  <2> QED
    BY <2>1, <2>2
<1> QED
  BY <1>4, <1>5, <1>6 DEF AnswerInv

LEMMA AnswerAnew ==
    ASSUME NEW H, ResolveHosts(H)
    PROVE  AnswerInv'
<1>1. /\ task' = [t \in Tasks |-> "none"] /\ told' = {} /\ at' = [h \in Hosts |-> 0]
      /\ ip' = [h \in Hosts |-> "none"]
      /\ host' = [h \in Hosts |-> IF h \in H THEN "next" ELSE "idle"]
  BY DEF ResolveHosts
<1>2. \A h \in Hosts, f \in Families : task'[<<h, f>>] = "none"
  BY <1>1, PairsAreTasks
<1>3. AnswerTyped'
  BY <1>1 DEF AnswerTyped, HostStates, TaskStates
<1>4. ToldOK'
  BY <1>1, <1>2 DEF ToldOK
<1>5. \A h \in Hosts : HostOK(h)'
  BY <1>1, <1>2, PairsAreTasks DEF HostOK
<1> QED
  BY <1>3, <1>4, <1>5 DEF AnswerInv

LEMMA AnswerCancel ==
    ASSUME AnswerInv, CancelHosts
    PROVE  AnswerInv'
<1>1. /\ host' = [h \in Hosts |-> IF h \in Active THEN "cancelling" ELSE host[h]]
      /\ UNCHANGED <<at, ip, task, told>>
  BY DEF CancelHosts
<1>2. AnswerTyped'
  BY <1>1 DEF AnswerInv, AnswerTyped, HostStates
<1>3. ToldOK'
  BY <1>1 DEF AnswerInv, ToldOK
<1>4. \A h \in Hosts : HostOK(h)'
  BY <1>1 DEF AnswerInv, HostOK
<1> QED
  BY <1>2, <1>3, <1>4 DEF AnswerInv

LEMMA AnswerSame == ASSUME AnswerInv, UNCHANGED resolverVars PROVE AnswerInv'
BY DEF AnswerInv, AnswerTyped, ToldOK, HostOK, resolverVars

LEMMA AnswerInitially == Init => AnswerInv
<1> SUFFICES ASSUME Init PROVE AnswerInv
  OBVIOUS
<1>1. /\ task = [t \in Tasks |-> "none"] /\ told = {} /\ at = [h \in Hosts |-> 0]
      /\ ip = [h \in Hosts |-> "none"] /\ host = [h \in Hosts |-> "idle"]
  BY DEF Init, ResolverInit
<1>2. \A h \in Hosts, f \in Families : task[<<h, f>>] = "none"
  BY <1>1, PairsAreTasks
<1>3. AnswerTyped
  BY <1>1 DEF AnswerTyped, HostStates, TaskStates
<1>4. ToldOK
  BY <1>1, <1>2 DEF ToldOK
<1>5. \A h \in Hosts : HostOK(h)
  BY <1>1, <1>2, PairsAreTasks DEF HostOK
<1> QED
  BY <1>3, <1>4, <1>5 DEF AnswerInv

LEMMA AnswerNext == AnswerInv /\ ResolverInv /\ [Next]_vars => AnswerInv'
<1> SUFFICES ASSUME AnswerInv, ResolverInv, [Next]_vars PROVE AnswerInv'
  OBVIOUS
<1>1. CASE PluginSends \/ PluginEnds \/ FetchSends \/ FetchFails \/ NotModified \/ Fetched
  BY <1>1, AnswerSame DEF PluginSends, PluginEnds, FetchSends, FetchFails, NotModified, Fetched
<1>2. CASE Sending \/ CancelDone \/ Terminated \/ UNCHANGED vars
  BY <1>2, AnswerSame DEF Sending, CancelDone, Terminated, vars
<1>3. CASE Parses
  <2>1. UNCHANGED resolverVars \/ \E H : ResolveHosts(H)
    BY <1>3 DEF Parses
  <2> QED
    BY <2>1, AnswerSame, AnswerAnew
<1>4. CASE Resolving
  BY <1>4, AnswerAsk, AnswerHostStep, AnswerTaskStep DEF Resolving
<1>5. CASE Resolved
  BY <1>5, AnswerAnew DEF Resolved
<1>6. CASE CancelJob
  BY <1>6, AnswerCancel DEF CancelJob
<1> QED
  BY <1>1, <1>2, <1>3, <1>4, <1>5, <1>6 DEF Next, Step

(* However late or early the answers of the servers come, the address of a *)
(* host is one the first endpoint with an answer gave, and its A address   *)
(* if there was one when it was done (_resolve_server, _query_endpoint).   *)
THEOREM FirstAnswerCounts == Spec => []FirstAnswerWins
<1>1. AnswerInv => FirstAnswerWins
  <2> SUFFICES ASSUME AnswerInv, NEW h \in Hosts, host[h] = "found"
               PROVE  /\ \A e \in 1..(at[h] - 1), f \in Families : <<h, e, f>> \notin told
                      /\ <<h, at[h], ip[h]>> \in told
                      /\ <<h, at[h], "A">> \in told => ip[h] = "A"
    BY DEF FirstAnswerWins
  <2>1. at[h] \in Nat /\ HostOK(h)
    BY DEF AnswerInv, AnswerTyped
  <2>2. \A e \in Nat, f \in Families :
           <<h, e, f>> \in told <=> e = at[h] /\ task[<<h, f>>] = "found"
    BY DEF AnswerInv, ToldOK
  <2> QED
    BY <2>1, <2>2, PairsAreTasks DEF HostOK
<1> QED
  BY <1>1, AnswerInitially, AnswerNext, ResolverInitially, ResolverNext, PTL DEF Spec

----------------------------------------------------------------------------
(* normalize_proxy: what it accepts it leaves alone, so it accepts what it *)
(* returns; and a host replaced by an address is no reason to reject.      *)

LEMMA CoerceTwice ==
    ASSUME NEW f, NEW v, Coerce(f, v) # "error"
    PROVE  Coerce(f, Coerce(f, v)) = Coerce(f, v)
<1>1. CASE f \in Foreign
  BY <1>1 DEF Coerce, Foreign, NumberFields, BoolFields, MapFields, ListFields
<1>2. CASE f \in NumberFields
  <2>1. \A w : Coerce(f, w) = ToNumber(w)
    BY <1>2 DEF Coerce, Foreign, NumberFields, BoolFields, MapFields, ListFields
  <2>2. ToNumber(v) \in {"one", "zero", "huge", "minus", "error"}
    BY DEF ToNumber
  <2> QED
    BY <2>1, <2>2 DEF ToNumber
<1>3. CASE f \in BoolFields
  <2>1. \A w : Coerce(f, w) = ToBool(w)
    BY <1>3 DEF Coerce, Foreign, NumberFields, BoolFields, MapFields, ListFields
  <2>2. ToBool(v) \in {"true", "false", "error"}
    BY DEF ToBool
  <2> QED
    BY <2>1, <2>2 DEF ToBool
<1>4. CASE f \in MapFields
  BY <1>4 DEF Coerce, Foreign, NumberFields, BoolFields, MapFields, ListFields
<1>5. CASE f = "peers"
  BY <1>5 DEF Coerce, Foreign, NumberFields, BoolFields, MapFields, ListFields
<1>6. CASE f \in ListFields \ {"peers"}
  <2>1. \A w : Coerce(f, w) = ToList(w)
    BY <1>6 DEF Coerce, Foreign, NumberFields, BoolFields, MapFields, ListFields
  <2>2. ToList(v) \in {"list", "oddlist", "error"}
    BY DEF ToList
  <2> QED
    BY <2>1, <2>2 DEF ToList
<1>7. CASE f \notin Foreign \cup NumberFields \cup BoolFields \cup MapFields \cup ListFields \cup {"peers"}
  <2>1. \A w : Coerce(f, w) = ToText(w)
    BY <1>7 DEF Coerce
  <2>2. ToText(ToText(v)) = ToText(v)
    BY DEF ToText, Maps
  <2> QED
    BY <2>1, <2>2
<1> QED
  BY <1>1, <1>2, <1>3, <1>4, <1>5, <1>6, <1>7

(* A node as a refresh counts it.                                          *)
Sound(n) ==
    /\ "type" \in DOMAIN n /\ Accepted(n) /\ Coerced(n) = n
    /\ n.type = "hysteria2" => At(n, "obfs") \in {"absent", "empty", "good", "gecko"}

(* A node that is accepted is accepted again as it was normalized, with    *)
(* nothing left to normalize and the same type: every later pass over a    *)
(* record leaves it as it is (normalize_proxy).                            *)
THEOREM CoercedIsSound ==
    ASSUME NEW n, NodeOk(n), Accepted(n)
    PROVE  Sound(Coerced(n)) /\ Coerced(n).type = n.type
<1> DEFINE c == Coerced(n)
<1>0. "type" \in DOMAIN n
  BY DEF NodeOk
<1>1. /\ DOMAIN c = DOMAIN n /\ c = [f \in DOMAIN c |-> c[f]]
      /\ \A f \in DOMAIN n : c[f] = Coerce(f, n[f])
  BY DEF Coerced
<1>2. /\ n.type \in DOMAIN Required
      /\ \A f \in DOMAIN n : c[f] # "error"
      /\ \A f \in Required[n.type] \cup {"name"} : At(c, f) \notin {"absent", "null", "empty"}
      /\ ContentOk(c)
  BY DEF Accepted
<1>3. c.type = n.type
  BY <1>0, <1>1 DEF Coerce, Foreign, NumberFields, BoolFields, MapFields, ListFields
<1>4. \A f \in DOMAIN c : Coerce(f, c[f]) = c[f]
  BY <1>1, <1>2, CoerceTwice
<1>5. Coerced(c) = [f \in DOMAIN c |-> Coerce(f, c[f])]
  BY DEF Coerced
<1> HIDE DEF c
<1>6. Coerced(c) = c
  BY <1>1, <1>4, <1>5
<1>7. Accepted(c)
  BY <1>1, <1>2, <1>3, <1>6 DEF Accepted
<1>8. ASSUME n.type = "hysteria2"
      PROVE  At(c, "obfs") \in {"absent", "empty", "good", "gecko"}
  <2>1. "obfs" \in DOMAIN c => c["obfs"] = ToText(n["obfs"])
    BY <1>1 DEF Coerce, Foreign, NumberFields, BoolFields, MapFields, ListFields
  <2>2. Fits(c, "obfs")
    <3>1. "obfs" \in MayFit["hysteria2"]
      BY DEF MayFit, None, Required
    <3> QED
      BY <1>2, <1>3, <1>8, <3>1 DEF ContentOk
  <2>3. CASE "obfs" \notin DOMAIN c
    BY <2>3 DEF At
  <2>4. CASE "obfs" \in DOMAIN c
    <3>1. n["obfs"] \in {"absent", "null", "empty", "good", "gecko", "one", "zero", "huge",
                        "true", "false", "list"} \cup Odd \cup Maps
      BY <1>1, <1>8, <2>4 DEF NodeOk, At
    <3>2. c["obfs"] \in {"absent", "empty", "good", "gecko"} \cup Odd
      BY <2>1, <2>4, <3>1 DEF ToText, Odd, Maps
    <3> QED
      BY <2>2, <2>4, <3>2 DEF Fits, IsSet, At, Odd
  <2> QED
    BY <2>3, <2>4
<1> QED
  BY <1>0, <1>1, <1>3, <1>6, <1>7, <1>8 DEF Sound, c

(* The fields that _apply_resolution may change, and that no check of a    *)
(* content asks for but to be there.                                       *)
Host == {"server", "servername", "wsOpts"}

LEMMA NoHostFits ==
    ASSUME NEW t \in DOMAIN Required
    PROVE  /\ MustFit[t] \cap Host = {}
           /\ MayFit[t] \cap Host = {}
<1>1. DOMAIN None = DOMAIN Required /\ None[t] = {}
  BY DEF None
<1>2. MustFit[t] \subseteq {"cipher", "obfs", "protocol", "uuid", "privateKey", "transport",
                           "publicKey", "ca"}
  BY <1>1 DEF MustFit
<1>3. MayFit[t] \subseteq {"encryption", "xhttpOpts", "obfsOpts", "ssOpts", "auth", "obfs", "ip",
          "ipv6", "reserved", "peers", "hostKey", "multiplexing", "handshakeMode", "aeadMethod",
          "tableType", "httpMaskMode", "httpMaskMultiplex", "httpMask", "customTable",
          "customTables", "proto", "dev", "cipher", "ping", "pingRestart"}
  BY <1>1 DEF MayFit
<1> QED
  BY <1>2, <1>3 DEF Host

(* A node that differs in those fields only, and still has its server.     *)
LEMMA ContentStays ==
    ASSUME NEW n, NEW m, ContentOk(n), n.type \in DOMAIN Required, m.type = n.type,
           \A f : f \notin Host => At(m, f) = At(n, f),
           \A f : f \notin Host /\ f \in DOMAIN m => m[f] = n[f] /\ f \in DOMAIN n,
           IsSet(m, "server")
    PROVE  ContentOk(m)
<1> DEFINE is(t) == n.type = t
<1>1. \A f : f \notin Host => (IsSet(m, f) <=> IsSet(n, f))
  BY DEF IsSet
<1>2. \A f : f \notin Host => (Fits(m, f) <=> Fits(n, f))
  <2>1. ASSUME NEW f, f \notin Host, IsSet(m, f)
        PROVE  m[f] = n[f]
    BY <2>1 DEF IsSet, At
  <2> QED
    BY <1>1, <2>1 DEF Fits
<1>3. \A f \in {"realityOpts", "echOpts"} : At(m, f) # "oddmap"
  BY DEF ContentOk, Host
<1>4. \A f \in MustFit[m.type] : At(m, f) = "good"
  BY NoHostFits DEF ContentOk
<1>5. \A f \in MayFit[m.type] : Fits(m, f)
  BY <1>2, NoHostFits DEF ContentOk
<1>6. is("ss") => SsOk(m)
  BY DEF ContentOk, SsOk, Host
<1>7. is("snell") => SnellOk(m)
  BY <1>1 DEF ContentOk, SnellOk, Host
<1>8. is("vless") => At(m, "flow") # "bad"
  BY DEF ContentOk, Host
<1>9. is("hysteria") => SpeedOk(At(m, "up")) /\ SpeedOk(At(m, "down"))
  BY DEF ContentOk, Host
<1>10. is("hysteria2") => Hysteria2Ok(m)
  BY <1>1 DEF ContentOk, Hysteria2Ok, ValidPort, Host
<1>11. is("wireguard") => WireguardOk(m)
  BY <1>1, <1>2 DEF ContentOk, WireguardOk, LocalAddress, Host
<1>12. is("tuic") => At(m, "uotVersion") # "huge"
  BY DEF ContentOk, Host
<1>13. is("gostRelay") => IsSet(m, "server") /\ ValidPort(m)
  BY DEF ContentOk, ValidPort, Host
<1>14. is("ssh") => At(m, "privateKey") # "bad"
  BY DEF ContentOk, Host
<1>15. is("mieru") => MieruOk(m)
  <2>1. /\ IsSet(m, "port") = IsSet(n, "port") /\ IsSet(m, "portRange") = IsSet(n, "portRange")
        /\ ValidPort(m) <=> ValidPort(n)
        /\ Fits(m, "portRange") <=> Fits(n, "portRange")
    BY <1>2 DEF IsSet, ValidPort, Host
  <2>2. MieruOk(n) => MieruOk(m)
    BY <2>1, Zenon DEF MieruOk
  <2> QED
    BY <2>2 DEF ContentOk
<1>16. is("masque") => LocalAddress(m)
  BY <1>1 DEF ContentOk, LocalAddress, Host
<1>17. is("sudoku") => SudokuOk(m)
  <2>1. \A f, d : f \notin Host => IntOf(m, f, d) = IntOf(n, f, d)
    BY DEF IntOf
  <2>2. /\ At(m, "paddingMin") = At(n, "paddingMin") /\ At(m, "paddingMax") = At(n, "paddingMax")
        /\ At(m, "pathRoot") = At(n, "pathRoot")
        /\ IntOf(m, "paddingMin", 10) = IntOf(n, "paddingMin", 10)
        /\ IntOf(m, "paddingMax", 30) = IntOf(n, "paddingMax", 30)
        /\ ValidPort(m) <=> ValidPort(n)
    BY <2>1 DEF ValidPort, Host
  <2>3. SudokuOk(m) <=> SudokuOk(n)
    BY <2>2, Zenon DEF SudokuOk
  <2> QED
    BY <2>3 DEF ContentOk
<1>18. is("openvpn") => OpenvpnOk(m)
  BY <1>1 DEF ContentOk, OpenvpnOk, Host
<1> QED
  BY <1>3, <1>4, <1>5, <1>6, <1>7, <1>8, <1>9, <1>10, <1>11, <1>12, <1>13, <1>14, <1>15, <1>16,
     <1>17, <1>18 DEF ContentOk

LEMMA RewrittenIsSound ==
    ASSUME NEW n, Sound(n), "server" \in DOMAIN n
    PROVE  Sound([PreserveHost(n) EXCEPT !.server = "literal"])
<1> DEFINE p == PreserveHost(n)
           m == [p EXCEPT !.server = "literal"]
<1>1. DOMAIN n \subseteq DOMAIN p /\ DOMAIN p \subseteq DOMAIN n \cup Host
  BY DEF PreserveHost, Host
<1>2. \A f \in DOMAIN p : f \notin Host => f \in DOMAIN n /\ p[f] = n[f]
  BY DEF PreserveHost, Host
<1>3. "servername" \in DOMAIN p => p.servername = "good" \/ ("servername" \in DOMAIN n /\ p.servername = n.servername)
  BY DEF PreserveHost
<1>4. "wsOpts" \in DOMAIN p => p.wsOpts = "map" \/ ("wsOpts" \in DOMAIN n /\ p.wsOpts = n.wsOpts)
  BY DEF PreserveHost
<1>5. "server" \in DOMAIN p
  BY <1>1
<1> HIDE DEF p
<1>6. /\ DOMAIN m = DOMAIN p /\ m = [f \in DOMAIN m |-> m[f]]
      /\ m.server = "literal" /\ \A f \in DOMAIN p : f # "server" => m[f] = p[f]
  BY <1>5
<1> HIDE DEF m
<1>7. "type" \in DOMAIN n /\ Coerced(n) = n /\ Accepted(n)
  BY DEF Sound
<1>8. "type" \in DOMAIN m /\ m.type = n.type
  BY <1>1, <1>2, <1>6, <1>7 DEF Host
<1>9. \A f \in DOMAIN n : Coerce(f, n[f]) = n[f] /\ n[f] # "error"
  <2>1. Coerced(n) = [f \in DOMAIN n |-> Coerce(f, n[f])]
    BY DEF Coerced
  <2>2. \A f \in DOMAIN n : n[f] # "error"
    BY <1>7 DEF Accepted
  <2> QED
    BY <1>7, <2>1, <2>2
<1>10. ASSUME NEW f \in DOMAIN m
       PROVE  Coerce(f, m[f]) = m[f] /\ m[f] # "error"
  <2>1. CASE f = "server"
    BY <1>6, <2>1 DEF Coerce, Foreign, NumberFields, BoolFields, MapFields, ListFields, ToText, Maps
  <2>2. CASE f = "servername"
    <3>1. Coerce("servername", "good") = "good"
      BY DEF Coerce, Foreign, NumberFields, BoolFields, MapFields, ListFields, ToText, Maps
    <3> QED
      BY <1>3, <1>6, <1>9, <2>2, <3>1
  <2>3. CASE f = "wsOpts"
    <3>1. Coerce("wsOpts", "map") = "map"
      BY DEF Coerce, Foreign, NumberFields, BoolFields, MapFields, ListFields, Maps
    <3> QED
      BY <1>4, <1>6, <1>9, <2>3, <3>1
  <2>4. CASE f \notin Host
    BY <1>2, <1>6, <1>9, <2>4 DEF Host
  <2> QED
    BY <2>1, <2>2, <2>3, <2>4 DEF Host
<1>11. Coerced(m) = m
  <2>1. Coerced(m) = [f \in DOMAIN m |-> Coerce(f, m[f])]
    BY DEF Coerced
  <2> QED
    BY <1>6, <1>10, <2>1
<1>12. \A f : f \notin Host => At(m, f) = At(n, f)
  BY <1>1, <1>2, <1>6 DEF At, Host
<1>13. \A f : f \notin Host /\ f \in DOMAIN m => m[f] = n[f] /\ f \in DOMAIN n
  BY <1>2, <1>6 DEF Host
<1>14. IsSet(m, "server")
  BY <1>5, <1>6 DEF IsSet, At
<1>15. /\ n.type \in DOMAIN Required /\ ContentOk(n)
       /\ \A f \in Required[n.type] \cup {"name"} : At(n, f) \notin {"absent", "null", "empty"}
  BY <1>7 DEF Accepted
<1>16. ContentOk(m)
  BY <1>8, <1>12, <1>13, <1>14, <1>15, ContentStays
<1>17. ASSUME NEW f \in Required[n.type] \cup {"name"}
       PROVE  At(m, f) \notin {"absent", "null", "empty"}
  <2>1. CASE f \notin Host
    BY <1>12, <1>15, <2>1
  <2>2. CASE f = "server"
    BY <1>5, <1>6, <2>2 DEF At
  <2>3. CASE f \in {"servername", "wsOpts"}
    <3>1. f \in DOMAIN n
      BY <1>15, <2>3 DEF At
    <3>2. f \in DOMAIN m /\ (m[f] = n[f] \/ m[f] \in {"good", "map"})
      BY <1>1, <1>3, <1>4, <1>6, <2>3, <3>1
    <3> QED
      BY <1>15, <3>1, <3>2 DEF At
  <2> QED
    BY <2>1, <2>2, <2>3 DEF Host
<1>18. Accepted(m)
  BY <1>8, <1>10, <1>11, <1>15, <1>16, <1>17 DEF Accepted
<1>19. m.type = "hysteria2" => At(m, "obfs") \in {"absent", "empty", "good", "gecko"}
  BY <1>8, <1>12 DEF Sound, Host
<1> QED
  BY <1>8, <1>11, <1>18, <1>19 DEF Sound, m, p

----------------------------------------------------------------------------
(* Records in the order of their entries, selected and renamed.            *)

IsOne(r) ==
    /\ r = [id |-> r.id, source |-> r.source, label |-> r.label, node |-> r.node]
    /\ r.source \in STRING /\ r.label \in Seq(STRING)
InOrder(rs) == \A i, j \in DOMAIN rs : i < j => rs[i].id < rs[j].id

(* Records as a refresh has them of so many entries.                       *)
AreSound(rs, n) ==
    /\ IsList(rs) /\ InOrder(rs)
    /\ \A k \in DOMAIN rs : IsOne(rs[k]) /\ Sound(rs[k].node) /\ rs[k].id \in 1..n

LEMMA NoneIsSound == ASSUME NEW n PROVE AreSound(<<>>, n)
<1>1. DOMAIN << >> = 1..0
  OBVIOUS
<1> QED
  BY <1>1 DEF AreSound, IsList, InOrder

LEMMA SelectedInOrder ==
    ASSUME NEW s, IsList(s), NEW places \in SUBSET DOMAIN s
    PROVE  /\ IsList(Selected(s, places))
           /\ \A k \in DOMAIN Selected(s, places) : \E i \in places : Selected(s, places)[k] = s[i]
           /\ \A i \in places : \E k \in DOMAIN Selected(s, places) : Selected(s, places)[k] = s[i]
           /\ \A j, k \in DOMAIN Selected(s, places) :
                  j < k => \E a, b \in places :
                              a < b /\ Selected(s, places)[j] = s[a] /\ Selected(s, places)[k] = s[b]
<1> DEFINE out == Selected(s, places)
<1>1. PICK n \in Nat : DOMAIN s = 1..n
  BY DEF IsList
<1>2. PICK c \in Nat : \E place : PickedAt(Selected(s, places), s, places, c, place)
  BY <1>1, SelectedIs
<1>3. PICK place : PickedAt(Selected(s, places), s, places, c, place)
  BY <1>2
<1>4. /\ DOMAIN out = 1..c /\ place \in [1..c -> places]
      /\ \A k \in 1..c : out[k] = s[place[k]]
      /\ \A j, k \in 1..c : j < k => place[j] < place[k]
      /\ \A i \in places : \E k \in 1..c : place[k] = i
  BY <1>3 DEF PickedAt
<1> HIDE DEF out
<1>5. IsList(out)
  BY <1>4 DEF IsList
<1>6. \A k \in DOMAIN out : \E i \in places : out[k] = s[i]
  BY <1>4
<1>7. \A i \in places : \E k \in DOMAIN out : out[k] = s[i]
  BY <1>4
<1>8. \A j, k \in DOMAIN out :
          j < k => \E a, b \in places : a < b /\ out[j] = s[a] /\ out[k] = s[b]
  BY <1>4
<1> QED
  BY <1>5, <1>6, <1>7, <1>8 DEF out

LEMMA SelectedIsSound ==
    ASSUME NEW rs, NEW n, AreSound(rs, n), NEW places \in SUBSET DOMAIN rs
    PROVE  AreSound(Selected(rs, places), n)
<1> DEFINE out == Selected(rs, places)
<1>1. /\ IsList(out)
      /\ \A k \in DOMAIN out : \E i \in places : out[k] = rs[i]
      /\ \A j, k \in DOMAIN out :
             j < k => \E a, b \in places : a < b /\ out[j] = rs[a] /\ out[k] = rs[b]
  BY SelectedInOrder DEF AreSound
<1> HIDE DEF out
<1>2. InOrder(out)
  BY <1>1 DEF AreSound, InOrder
<1> QED
  BY <1>1, <1>2 DEF AreSound, out

TextRename(rename) == rename.prefix \in Seq(STRING) /\ rename.suffix \in Seq(STRING)

LEMMA RenderedIsText ==
    ASSUME NEW template \in Seq(STRING), NEW r, r.source \in STRING
    PROVE  Rendered(template, r) \in Seq(STRING)
<1>1. PICK n \in Nat : template \in [1..n -> STRING]
  BY SeqDef
<1>2. Rendered(template, r) \in [1..n -> STRING]
  BY <1>1 DEF Rendered
<1> QED
  BY <1>2, SeqDef

LEMMA RenamedIsOne ==
    ASSUME NEW r, IsOne(r), NEW rename, TextRename(rename)
    PROVE  /\ IsOne(Rename(r, rename))
           /\ Rename(r, rename).id = r.id /\ Rename(r, rename).node = r.node
<1> DEFINE label == Rendered(rename.prefix, r) \o r.label \o Rendered(rename.suffix, r)
<1>1. Rename(r, rename) = [r EXCEPT !.label = label]
  BY DEF Rename
<1>2. label \in Seq(STRING)
  BY RenderedIsText, ConcatProperties DEF IsOne, TextRename
<1> HIDE DEF label
<1>3. Rename(r, rename) = [id |-> r.id, source |-> r.source, label |-> label, node |-> r.node]
  BY <1>1 DEF IsOne
<1> QED
  BY <1>2, <1>3 DEF IsOne

(* apply_transform keeps the order, and each record that its filter lets   *)
(* pass.                                                                   *)
LEMMA TransformIsSound ==
    ASSUME NEW rs, NEW n, AreSound(rs, n), NEW filter, NEW rename, TextRename(rename)
    PROVE  /\ AreSound(ApplyTransform(rs, filter, rename), n)
           /\ \A i \in DOMAIN rs :
                  Kept(rs[i], filter) => \E k \in DOMAIN ApplyTransform(rs, filter, rename) :
                                            ApplyTransform(rs, filter, rename)[k].id = rs[i].id
<1> DEFINE places == {i \in DOMAIN rs : Kept(rs[i], filter)}
           kept == Selected(rs, places)
           out == ApplyTransform(rs, filter, rename)
<1>1. out = [i \in DOMAIN kept |-> Rename(kept[i], rename)]
  BY DEF ApplyTransform, Passing
<1>2. \A i \in DOMAIN rs : Kept(rs[i], filter) => i \in places
  OBVIOUS
<1>3. places \in SUBSET DOMAIN rs
  OBVIOUS
<1> HIDE DEF places, out
<1>4. AreSound(kept, n) /\ \A i \in places : \E k \in DOMAIN kept : kept[k] = rs[i]
  BY <1>3, SelectedIsSound, SelectedInOrder DEF AreSound
<1> HIDE DEF kept
<1>5. DOMAIN out = DOMAIN kept
  BY <1>1
<1>6. \A k \in DOMAIN kept : IsOne(out[k]) /\ out[k].id = kept[k].id /\ out[k].node = kept[k].node
  BY <1>1, <1>4, RenamedIsOne DEF AreSound
<1>7. AreSound(out, n)
  BY <1>4, <1>5, <1>6 DEF AreSound, IsList, InOrder
<1>8. ASSUME NEW i \in DOMAIN rs, Kept(rs[i], filter)
      PROVE  \E k \in DOMAIN out : out[k].id = rs[i].id
  <2>1. PICK k \in DOMAIN kept : kept[k] = rs[i]
    BY <1>2, <1>4, <1>8
  <2> QED
    BY <1>5, <1>6, <2>1
<1> QED
  BY <1>7, <1>8 DEF out

----------------------------------------------------------------------------
(* parse_subscription                                                      *)

(* The records of some entries, each with a node.                          *)
Picked(entries, kept, nodes) ==
    [k \in 1..Cardinality(kept) |->
        Record(entries[NthPlace(kept, k)], NthPlace(kept, k), nodes[NthPlace(kept, k)])]

(* What a record keeps of its entry for the filters.                       *)
TypeIn(kind, e) == IF kind = "yaml" THEN e.node.type ELSE e.link.scheme
Seen(rs, i, e, kind) ==
    \E k \in DOMAIN rs : rs[k].id = i /\ rs[k].label = e.label /\ rs[k].node.type = TypeIn(kind, e)

LEMMA PickedIsSound ==
    ASSUME NEW b, BodyOk(b), NEW kept \in SUBSET DOMAIN b.entries, NEW nodes,
           \A i \in kept : /\ NodeOk(nodes[i]) /\ Accepted(nodes[i])
                           /\ nodes[i].type = TypeIn(b.kind, b.entries[i])
    PROVE  /\ AreSound(Picked(b.entries, kept, nodes), Len(b.entries))
           /\ \A i \in kept : Seen(Picked(b.entries, kept, nodes), i, b.entries[i], b.kind)
<1> DEFINE n == Len(b.entries)
           c == Cardinality(kept)
           rs == Picked(b.entries, kept, nodes)
<1>1. n \in Nat /\ kept \in SUBSET (1..n) /\ DOMAIN b.entries = 1..n
  BY DEF BodyOk
<1> HIDE DEF n
<1>2. /\ c \in Nat
      /\ \A k \in 1..c : NthPlace(kept, k) \in kept
      /\ \A j, k \in 1..c : j < k => NthPlace(kept, j) < NthPlace(kept, k)
      /\ \A i \in kept : \E k \in 1..c : NthPlace(kept, k) = i
  BY <1>1, RankGrows, NthPlaceIs
<1>3. DOMAIN rs = 1..c
  BY DEF Picked
<1>4. \A k \in 1..c : rs[k] = Record(b.entries[NthPlace(kept, k)], NthPlace(kept, k),
                                     nodes[NthPlace(kept, k)])
  BY DEF Picked
<1> HIDE DEF c, rs
<1>5. ASSUME NEW k \in 1..c
      PROVE  /\ IsOne(rs[k]) /\ Sound(rs[k].node) /\ rs[k].id = NthPlace(kept, k)
             /\ rs[k].label = b.entries[NthPlace(kept, k)].label
             /\ rs[k].node.type = TypeIn(b.kind, b.entries[NthPlace(kept, k)])
  <2> DEFINE i == NthPlace(kept, k)
  <2>1. i \in kept
    BY <1>2
  <2>2. rs[k] = [id |-> i, source |-> SourceName, label |-> b.entries[i].label,
                 node |-> Coerced(nodes[i])]
    BY <1>4 DEF Record
  <2> HIDE DEF i
  <2>3. Sound(Coerced(nodes[i])) /\ Coerced(nodes[i]).type = nodes[i].type
    BY <2>1, CoercedIsSound
  <2>4. IsOne(rs[k])
    BY <2>1, <2>2, SetupAssumption DEF IsOne, BodyOk
  <2> QED
    BY <2>1, <2>2, <2>3, <2>4 DEF i
<1>6. IsList(rs)
  BY <1>2, <1>3 DEF IsList
<1>7. InOrder(rs)
  BY <1>2, <1>3, <1>5 DEF InOrder
<1>8. AreSound(rs, n)
  BY <1>1, <1>2, <1>3, <1>5, <1>6, <1>7 DEF AreSound
<1>9. \A i \in kept : Seen(rs, i, b.entries[i], b.kind)
  BY <1>2, <1>3, <1>5 DEF Seen
<1> QED
  BY <1>8, <1>9 DEF rs, n

(* A result: sound records, a warning for each entry that has none.        *)
ResultOk(result, b) ==
    /\ AreSound(result.records, Len(b.entries))
    /\ result.warned \subseteq DOMAIN b.entries
    /\ ~result.raised =>
          \A i \in DOMAIN b.entries :
              i \in result.warned \/ Seen(result.records, i, b.entries[i], b.kind)

LEMMA NoResultOk == ASSUME NEW b PROVE ResultOk(NoResult, b)
BY NoneIsSound DEF ResultOk, NoResult

LEMMA NoLinksOk == ASSUME NEW b PROVE ResultOk(NoLinks(b), b)
BY NoneIsSound DEF ResultOk, NoLinks

LEMMA FromYamlOk ==
    ASSUME NEW b, BodyOk(b), b.kind = "yaml"
    PROVE  ResultOk(FromYaml(b), b)
<1> DEFINE kept == {i \in DOMAIN b.entries : Accepted(b.entries[i].node)}
           nodes == [i \in DOMAIN b.entries |-> b.entries[i].node]
           rejected == {i \in DOMAIN b.entries : ~Accepted(b.entries[i].node)}
           rs == Picked(b.entries, kept, nodes)
<1>1. CASE \E i \in DOMAIN b.entries : Raises(b.entries[i].node)
  BY <1>1, NoResultOk DEF FromYaml
<1>2. CASE ~(\E i \in DOMAIN b.entries : Raises(b.entries[i].node))
  <2>1. /\ kept \in SUBSET DOMAIN b.entries
        /\ \A i \in DOMAIN b.entries : i \in kept \/ i \in rejected
        /\ rejected \subseteq DOMAIN b.entries
    OBVIOUS
  <2>2. \A i \in kept : /\ NodeOk(nodes[i]) /\ Accepted(nodes[i])
                        /\ nodes[i].type = TypeIn(b.kind, b.entries[i])
    BY DEF BodyOk, TypeIn
  <2>3. FromYaml(b) = Result(b.entries, LAMBDA e : Accepted(e.node), LAMBDA e : e.node)
    BY <1>2 DEF FromYaml
  <2>4. FromYaml(b).raised = FALSE /\ FromYaml(b).warned = rejected
    BY <2>3 DEF Result
  <2>5. FromYaml(b).records = rs
    <3>1. FromYaml(b).records = Take(b.entries, LAMBDA e : Accepted(e.node), LAMBDA e : e.node)
      BY <2>3 DEF Result
    <3>2. \A k \in 1..Cardinality(kept) : NthPlace(kept, k) \in DOMAIN b.entries
      <4>1. kept \in SUBSET (1..Len(b.entries)) /\ Len(b.entries) \in Nat
        BY DEF BodyOk
      <4> HIDE DEF kept
      <4> QED
        BY <2>1, <4>1, NthPlaceIs
    <3>3. FromYaml(b).records =
            [k \in 1..Cardinality(kept) |->
                Record(b.entries[NthPlace(kept, k)], NthPlace(kept, k),
                       b.entries[NthPlace(kept, k)].node)]
      BY <3>1 DEF Take
    <3> HIDE DEF kept
    <3> QED
      BY <3>2, <3>3 DEF Picked
  <2> HIDE DEF kept, nodes, rejected
  <2>6. /\ AreSound(rs, Len(b.entries))
        /\ \A i \in kept : Seen(rs, i, b.entries[i], b.kind)
    BY <2>1, <2>2, PickedIsSound
  <2> QED
    BY <2>1, <2>4, <2>5, <2>6 DEF ResultOk
<1> QED
  BY <1>1, <1>2

(* A link that can be read becomes a node of the type in its scheme.       *)
LEMMA NodeOfType ==
    ASSUME NEW l, ~Unreadable(l)
    PROVE  NodeOk(NodeOf(l)) /\ NodeOf(l).type = l.scheme
<1>1. ASSUME NEW n, "type" \in DOMAIN n, n.type # "absent", "obfs" \notin DOMAIN n
      PROVE  NodeOk(Present(n)) /\ Present(n).type = n.type
  BY <1>1 DEF Present, NodeOk, At
<1>2. l.scheme \in LinkSchemes
  BY DEF Unreadable
<1>3. l.scheme # "absent"
  BY <1>2 DEF LinkSchemes
<1>4. CASE l.scheme = "vmess"
  <2>1. /\ "type" \in DOMAIN VmessNode(l) /\ VmessNode(l).type = "vmess"
        /\ "obfs" \notin DOMAIN VmessNode(l)
    BY DEF VmessNode
  <2>2. NodeOf(l) = Present(VmessNode(l))
    BY <1>4 DEF NodeOf
  <2> QED
    BY <1>1, <1>4, <2>1, <2>2
<1>5. CASE l.scheme = "ss"
  <2>1. /\ "type" \in DOMAIN SsNode(l) /\ SsNode(l).type = "ss"
        /\ "obfs" \notin DOMAIN SsNode(l)
    BY DEF SsNode
  <2>2. NodeOf(l) = Present(SsNode(l))
    BY <1>5 DEF NodeOf
  <2> QED
    BY <1>1, <1>5, <2>1, <2>2
<1>6. CASE l.scheme \notin {"vmess", "ss"}
  <2>1. /\ "type" \in DOMAIN UrlNode(l) /\ UrlNode(l).type = l.scheme
        /\ "obfs" \notin DOMAIN UrlNode(l)
    BY DEF UrlNode
  <2>2. NodeOf(l) = Present(UrlNode(l))
    BY <1>6 DEF NodeOf
  <2> QED
    BY <1>1, <1>3, <2>1, <2>2
<1> QED
  BY <1>4, <1>5, <1>6

LEMMA FromLinksOk ==
    ASSUME NEW b, BodyOk(b), b.kind # "yaml"
    PROVE  ResultOk(FromLinks(b.entries), b)
<1> DEFINE passes(e) == ~Unreadable(e.link) /\ Accepted(NodeOf(e.link))
           kept == {i \in DOMAIN b.entries : passes(b.entries[i])}
           nodes == [i \in DOMAIN b.entries |-> NodeOf(b.entries[i].link)]
           rejected == {i \in DOMAIN b.entries : ~passes(b.entries[i])}
           rs == Picked(b.entries, kept, nodes)
           result == FromLinks(b.entries)
<1>1. /\ kept \in SUBSET DOMAIN b.entries
      /\ \A i \in DOMAIN b.entries : i \in kept \/ i \in rejected
      /\ rejected \subseteq DOMAIN b.entries
  OBVIOUS
<1>2. \A i \in kept : /\ NodeOk(nodes[i]) /\ Accepted(nodes[i])
                      /\ nodes[i].type = TypeIn(b.kind, b.entries[i])
  BY NodeOfType DEF TypeIn
<1>3. result.raised = FALSE /\ result.warned = rejected
  BY DEF FromLinks, Result
<1>4. result.records =
        [k \in 1..Cardinality(kept) |->
            Record(b.entries[NthPlace(kept, k)], NthPlace(kept, k),
                   NodeOf(b.entries[NthPlace(kept, k)].link))]
  BY DEF FromLinks, Result, Take
<1>5. kept \in SUBSET (1..Len(b.entries)) /\ Len(b.entries) \in Nat
  BY DEF BodyOk
<1> HIDE DEF kept, rejected, passes, result
<1>6. \A k \in 1..Cardinality(kept) : NthPlace(kept, k) \in DOMAIN b.entries
  BY <1>1, <1>5, NthPlaceIs
<1>7. result.records = rs
  BY <1>4, <1>6 DEF Picked
<1> HIDE DEF nodes
<1>8. /\ AreSound(rs, Len(b.entries))
      /\ \A i \in kept : Seen(rs, i, b.entries[i], b.kind)
  BY <1>1, <1>2, PickedIsSound
<1> QED
  BY <1>1, <1>3, <1>7, <1>8 DEF ResultOk, result

LEMMA FinalizeOk ==
    ASSUME NEW b, NEW result, ResultOk(result, b), NEW parseError
    PROVE  /\ ResultOk(Finalize(result, parseError), b)
           /\ ~Finalize(result, parseError).raised /\ parseError = "fail" =>
                 Finalize(result, parseError).warned = {}
BY NoResultOk DEF Finalize, NoResult

(* Whatever the body, its format and its mode, the records that a parser   *)
(* returns are normalized and in the order of their entries, an entry that *)
(* yields no record has a warning, and with "fail" there is no warning     *)
(* (parse_subscription, _finalize).                                        *)
THEOREM ParseOk ==
    ASSUME NEW b, BodyOk(b), NEW format, NEW parseError
    PROVE  /\ ResultOk(Parse(b, format, parseError), b)
           /\ ~Parse(b, format, parseError).raised /\ parseError = "fail" =>
                 Parse(b, format, parseError).warned = {}
<1> DEFINE plain == IF b.kind = "links" THEN FromLinks(b.entries) ELSE NoLinks(b)
           out == Parse(b, format, parseError)
<1>1. ResultOk(plain, b)
  BY FromLinksOk, NoLinksOk
<1>2. b.kind = "base64" => ResultOk(FromLinks(b.entries), b)
  BY FromLinksOk
<1>3. b.kind = "yaml" => ResultOk(FromYaml(b), b)
  BY FromYamlOk
<1>4. \/ b.kind = "yaml" /\ out = Finalize(FromYaml(b), parseError)
      \/ out = Finalize(plain, parseError)
      \/ b.kind = "base64" /\ out = Finalize(FromLinks(b.entries), parseError)
      \/ out = NoResult
  BY Zenon DEF Parse
<1> HIDE DEF plain, out
<1>5. ResultOk(out, b) /\ (~out.raised /\ parseError = "fail" => out.warned = {})
  <2>1. CASE b.kind = "yaml" /\ out = Finalize(FromYaml(b), parseError)
    BY <1>3, <2>1, FinalizeOk
  <2>2. CASE out = Finalize(plain, parseError)
    BY <1>1, <2>2, FinalizeOk
  <2>3. CASE b.kind = "base64" /\ out = Finalize(FromLinks(b.entries), parseError)
    BY <1>2, <2>3, FinalizeOk
  <2>4. CASE out = NoResult
    BY <2>4, NoResultOk DEF NoResult
  <2> QED
    BY <1>4, <2>1, <2>2, <2>3, <2>4
<1> QED
  BY <1>5 DEF out

----------------------------------------------------------------------------
(* The pipeline: what it has, and what it has come to.                     *)

Pipeline ==
    /\ setup \in Setups /\ old \in BOOLEAN /\ stage \in Stages /\ plugin \in Nat \ {0}
    /\ body = NoBody \/ body \in Bodies(setup)
    /\ stage \in {"parse", "resolve", "stored"} => body \in Bodies(setup)
    /\ stage \in {"plugins", "fetch", "parse"} => records = <<>> /\ warned = {}

Holdings == AreSound(records, Len(body.entries)) /\ warned \subseteq DOMAIN body.entries

\* Each entry is a record, has a warning or is filtered out.
Accounted ==
    \A i \in DOMAIN body.entries :
        \/ i \in warned
        \/ \E k \in DOMAIN records : records[k].id = i
        \/ ~Kept(Entry(body.entries[i]), setup.filter)

Promises ==
    /\ stage \in {"resolve", "stored"} => Accounted
    /\ stage = "resolve" => /\ setup.parseError = "fail" => warned = {}
                            /\ \A h \in UniqueServers(records) : host[h] # "idle"
    /\ stage = "stored" => /\ records # <<>>
                           /\ setup.parseError = "fail" /\ setup.failure = "fail" => warned = {}
                           /\ setup.dns /\ setup.failure # "keep" => UniqueServers(records) = {}

PipelineInv == Pipeline /\ Holdings /\ Promises

LEMMA BodyFits ==
    ASSUME Pipeline
    PROVE  BodyOk(body) \/ body = NoBody
BY SetupAssumption DEF Pipeline

(* A step that leaves the records, on its way to a stage without promises. *)
LEMMA PipelineGoesOn ==
    ASSUME PipelineInv, UNCHANGED <<setup, old, body, records, warned>>,
           plugin' \in Nat \ {0}, stage' \in Stages \ {"parse", "resolve", "stored"},
           stage' \in {"plugins", "fetch"} => stage \in {"plugins", "fetch"}
    PROVE  PipelineInv'
<1>1. Pipeline'
  BY DEF PipelineInv, Pipeline
<1>2. Holdings'
  BY DEF PipelineInv, Holdings
<1>3. Promises'
  BY DEF Promises
<1> QED
  BY <1>1, <1>2, <1>3 DEF PipelineInv

(* A step of the client or of the resolver.                                *)
LEMMA PipelineStays ==
    ASSUME PipelineInv, UNCHANGED pipelineVars,
           stage = "resolve" => \A h \in Hosts : host[h] # "idle" => host'[h] # "idle"
    PROVE  PipelineInv'
<1>1. UNCHANGED <<setup, old, stage, plugin, body, records, warned>>
  BY DEF pipelineVars
<1>2. Pipeline' /\ Holdings'
  BY <1>1 DEF PipelineInv, Pipeline, Holdings
<1>3. Accounted' <=> Accounted
  BY <1>1 DEF Accounted, Entry
<1>4. UniqueServers(records)' = UniqueServers(records) /\ UniqueServers(records) \subseteq Hosts
  BY <1>1 DEF UniqueServers
<1>5. Promises'
  BY <1>1, <1>3, <1>4 DEF PipelineInv, Promises
<1> QED
  BY <1>2, <1>5 DEF PipelineInv

LEMMA PipelineInitially == Init => PipelineInv
<1> SUFFICES ASSUME Init PROVE PipelineInv
  OBVIOUS
<1>1. setup \in Setups /\ old \in BOOLEAN /\ stage = "plugins" /\ plugin = 1
      /\ body = NoBody /\ records = <<>> /\ warned = {}
  BY DEF Init
<1>2. Pipeline
  BY <1>1 DEF Pipeline, Stages
<1>3. Holdings
  BY <1>1, NoneIsSound DEF Holdings
<1>4. Promises
  BY <1>1 DEF Promises
<1> QED
  BY <1>2, <1>3, <1>4 DEF PipelineInv

(* Without a body there is no record yet, so the body that is fetched      *)
(* takes nothing from one.                                                 *)
LEMMA FetchedHolds ==
    ASSUME PipelineInv, Fetched
    PROVE  PipelineInv'
<1>1. /\ stage = "fetch" /\ stage' = "parse" /\ body' \in Bodies(setup)
      /\ UNCHANGED <<setup, old, plugin, records, warned>>
  BY DEF Fetched, To
<1>2. records = <<>> /\ warned = {}
  BY <1>1 DEF PipelineInv, Pipeline
<1>3. Pipeline'
  BY <1>1, <1>2 DEF PipelineInv, Pipeline, Stages
<1>4. Holdings'
  BY <1>1, <1>2, NoneIsSound DEF Holdings
<1>5. Promises'
  BY <1>1 DEF Promises
<1> QED
  BY <1>3, <1>4, <1>5 DEF PipelineInv

(* What a filter sees of an entry is what it sees of its record.           *)
LEMMA SeenIsKept ==
    ASSUME NEW rs, NEW i, NEW e, Seen(rs, i, e, body.kind), NEW filter, Kept(Entry(e), filter)
    PROVE  \E k \in DOMAIN rs : rs[k].id = i /\ Kept(rs[k], filter)
<1>1. PICK k \in DOMAIN rs : /\ rs[k].id = i /\ rs[k].label = e.label
                             /\ rs[k].node.type = TypeIn(body.kind, e)
  BY DEF Seen
<1>2. Entry(e).label = e.label /\ Entry(e).node.type = TypeIn(body.kind, e)
  BY DEF Entry, TypeIn
<1>3. Kept(rs[k], filter)
  BY <1>1, <1>2 DEF Kept
<1> QED
  BY <1>1, <1>3

LEMMA ParsesHolds ==
    ASSUME PipelineInv, Parses
    PROVE  PipelineInv'
<1> DEFINE parsed == Parse(body, setup.format, setup.parseError)
           nodes == ApplyTransform(parsed.records, setup.filter, setup.rename)
<1>1. /\ stage = "parse" /\ records' = nodes /\ warned' = parsed.warned
      /\ UNCHANGED <<setup, old, plugin, body>>
      /\ \/ parsed.raised /\ stage' = "failed"
         \/ ~parsed.raised /\ ~setup.dns /\ stage' = IF nodes = <<>> THEN "failed" ELSE "stored"
         \/ ~parsed.raised /\ setup.dns /\ stage' = "resolve" /\ ResolveHosts(UniqueServers(nodes))
  BY DEF Parses, Store, To
<1>2. body \in Bodies(setup) /\ setup \in Setups
  BY <1>1 DEF PipelineInv, Pipeline
<1>3. BodyOk(body) /\ TextRename(setup.rename)
  BY <1>2, SetupAssumption DEF TextRename
<1>4. /\ ResultOk(parsed, body)
      /\ ~parsed.raised /\ setup.parseError = "fail" => parsed.warned = {}
  BY <1>3, ParseOk
<1> HIDE DEF parsed
<1>5. /\ AreSound(nodes, Len(body.entries))
      /\ \A i \in DOMAIN parsed.records :
            Kept(parsed.records[i], setup.filter) =>
                \E k \in DOMAIN nodes : nodes[k].id = parsed.records[i].id
  BY <1>3, <1>4, TransformIsSound DEF ResultOk
<1> HIDE DEF nodes
<1>6. Holdings'
  BY <1>1, <1>4, <1>5 DEF Holdings, ResultOk
<1>7. Pipeline'
  BY <1>1, <1>2 DEF PipelineInv, Pipeline, Stages, Ends
<1>8. ASSUME ~parsed.raised, NEW i \in DOMAIN body.entries, i \notin parsed.warned,
             Kept(Entry(body.entries[i]), setup.filter)
      PROVE  \E k \in DOMAIN nodes : nodes[k].id = i
  <2>1. Seen(parsed.records, i, body.entries[i], body.kind)
    BY <1>4, <1>8 DEF ResultOk
  <2>2. PICK k \in DOMAIN parsed.records :
          parsed.records[k].id = i /\ Kept(parsed.records[k], setup.filter)
    BY <1>8, <2>1, SeenIsKept
  <2> QED
    BY <1>5, <2>2
<1>9. ~parsed.raised => Accounted'
  BY <1>1, <1>8 DEF Accounted, Entry
<1>10. stage' = "resolve" => \A h \in UniqueServers(records)' : host'[h] # "idle"
  <2> SUFFICES ASSUME stage' = "resolve" PROVE \A h \in UniqueServers(nodes) : host'[h] # "idle"
    BY <1>1 DEF UniqueServers
  <2>1. host' = [h \in Hosts |-> IF h \in UniqueServers(nodes) THEN "next" ELSE "idle"]
    BY <1>1 DEF ResolveHosts
  <2>2. UniqueServers(nodes) \subseteq Hosts
    BY DEF UniqueServers
  <2> QED
    BY <2>1, <2>2
<1>11. Promises'
  BY <1>1, <1>4, <1>9, <1>10 DEF Promises
<1> QED
  BY <1>6, <1>7, <1>11 DEF PipelineInv

(* A record with its address stays one of the records.                     *)
LEMMA RewrittenIsOne ==
    ASSUME NEW r, IsOne(r), Sound(r.node)
    PROVE  IsOne(Rewritten(r)) /\ Sound(Rewritten(r).node) /\ Rewritten(r).id = r.id
<1> DEFINE node == [PreserveHost(r.node) EXCEPT !.server = "literal"]
<1>1. CASE "server" \in DOMAIN r.node /\ r.node.server \in {h \in Hosts : host[h] = "found"}
  <2>1. Rewritten(r) = [r EXCEPT !.node = node]
    BY <1>1 DEF Rewritten
  <2>2. Sound(node)
    BY <1>1, RewrittenIsSound
  <2> HIDE DEF node
  <2>3. Rewritten(r) = [id |-> r.id, source |-> r.source, label |-> r.label, node |-> node]
    BY <2>1 DEF IsOne
  <2> QED
    BY <2>2, <2>3 DEF IsOne
<1>2. CASE ~("server" \in DOMAIN r.node /\ r.node.server \in {h \in Hosts : host[h] = "found"})
  BY <1>2 DEF Rewritten
<1> QED
  BY <1>1, <1>2

(* A host that is not unresolved is found, and then no longer the server.  *)
LEMMA NoHostLeft ==
    ASSUME NEW r, "server" \in DOMAIN r.node => host[r.node.server] # "idle" \/ r.node.server \notin Hosts,
           \A h \in Hosts : host[h] \in {"idle", "found", "unresolved"},
           IsOne(r), ~Unresolved(r), "server" \in DOMAIN Rewritten(r).node
    PROVE  Rewritten(r).node.server \notin Hosts
<1> DEFINE node == [PreserveHost(r.node) EXCEPT !.server = "literal"]
<1>1. CASE "server" \in DOMAIN r.node /\ r.node.server \in {h \in Hosts : host[h] = "found"}
  <2>1. Rewritten(r) = [r EXCEPT !.node = node]
    BY <1>1 DEF Rewritten
  <2>2. "server" \in DOMAIN PreserveHost(r.node)
    BY <1>1 DEF PreserveHost
  <2>3. node.server = "literal"
    BY <2>2
  <2> HIDE DEF node
  <2>4. Rewritten(r).node = node
    BY <2>1 DEF IsOne
  <2> QED
    BY <2>3, <2>4, NameAssumption
<1>2. CASE ~("server" \in DOMAIN r.node /\ r.node.server \in {h \in Hosts : host[h] = "found"})
  <2>1. Rewritten(r) = r
    BY <1>2 DEF Rewritten
  <2> QED
    BY <1>2, <2>1 DEF Unresolved
<1> QED
  BY <1>1, <1>2

LEMMA ApplyHolds ==
    ASSUME PipelineInv, stage = "resolve", ApplyResolution, UNCHANGED <<setup, old, plugin, body>>,
           \A h \in Hosts : host[h] \in {"idle", "found", "unresolved"},
           setup.failure # "fail" \/ \A r \in ToSet(records) : ~Unresolved(r),
           stage' = IF records' = <<>> THEN "failed" ELSE "stored"
    PROVE  PipelineInv'
<1> DEFINE n == Len(body.entries)
           places == {i \in DOMAIN records : setup.failure = "keep" \/ ~Unresolved(records[i])}
           left == Selected(records, places)
           new == {r.id : r \in {r \in ToSet(records) : Unresolved(r)}}
<1>1. /\ places \in SUBSET DOMAIN records
      /\ \A i \in DOMAIN records : i \in places <=> setup.failure = "keep" \/ ~Unresolved(records[i])
  OBVIOUS
<1>2. records' = [i \in DOMAIN left |-> Rewritten(left[i])] /\ warned' = warned \cup new
  BY DEF ApplyResolution, Passing
<1>3. /\ \A i \in DOMAIN records : Unresolved(records[i]) => records[i].id \in new
      /\ \A x \in new : \E i \in DOMAIN records : Unresolved(records[i]) /\ x = records[i].id
  BY DEF ToSet
<1> HIDE DEF places, new
<1>4. AreSound(records, n) /\ warned \subseteq DOMAIN body.entries /\ body \in Bodies(setup)
      /\ setup \in Setups /\ Accounted
      /\ (setup.parseError = "fail" => warned = {})
      /\ \A h \in UniqueServers(records) : host[h] # "idle"
  BY DEF PipelineInv, Pipeline, Holdings, Promises
<1>5. /\ AreSound(left, n)
      /\ \A k \in DOMAIN left : \E i \in places : left[k] = records[i]
      /\ \A i \in places : \E k \in DOMAIN left : left[k] = records[i]
  BY <1>1, <1>4, SelectedIsSound, SelectedInOrder DEF AreSound
<1>6. n \in Nat /\ DOMAIN body.entries = 1..n
  BY <1>4, SetupAssumption DEF BodyOk
<1> HIDE DEF left, n
<1>7. DOMAIN records' = DOMAIN left
  BY <1>2
<1>8. \A k \in DOMAIN left : /\ records'[k] = Rewritten(left[k])
                             /\ IsOne(records'[k]) /\ Sound(records'[k].node)
                             /\ records'[k].id = left[k].id
  BY <1>2, <1>5, RewrittenIsOne DEF AreSound
<1>9. AreSound(records', n)
  BY <1>5, <1>7, <1>8 DEF AreSound, IsList, InOrder
<1>10. Holdings'
  <2>1. new \subseteq DOMAIN body.entries
    BY <1>3, <1>4, <1>6 DEF AreSound
  <2> QED
    BY <1>2, <1>4, <1>9, <2>1 DEF Holdings, n
<1>11. Pipeline'
  BY <1>4 DEF PipelineInv, Pipeline, Stages, Ends
<1>12. Accounted'
  <2>1. ASSUME NEW i \in DOMAIN body.entries, Kept(Entry(body.entries[i]), setup.filter), i \notin warned
        PROVE  i \in new \/ \E k \in DOMAIN left : records'[k].id = i
    <3>1. PICK j \in DOMAIN records : records[j].id = i
      BY <1>4, <2>1 DEF Accounted
    <3>2. CASE j \in places
      BY <1>5, <1>8, <3>1, <3>2
    <3>3. CASE j \notin places
      BY <1>1, <1>3, <3>1, <3>3
    <3> QED
      BY <3>2, <3>3
  <2> QED
    BY <1>2, <1>7, <2>1 DEF Accounted, Entry
<1>13. setup.parseError = "fail" /\ setup.failure = "fail" => warned' = {}
  <2>1. setup.failure = "fail" => new = {}
    BY <1>3 DEF ToSet
  <2> QED
    BY <1>2, <1>4, <2>1
<1>14. setup.failure # "keep" => UniqueServers(records)' = {}
  <2> SUFFICES ASSUME setup.failure # "keep", NEW k \in DOMAIN left,
                      "server" \in DOMAIN records'[k].node
               PROVE  records'[k].node.server \notin Hosts
    BY <1>7 DEF UniqueServers
  <2>1. PICK i \in places : left[k] = records[i]
    BY <1>5
  <2>2. IsOne(left[k]) /\ ~Unresolved(left[k])
    BY <1>1, <1>5, <2>1 DEF AreSound
  <2>3. "server" \in DOMAIN left[k].node =>
           host[left[k].node.server] # "idle" \/ left[k].node.server \notin Hosts
    BY <1>1, <1>4, <2>1 DEF UniqueServers
  <2> QED
    BY <1>8, <2>2, <2>3, NoHostLeft
<1>15. Promises'
  BY <1>12, <1>13, <1>14 DEF Promises
<1> QED
  BY <1>10, <1>11, <1>15 DEF PipelineInv

LEMMA ResolvedHolds ==
    ASSUME PipelineInv, Resolved
    PROVE  PipelineInv'
<1>1. CASE stage' = "failed" /\ UNCHANGED <<records, warned>>
  BY <1>1, PipelineGoesOn DEF Resolved, Stages, Ends, PipelineInv, Pipeline
<1>2. CASE /\ setup.failure # "fail" \/ \A r \in ToSet(records) : ~Unresolved(r)
           /\ ApplyResolution
           /\ stage' = IF records' = <<>> THEN "failed" ELSE "stored"
  BY <1>2, ApplyHolds DEF Resolved
<1> QED
  BY <1>1, <1>2 DEF Resolved, Store, To

LEMMA PipelineNext == PipelineInv /\ ResolverInv /\ [Next]_vars => PipelineInv'
<1> SUFFICES ASSUME PipelineInv, ResolverInv, [Next]_vars PROVE PipelineInv'
  OBVIOUS
<1>0. plugin \in Nat \ {0}
  BY DEF PipelineInv, Pipeline
<1>1. CASE PluginSends \/ Sending
  <2>1. stage # "resolve" \/ UNCHANGED host
    BY <1>1 DEF PluginSends, Sending, resolverVars
  <2> QED
    BY <1>1, <2>1, PipelineStays DEF PluginSends, Sending
<1>2. CASE PluginEnds \/ FetchSends \/ FetchFails \/ NotModified
  <2>1. plugin' \in Nat \ {0}
    <3>1. plugin' = plugin + 1 \/ plugin' = plugin
      BY <1>2 DEF PluginEnds, FetchSends, FetchFails, NotModified
    <3> QED
      BY <1>0, <3>1
  <2>2. /\ UNCHANGED <<setup, old, body, records, warned>>
        /\ stage \in {"plugins", "fetch"} /\ stage' \in {"plugins", "fetch", "failed", "unchanged"}
    BY <1>2 DEF PluginEnds, FetchSends, FetchFails, NotModified, To
  <2> QED
    BY <2>1, <2>2, PipelineGoesOn DEF Stages, Ends
<1>3. CASE Fetched
  BY <1>3, FetchedHolds
<1>4. CASE Parses
  BY <1>4, ParsesHolds
<1>5. CASE Resolving
  <2>1. UNCHANGED pipelineVars
    BY <1>5 DEF Resolving
  <2>2. \A h \in Hosts : host[h] # "idle" => host'[h] # "idle"
    <3>1. ASSUME NEW g \in Hosts, AskEndpoint(g, setup.ipv6) \/ HostStep(g)
          PROVE  \E s \in HostStates \ {"idle"} : Becomes(g, s)
      BY <3>1 DEF AskEndpoint, HostStep, GiveUp, AComes, AAAAComes, Close, HostCancelled, HostStates
    <3>2. ASSUME NEW t \in Tasks, TaskStep(t)
          PROVE  UNCHANGED host
      BY <3>2 DEF TaskStep, Acquire, QueryEnds, Cancelled
    <3> QED
      BY <1>5, <3>1, <3>2 DEF Resolving, Becomes, ResolverInv, Typed
  <2> QED
    BY <2>1, <2>2, PipelineStays
<1>6. CASE Resolved
  BY <1>6, ResolvedHolds
<1>7. CASE CancelJob \/ CancelDone
  <2>1. /\ UNCHANGED <<setup, old, plugin, body, records, warned>>
        /\ stage' \in {"cancelling", "cancelled"}
    BY <1>7 DEF CancelJob, CancelDone, To
  <2> QED
    BY <1>0, <2>1, PipelineGoesOn DEF Stages, Ends
<1>8. CASE Terminated \/ UNCHANGED vars
  BY <1>8, PipelineStays DEF Terminated, vars, resolverVars
<1> QED
  BY <1>1, <1>2, <1>3, <1>4, <1>5, <1>6, <1>7, <1>8 DEF Next, Step

(* Every node a refresh counts is one that a route still accepts, though   *)
(* it was renamed and its host replaced since (parse_subscription,         *)
(* apply_transform, _apply_resolution).                                    *)
THEOREM NodesStayAccepted == Spec => []AcceptedStays
<1>1. PipelineInv => AcceptedStays
  BY DEF PipelineInv, Holdings, AreSound, Sound, AcceptedStays, ToSet
<1> QED
  BY <1>1, PipelineInitially, PipelineNext, ResolverInitially, ResolverNext, PTL DEF Spec

(* The records that a refresh stores are of the kind Server assumes its    *)
(* routes to be given: normalized nodes, each from another entry           *)
(* (_refresh_locked, normalize_proxy).                                     *)
THEOREM StoredRecordsFit == Spec => [](stage = "stored" => RecordsOk(records))
<1>1. PipelineInv => RecordsOk(records)
  <2> SUFFICES ASSUME PipelineInv PROVE RecordsOk(records)
    OBVIOUS
  <2>1. PICK n \in Nat : DOMAIN records = 1..n
    BY DEF PipelineInv, Holdings, AreSound, IsList
  <2>2. Cardinality(DOMAIN records) = n
    BY <2>1, FS_Interval
  <2>3. ASSUME NEW i \in DOMAIN records
        PROVE  RecordOk(records[i])
    BY DEF PipelineInv, Holdings, AreSound, IsOne, Sound, RecordOk
  <2>4. ASSUME NEW i \in DOMAIN records, NEW j \in DOMAIN records, records[i].id = records[j].id
        PROVE  i = j
    <3>1. records[i].id \in Nat /\ records[j].id \in Nat
      BY DEF PipelineInv, Holdings, AreSound
    <3>2. ~(i < j) /\ ~(j < i)
      BY <2>4, <3>1 DEF PipelineInv, Holdings, AreSound, InOrder
    <3> QED
      BY <2>1, <3>2
  <2> QED
    BY <2>1, <2>2, <2>3, <2>4 DEF RecordsOk
<1> QED
  BY <1>1, PipelineInitially, PipelineNext, ResolverInitially, ResolverNext, PTL DEF Spec

(* Whatever the body and the configuration, no node of a stored record has *)
(* gone without a warning, the order is kept and what the configuration    *)
(* forbids is not stored (_refresh_locked, _finalize, _apply_resolution).  *)
THEOREM NothingIsLost == Spec => []NoSilentLoss
<1>1. PipelineInv => NoSilentLoss
  <2> SUFFICES ASSUME PipelineInv, stage = "stored"
               PROVE  /\ records # <<>>
                      /\ \A i, j \in DOMAIN records : i < j => records[i].id < records[j].id
                      /\ \A i \in DOMAIN body.entries :
                            \/ i \in warned \cup {r.id : r \in ToSet(records)}
                            \/ ~Kept(Entry(body.entries[i]), setup.filter)
                      /\ setup.parseError = "fail" /\ setup.failure = "fail" => warned = {}
                      /\ setup.dns /\ setup.failure # "keep" => UniqueServers(records) = {}
    BY DEF NoSilentLoss
  <2>1. InOrder(records) /\ Accounted
    BY DEF PipelineInv, Holdings, AreSound, Promises
  <2>2. \A k \in DOMAIN records : records[k].id \in {r.id : r \in ToSet(records)}
    BY DEF ToSet
  <2>3. \A i \in DOMAIN body.entries :
            \/ i \in warned \cup {r.id : r \in ToSet(records)}
            \/ ~Kept(Entry(body.entries[i]), setup.filter)
    BY <2>1, <2>2 DEF Accounted
  <2> QED
    BY <2>1, <2>3 DEF PipelineInv, Promises, InOrder
<1> QED
  BY <1>1, PipelineInitially, PipelineNext, ResolverInitially, ResolverNext, PTL DEF Spec

----------------------------------------------------------------------------
(* No host goes beyond the last endpoint, and what it asked for it asked   *)
(* at an endpoint.                                                         *)

Asked ==
    /\ asked \subseteq Tasks
    /\ \A h \in Hosts : at[h] <= Endpoints
    /\ \A h \in Hosts, f \in Families : task[<<h, f>>] # "none" => at[h] > 0

LEMMA AskedAnew ==
    ASSUME NEW H, ResolveHosts(H)
    PROVE  Asked'
BY EndpointAssumption, PairsAreTasks DEF ResolveHosts, Asked

LEMMA AskedNext == Asked /\ AnswerInv /\ ResolverInv /\ [Next]_vars => Asked'
<1> SUFFICES ASSUME Asked, AnswerInv, ResolverInv, [Next]_vars PROVE Asked'
  OBVIOUS
<1>0. /\ at \in [Hosts -> Nat] /\ task \in [Tasks -> TaskStates]
      /\ \A h \in Hosts : at[h] \in Nat
  BY DEF AnswerInv, AnswerTyped
<1>1. CASE UNCHANGED resolverVars
  BY <1>1 DEF Asked, resolverVars
<1>2. CASE PluginSends \/ PluginEnds \/ FetchSends \/ FetchFails \/ NotModified \/ Fetched
           \/ Sending \/ CancelDone \/ Terminated \/ UNCHANGED vars
  BY <1>1, <1>2 DEF PluginSends, PluginEnds, FetchSends, FetchFails, NotModified, Fetched,
     Sending, CancelDone, Terminated, vars
<1>3. CASE Parses \/ Resolved
  <2>1. UNCHANGED resolverVars \/ \E H : ResolveHosts(H)
    BY <1>3 DEF Parses, Resolved
  <2> QED
    BY <1>1, <2>1, AskedAnew
<1>4. ASSUME NEW h \in Hosts, AskEndpoint(h, setup.ipv6)
      PROVE  Asked'
  <2>1. /\ at' = [at EXCEPT ![h] = @ + 1] /\ at[h] < Endpoints /\ asked' = asked \ TasksOf(h)
    BY <1>4 DEF AskEndpoint
  <2>2. \A t \in Tasks : t \notin TasksOf(h) => task'[t] = task[t]
    BY <1>4 DEF AskEndpoint
  <2>3. \A g \in Hosts, f \in Families : g # h => <<g, f>> \in Tasks \ TasksOf(h)
    BY PairsAreTasks DEF TasksOf
  <2>4. \A g \in Hosts : at'[g] = IF g = h THEN at[g] + 1 ELSE at[g]
    BY <1>0, <2>1
  <2> QED
    BY <1>0, <2>1, <2>2, <2>3, <2>4, EndpointAssumption DEF Asked
<1>5. ASSUME NEW h \in Hosts, HostStep(h)
      PROVE  Asked'
  <2>1. UNCHANGED <<at, task>> /\ asked' \subseteq asked \cup {<<h, "AAAA">>}
    BY <1>5 DEF HostStep, GiveUp, AComes, AAAAComes, Close, HostCancelled
  <2> QED
    BY <2>1, PairsAreTasks DEF Asked
<1>6. ASSUME NEW t \in Tasks, TaskStep(t)
      PROVE  Asked'
  <2>1. PICK s : task' = [task EXCEPT ![t] = s] /\ UNCHANGED <<at, asked>>
    BY <1>6 DEF TaskStep, Acquire, QueryEnds, Cancelled
  <2>2. task[t] # "none"
    BY <1>6 DEF TaskStep, Acquire, QueryEnds, Cancelled, Waits, ResolverInv, QueueOK
  <2>3. \A u \in Tasks : u # t => task'[u] = task[u]
    BY <1>0, <2>1
  <2> QED
    BY <2>1, <2>2, <2>3, PairsAreTasks DEF Asked
<1>7. CASE Resolving
  BY <1>4, <1>5, <1>6, <1>7 DEF Resolving
<1>8. CASE CancelJob
  BY <1>8 DEF CancelJob, CancelHosts, Asked
<1> QED
  BY <1>2, <1>3, <1>7, <1>8 DEF Next, Step

LEMMA AskedInitially == Init => Asked
BY EndpointAssumption, PairsAreTasks DEF Init, ResolverInit, Asked

LEMMA ResolverTypes ==
    ASSUME AnswerInv, ResolverInv, Asked
    PROVE  ResolverTypeOK
<1>1. at \in [Hosts -> 0..Endpoints]
  BY EndpointAssumption DEF AnswerInv, AnswerTyped, Asked
<1>2. told \subseteq Hosts \X (1..Endpoints) \X Families
  <2> SUFFICES ASSUME NEW x \in told PROVE x \in Hosts \X (1..Endpoints) \X Families
    OBVIOUS
  <2>1. PICK h \in Hosts, e \in Nat, f \in Families : x = <<h, e, f>>
    BY DEF AnswerInv, ToldOK
  <2>2. e = at[h] /\ task[<<h, f>>] = "found"
    BY <2>1 DEF AnswerInv, ToldOK
  <2>3. e \in 1..Endpoints
    BY <2>1, <2>2, EndpointAssumption DEF Asked
  <2> QED
    BY <2>1, <2>3
<1> QED
  BY <1>1, <1>2 DEF AnswerInv, AnswerTyped, ResolverInv, Typed, QueueOK, Asked, ResolverTypeOK

(* Every variable of a refresh keeps its type: a record and a warning are  *)
(* of an entry of the body, and no host is asked of beyond the last DNS    *)
(* server (_refresh_locked, _resolve_server).                              *)
THEOREM RefreshTypes == Spec => []TypeOK
<1>1. PipelineInv /\ HttpInv /\ AnswerInv /\ ResolverInv /\ Asked => TypeOK
  <2> SUFFICES ASSUME PipelineInv, HttpInv, AnswerInv, ResolverInv, Asked PROVE TypeOK
    OBVIOUS
  <2>1. body.kind \in Kinds \cup {NoBody.kind} /\ DOMAIN body.entries = 1..Len(body.entries)
    <3>1. CASE BodyOk(body)
      BY <3>1 DEF BodyOk
    <3>2. CASE body = NoBody
      BY <3>2 DEF NoBody
    <3> QED
      BY <3>1, <3>2, BodyFits DEF PipelineInv
  <2>2. \A r \in ToSet(records) : r.id \in DOMAIN body.entries
    BY <2>1 DEF PipelineInv, Holdings, AreSound, ToSet
  <2>3. HttpTypeOK /\ ResolverTypeOK
    BY ResolverTypes DEF HttpInv
  <2> QED
    BY <2>1, <2>2, <2>3 DEF TypeOK, PipelineInv, Pipeline, Holdings
<1> QED
  BY <1>1, HttpInitially, HttpNext, AnswerInitially, AnswerNext, AskedInitially,
     AskedNext, PipelineInitially, PipelineNext, ResolverInitially, ResolverNext, PTL DEF Spec
=============================================================================
