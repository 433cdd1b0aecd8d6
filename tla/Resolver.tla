------------------------------ MODULE Resolver ------------------------------
(***************************************************************************)
(* DnsResolver.resolve_records: the hosts of a subscription are resolved   *)
(* side by side, each endpoint after endpoint, with an A and an AAAA task  *)
(* per endpoint; one semaphore bounds the queries of all of them.  An      *)
(* action is what a coroutine does between two awaits.                     *)
(*                                                                         *)
(* A definition that says "Variant" is a fault put into the one after it;  *)
(* no other definition uses it.                                            *)
(***************************************************************************)
EXTENDS Naturals, Sequences, SequencesExt, FiniteSets

CONSTANTS
    Hosts,         \* host names that nodes may have as their server
    Endpoints,     \* number of DNS servers in dns.servers
    Concurrency    \* DNS_SERVER_CONCURRENCY

ASSUME HostAssumption == IsFiniteSet(Hosts)
ASSUME EndpointAssumption == Endpoints \in Nat
ASSUME ConcurrencyAssumption == Concurrency \in Nat \ {0}

VARIABLES
    host,      \* where the coroutine of each host is
    at,        \* the endpoint it asks, counted from 1
    ip,        \* the family of the address it has got, or "none"
    task,      \* the A and AAAA tasks at that endpoint
    asked,     \* tasks whose cancellation was requested
    queue,     \* tasks that wait for the semaphore, in order
    permits,   \* the semaphore's counter
    told       \* (history) the answers with an address: host, endpoint, family

resolverVars == <<host, at, ip, task, asked, queue, permits, told>>

----------------------------------------------------------------------------
Families == {"A", "AAAA"}
Tasks == Hosts \X Families
TaskStates == {"none", "queued", "running", "found", "nothing", "cancelled"}
HostStates == {"idle", "next", "awaitA", "awaitAAAA", "closing", "cancelling",
               "found", "unresolved", "cancelled"}

TasksOf(h) == {h} \X Families
Waits(t) == task[t] \in {"queued", "running"}
Running == {t \in Tasks : task[t] = "running"}
Finished(h) == \A t \in TasksOf(h) : ~Waits(t)

Becomes(h, s) == host' = [host EXCEPT ![h] = s]
Without(q, t) ==
    IF t \in Range(q) THEN RemoveAt(q, CHOOSE i \in DOMAIN q : q[i] = t) ELSE q

(* gather() over the unique servers, with a new semaphore.                 *)
ResolveHosts(H) ==
    /\ host' = [h \in Hosts |-> IF h \in H THEN "next" ELSE "idle"]
    /\ at' = [h \in Hosts |-> 0]
    /\ ip' = [h \in Hosts |-> "none"]
    /\ task' = [t \in Tasks |-> "none"]
    /\ asked' = {} /\ queue' = <<>> /\ permits' = Concurrency
    /\ told' = {}

----------------------------------------------------------------------------
(* _resolve_server() and _query_endpoint()                                 *)

\* Variant: one endpoint too many.
AskBeyond(h, ipv6) ==
    /\ host[h] = "next" /\ at[h] <= Endpoints
    /\ at' = [at EXCEPT ![h] = @ + 1]
    /\ UNCHANGED <<host, ip, task, asked, queue, permits, told>>

(* The next endpoint: a task for A and, with enable_ipv6, one for AAAA.    *)
AskEndpoint(h, ipv6) ==
    /\ host[h] = "next" /\ at[h] < Endpoints
    /\ LET new == IF ipv6 THEN <<<<h, "A">>, <<h, "AAAA">>>> ELSE <<<<h, "A">>>> IN
       /\ task' = [t \in Tasks |->
                     IF t \notin TasksOf(h) THEN task[t]
                     ELSE IF \E i \in DOMAIN new : new[i] = t THEN "queued" ELSE "none"]
       /\ queue' = queue \o new
    /\ at' = [at EXCEPT ![h] = @ + 1]
    /\ asked' = asked \ TasksOf(h)
    /\ Becomes(h, "awaitA")
    /\ UNCHANGED <<ip, permits, told>>

GiveUp(h) ==
    /\ host[h] = "next" /\ at[h] = Endpoints
    /\ Becomes(h, "unresolved")
    /\ UNCHANGED <<at, ip, task, asked, queue, permits, told>>

\* Variant: whichever task has an address first wins.
FirstComes(h) ==
    /\ host[h] = "awaitA"
    /\ \/ \E f \in Families :
          /\ task[<<h, f>>] = "found"
          /\ ip' = [ip EXCEPT ![h] = f]
          /\ asked' = asked \cup TasksOf(h)
          /\ Becomes(h, "closing")
       \/ /\ task[<<h, "A">>] = "nothing"
          /\ Becomes(h, IF task[<<h, "AAAA">>] = "none" THEN "next" ELSE "awaitAAAA")
          /\ UNCHANGED <<ip, asked>>
    /\ UNCHANGED <<at, task, queue, permits, told>>

(* Await the A task: its address is taken and the AAAA task cancelled;     *)
(* without one the AAAA task is awaited, if there is one.                  *)
AComes(h) ==
    /\ host[h] = "awaitA"
    /\ \/ /\ task[<<h, "A">>] = "found"
          /\ ip' = [ip EXCEPT ![h] = "A"]
          /\ asked' = asked \cup {<<h, "AAAA">>}
          /\ Becomes(h, "closing")
       \/ /\ task[<<h, "A">>] = "nothing"
          /\ Becomes(h, IF task[<<h, "AAAA">>] = "none" THEN "next" ELSE "awaitAAAA")
          /\ UNCHANGED <<ip, asked>>
    /\ UNCHANGED <<at, task, queue, permits, told>>

AAAAComes(h) ==
    /\ host[h] = "awaitAAAA"
    /\ task[<<h, "AAAA">>] \in {"found", "nothing"}
    /\ ip' = [ip EXCEPT ![h] = IF task[<<h, "AAAA">>] = "found" THEN "AAAA" ELSE "none"]
    /\ Becomes(h, "closing")
    /\ UNCHANGED <<at, task, asked, queue, permits, told>>

\* Variant: the tasks are cancelled but not awaited.
CloseAtOnce(h) ==
    /\ host[h] = "closing"
    /\ Becomes(h, IF ip[h] = "none" THEN "next" ELSE "found")
    /\ UNCHANGED <<at, ip, task, asked, queue, permits, told>>

(* The finally clause: both tasks are gathered before the endpoint is      *)
(* left; with an address the host is done, else its next endpoint is asked. *)
Close(h) ==
    /\ host[h] = "closing" /\ Finished(h)
    /\ Becomes(h, IF ip[h] = "none" THEN "next" ELSE "found")
    /\ UNCHANGED <<at, ip, task, asked, queue, permits, told>>

----------------------------------------------------------------------------
(* run_one() and the semaphore, which serves its waiters in order.         *)

Acquire(t) ==
    /\ permits > 0 /\ queue # <<>> /\ Head(queue) = t
    /\ t \notin asked
    /\ queue' = Tail(queue)
    /\ permits' = permits - 1
    /\ task' = [task EXCEPT ![t] = "running"]
    /\ UNCHANGED <<host, at, ip, asked, told>>

(* The query returned an address, or it raised or its answer was empty.    *)
QueryEnds(t) ==
    /\ task[t] = "running" /\ t \notin asked
    /\ \E outcome \in {"found", "nothing"} :
          /\ task' = [task EXCEPT ![t] = outcome]
          /\ told' = IF outcome = "found" THEN told \cup {<<t[1], at[t[1]], t[2]>>} ELSE told
    /\ permits' = permits + 1
    /\ UNCHANGED <<host, at, ip, asked, queue>>

\* Variant: a task that is cancelled gives back a permit in any case.
CancelledReleases(t) ==
    /\ t \in asked /\ Waits(t)
    /\ task' = [task EXCEPT ![t] = "cancelled"]
    /\ queue' = Without(queue, t)
    /\ permits' = permits + 1
    /\ UNCHANGED <<host, at, ip, asked, told>>

(* CancelledError arrives: a task that waits leaves the queue, one that    *)
(* runs gives its permit back.                                             *)
Cancelled(t) ==
    /\ t \in asked /\ Waits(t)
    /\ task' = [task EXCEPT ![t] = "cancelled"]
    /\ queue' = Without(queue, t)
    /\ permits' = IF task[t] = "running" THEN permits + 1 ELSE permits
    /\ UNCHANGED <<host, at, ip, asked, told>>

----------------------------------------------------------------------------
Active == {h \in Hosts : host[h] \in {"next", "awaitA", "awaitAAAA", "closing"}}

(* The refresh is cancelled, and with it the coroutine of every host.      *)
CancelHosts ==
    /\ Active # {}
    /\ host' = [h \in Hosts |-> IF h \in Active THEN "cancelling" ELSE host[h]]
    /\ asked' = asked \cup {t \in Tasks : t[1] \in Active}
    /\ UNCHANGED <<at, ip, task, queue, permits, told>>

(* Its finally clause has gathered its tasks.                              *)
HostCancelled(h) ==
    /\ host[h] = "cancelling" /\ Finished(h)
    /\ Becomes(h, "cancelled")
    /\ UNCHANGED <<at, ip, task, asked, queue, permits, told>>

HostStep(h) == GiveUp(h) \/ AComes(h) \/ AAAAComes(h) \/ Close(h) \/ HostCancelled(h)
TaskStep(t) == Acquire(t) \/ QueryEnds(t) \/ Cancelled(t)

ResolverInit ==
    /\ host = [h \in Hosts |-> "idle"]
    /\ at = [h \in Hosts |-> 0]
    /\ ip = [h \in Hosts |-> "none"]
    /\ task = [t \in Tasks |-> "none"]
    /\ asked = {} /\ queue = <<>> /\ permits = Concurrency
    /\ told = {}

ResolverTypeOK ==
    /\ host \in [Hosts -> HostStates]
    /\ at \in [Hosts -> 0..Endpoints]
    /\ ip \in [Hosts -> {"none", "A", "AAAA"}]
    /\ task \in [Tasks -> TaskStates]
    /\ asked \subseteq Tasks
    /\ queue \in Seq(Tasks)
    /\ permits \in Nat
    /\ told \subseteq Hosts \X (1..Endpoints) \X Families
=============================================================================
