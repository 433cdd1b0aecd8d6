---------------------------- MODULE RefreshCalls ----------------------------
(***************************************************************************)
(* What the server's tasks see of SourceRefresher and of the cache: calls  *)
(* of refresh() that share one job per source, and records that age.  How  *)
(* the refresher does it is in Refresher.                                  *)
(*                                                                         *)
(* A call is named by who made it (a request, the startup refresh or the   *)
(* source's loop), for which source, and, since a route may name a source  *)
(* twice, for which place in the route.                                    *)
(***************************************************************************)

EXTENDS Naturals, Sequences, SequencesExt

CONSTANTS
    Sources,
    Requests,      \* provider requests
    Places,        \* places of sources in a route
    NoCall,        \* no job is in flight
    Configs        \* configurations, see ConfigAssumption

VARIABLES
    config,  \* the member of Configs this behaviour is about
    cache,   \* per source, the age of its record
    job,     \* per source, the call that owns the job in flight
    call     \* what became of each call

callVars == <<cache, job, call>>

Calls == (Requests \X Sources \X Places) \cup ({"startup", "loop"} \X Sources \X {1})
CallStates == {"none", "created", "running", "returned", "raised", "cancelled"}
Live == {"created", "running"}
SourceOf(t) == t[2]

(* route gives the sources of each request's route in order, requireAll    *)
(* the requests to routes with require_all_sources, loops the sources with *)
(* an interval or a cron expression, startup the mode of the startup       *)
(* refresh, and come the requests that may come.  validate() takes a route *)
(* without sources, or with one named twice.                               *)
ASSUME ConfigAssumption ==
    \A c \in Configs :
        /\ \A r \in Requests : c.route[r] \in Seq(Sources) /\ DOMAIN c.route[r] \subseteq Places
        /\ c.requireAll \subseteq Requests /\ c.come \subseteq Requests
        /\ c.loops \subseteq Sources
        /\ c.startup \in {"blocking", "background", "skip"}
ASSUME PlaceAssumption == Places \subseteq Nat
ASSUME CallerAssumption == {"startup", "loop"} \cap Requests = {}
ASSUME NoCallAssumption == NoCall \notin Calls

(* A record is "fresh", "due" for the next refresh but still valid, or not *)
(* valid: "expired", or there is none with a success ("none").             *)
Ages == {"none", "fresh", "due", "expired"}

----------------------------------------------------------------------------
Valid(s) == cache[s] \in {"fresh", "due"}
Due(s) == cache[s] # "fresh"

(* Time passes the next trigger of the source, or max_stale.               *)
GetsOlder(s) ==
    /\ \/ cache[s] = "fresh" /\ cache' = [cache EXCEPT ![s] = "due"]
       \/ Valid(s) /\ cache' = [cache EXCEPT ![s] = "expired"]
    /\ UNCHANGED <<job, call>>

(* A failure leaves the record as valid as it was; since the due check     *)
(* goes by the last attempt, it is not due again until the next trigger.   *)
AfterFailure(age) == IF age = "due" THEN {"due", "fresh"} ELSE {age}

----------------------------------------------------------------------------
(* Calls of refresh()                                                      *)

(* Call t gets inside refresh(): it owns a job or waits on one.            *)
Entered(t) ==
    /\ call' = [call EXCEPT ![t] = "running"]
    /\ job' = IF job[SourceOf(t)] = NoCall
              THEN [job EXCEPT ![SourceOf(t)] = t]
              ELSE job

(* A task that was created for a call gets its first turn.                 *)
Begin(t) ==
    /\ call[t] = "created"
    /\ Entered(t)
    /\ UNCHANGED cache

(* The job ends with a success, with a failure, or with an exception of    *)
(* the store; its owner and all who wait on it have their outcome.         *)
JobEnds(s) ==
    /\ job[s] # NoCall
    /\ \E outcome \in {"returned", "raised"} :
          /\ call' = [t \in Calls |-> IF SourceOf(t) = s /\ call[t] = "running"
                                      THEN outcome ELSE call[t]]
          /\ \/ outcome = "returned" /\ cache' = [cache EXCEPT ![s] = "fresh"]
             \/ outcome = "returned" /\ \E age \in AfterFailure(cache[s]) :
                                           cache' = [cache EXCEPT ![s] = age]
             \/ outcome = "raised" /\ UNCHANGED cache
    /\ job' = [job EXCEPT ![s] = NoCall]

\* Variant: a call whose wait expires has an outcome of its own.
WaitExpiresAside(t) ==
    /\ call[t] = "running" /\ job[SourceOf(t)] # t
    /\ call' = [call EXCEPT ![t] = "expired"]
    /\ UNCHANGED <<cache, job>>

(* refresh_lock_timeout ends the wait of a call that does not own the job. *)
(* The failure it records may put an older record back (see Refresher).    *)
WaitExpires(t) ==
    LET s == SourceOf(t) IN
    /\ call[t] = "running" /\ job[s] # t
    /\ call' = [call EXCEPT ![t] = "returned"]
    /\ \E age \in AfterFailure(cache[s]) \cup {"none", "expired"} :
          cache' = [cache EXCEPT ![s] = age]
    /\ UNCHANGED job

\* Variant: who waits on a cancelled job is not told.
CancelOwners(C) ==
    /\ call' = [t \in Calls |-> IF t \in C /\ call[t] \in Live THEN "cancelled" ELSE call[t]]
    /\ job' = [s \in Sources |-> IF job[s] \in C THEN NoCall ELSE job[s]]
    /\ UNCHANGED cache

(* The tasks of the calls in C are cancelled and awaited; a cancelled      *)
(* owner takes its job and those who wait on it along.  What a cancelled   *)
(* write may leave is in Refresher.                                        *)
Cancel(C) ==
    LET lost == {s \in Sources : job[s] \in C}
        gone(t) == \/ t \in C /\ call[t] \in Live
                   \/ SourceOf(t) \in lost /\ call[t] = "running"
    IN /\ call' = [t \in Calls |-> IF gone(t) THEN "cancelled" ELSE call[t]]
       /\ job' = [s \in Sources |-> IF s \in lost THEN NoCall ELSE job[s]]
       /\ UNCHANGED cache

----------------------------------------------------------------------------
(* The server may find records of an earlier run.                          *)
CallsInit ==
    /\ config \in Configs
    /\ cache \in [Sources -> Ages]
    /\ job = [s \in Sources |-> NoCall]
    /\ call = [t \in Calls |-> "none"]

CallsTypeOK ==
    /\ config \in Configs
    /\ cache \in [Sources -> Ages]
    /\ job \in [Sources -> Calls \cup {NoCall}]
    /\ call \in [Calls -> CallStates]
=============================================================================
