----------------------------- MODULE AuditStore -----------------------------
(***************************************************************************)
(* SQLiteAccessAuditStore: each event is recorded by a worker thread of    *)
(* its own, and at most once an hour one of them deletes the events that   *)
(* are past retention.                                                     *)
(*                                                                         *)
(* A definition that says "Variant" is a fault put into the one after it;  *)
(* no other definition uses it.                                            *)
(***************************************************************************)
EXTENDS WallClock

CONSTANTS
    Events,       \* the accesses that may be recorded
    NoEvent,
    Hour,         \* 3_600_000 ms
    Retention

ASSUME AuditAssumption ==
    /\ NoEvent \notin Events
    /\ Hour \in Nat \ {0} /\ Retention \in Nat
    /\ Start >= Hour

VARIABLES
    writer,       \* per event, where its record() is
    visited,      \* per event, visited_at
    asked,        \* per event, the now_ms its thread took
    events,       \* the rows of access_events
    lost,         \* the events whose insert failed, for the properties
    lastCleanup,  \* _last_cleanup_ms
    cleaner       \* the event whose thread holds _cleanup_lock

auditVars == <<writer, visited, asked, events, lost, lastCleanup, cleaner>>

WriterStates == {"none", "insert", "check", "wait", "sweep", "swept", "end"}

Goes(e, state) == writer' = [writer EXCEPT ![e] = state]

(* The thread starts with an event visited at the given time.              *)
Record(e, at) ==
    /\ writer[e] = "none"
    /\ Goes(e, "insert")
    /\ visited' = [visited EXCEPT ![e] = at]
    /\ UNCHANGED <<asked, events, lost, lastCleanup, cleaner>>

Insert(e) ==
    /\ writer[e] = "insert"
    /\ Goes(e, "check")
    /\ events' = events \cup {e}
    /\ UNCHANGED <<visited, asked, lost, lastCleanup, cleaner>>

InsertFails(e) ==
    /\ writer[e] = "insert"
    /\ Goes(e, "end")
    /\ lost' = lost \cup {e}
    /\ UNCHANGED <<visited, asked, events, lastCleanup, cleaner>>

(* The first look, without the lock.                                       *)
Check(e) ==
    /\ writer[e] = "check"
    /\ asked' = [asked EXCEPT ![e] = now]
    /\ Goes(e, IF now - lastCleanup >= Hour THEN "wait" ELSE "end")
    /\ UNCHANGED <<visited, events, lost, lastCleanup, cleaner>>

\* Variant: no second look once the lock is held.
AcquireOnce(e) ==
    /\ writer[e] = "wait" /\ cleaner = NoEvent
    /\ Goes(e, "sweep") /\ cleaner' = e
    /\ UNCHANGED <<visited, asked, events, lost, lastCleanup>>

(* The second look, with the lock, which is kept only if it still is time. *)
Acquire(e) ==
    /\ writer[e] = "wait" /\ cleaner = NoEvent
    /\ IF asked[e] - lastCleanup >= Hour
       THEN Goes(e, "sweep") /\ cleaner' = e
       ELSE Goes(e, "end") /\ UNCHANGED cleaner
    /\ UNCHANGED <<visited, asked, events, lost, lastCleanup>>

\* Variant: the cutoff is the time of the clean-up.
SweepAll(e) ==
    /\ writer[e] = "sweep"
    /\ events' = {x \in events : visited[x] >= asked[e]}
    /\ Goes(e, "swept")
    /\ UNCHANGED <<visited, asked, lost, lastCleanup, cleaner>>

(* _cleanup_locked: the delete is committed.                               *)
Sweep(e) ==
    /\ writer[e] = "sweep"
    /\ events' = {x \in events : visited[x] >= asked[e] - Retention}
    /\ Goes(e, "swept")
    /\ UNCHANGED <<visited, asked, lost, lastCleanup, cleaner>>

SweepFails(e) ==
    /\ writer[e] = "sweep"
    /\ Goes(e, "end") /\ cleaner' = NoEvent
    /\ UNCHANGED <<visited, asked, events, lost, lastCleanup>>

Swept(e) ==
    /\ writer[e] = "swept"
    /\ lastCleanup' = asked[e]
    /\ Goes(e, "end") /\ cleaner' = NoEvent
    /\ UNCHANGED <<visited, asked, events, lost>>

AuditStep ==
    \E e \in Events :
        \/ Insert(e) \/ InsertFails(e)
        \/ Check(e) \/ Acquire(e)
        \/ Sweep(e) \/ SweepFails(e) \/ Swept(e)

(* The clean-up of __init__ passed or failed.                              *)
AuditInit ==
    /\ writer = [e \in Events |-> "none"]
    /\ visited = [e \in Events |-> 0] /\ asked = [e \in Events |-> 0]
    /\ events = {} /\ lost = {} /\ cleaner = NoEvent
    /\ lastCleanup \in {0, Start}

AuditTypeOK ==
    /\ writer \in [Events -> WriterStates]
    /\ visited \in [Events -> Nat] /\ asked \in [Events -> Nat]
    /\ events \subseteq Events /\ lost \subseteq Events
    /\ lastCleanup \in Nat
    /\ cleaner \in Events \cup {NoEvent}
=============================================================================
