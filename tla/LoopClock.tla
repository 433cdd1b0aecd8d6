----------------------------- MODULE LoopClock -----------------------------
(***************************************************************************)
(* When the loops of RefreshScheduler refresh: an interval loop at every   *)
(* interval after its start, a cron loop at the occurrences of its         *)
(* expression, both later by some jitter.  A cron expression that occurs   *)
(* at every multiple of Interval stands for all of them.                   *)
(*                                                                         *)
(* A definition that says "Variant" is a fault put into the one after it;  *)
(* no other definition uses it.                                            *)
(***************************************************************************)
EXTENDS WallClock

CONSTANTS
    IntervalLoops, CronLoops,
    Interval,
    Jitter         \* the longest jitter

ASSUME LoopAssumption ==
    /\ Interval \in Nat \ {0} /\ Jitter \in Nat
    /\ IntervalLoops \cap CronLoops = {}

VARIABLES
    phase,         \* per loop: "off", "sleep", "jitter" or "refresh"
    target,        \* per loop, next_target or next_at
    wakeAt,        \* per loop, the end of its sleep
    ended          \* per loop, when it last finished, for the properties

clockVars == <<phase, target, wakeAt, ended>>

Loops == IntervalLoops \cup CronLoops
Origin(l) == IF l \in IntervalLoops THEN Start ELSE 0

\* Variant: a refresh counts for one interval, however long it takes.
RebasedOnce(t) == {IF t <= now THEN t + Interval ELSE t}

(* The first of t and the times whole intervals after it that is to come:  *)
(* while next_target <= now, and the occurrences that are skipped.         *)
Rebased(t) ==
    {u \in {t + k * Interval : k \in 0..(now + 1)} :
        u > now /\ (u = t \/ u - Interval <= now)}

(* The loop sleeps until the target, an interval loop with its jitter.     *)
Plan(l, t) ==
    /\ \E u \in Rebased(t), j \in 0..(IF l \in IntervalLoops THEN Jitter ELSE 0) :
            /\ target' = [target EXCEPT ![l] = u]
            /\ wakeAt' = [wakeAt EXCEPT ![l] = u + j]
    /\ phase' = [phase EXCEPT ![l] = "sleep"]

(* The sleep ends, late if the event loop is busy; a cron loop sleeps for  *)
(* its jitter.                                                             *)
Wakes(l) ==
    /\ phase[l] = "sleep" /\ now >= wakeAt[l]
    /\ IF l \in IntervalLoops
       THEN phase' = [phase EXCEPT ![l] = "refresh"] /\ UNCHANGED wakeAt
       ELSE /\ phase' = [phase EXCEPT ![l] = "jitter"]
            /\ \E j \in 0..Jitter : wakeAt' = [wakeAt EXCEPT ![l] = now + j]
    /\ UNCHANGED <<target, ended>>

JitterEnds(l) ==
    /\ phase[l] = "jitter" /\ now >= wakeAt[l]
    /\ phase' = [phase EXCEPT ![l] = "refresh"]
    /\ UNCHANGED <<target, wakeAt, ended>>

(* The refresh returned or raised, however long it took.                   *)
RefreshEnds(l) ==
    /\ phase[l] = "refresh"
    /\ ended' = [ended EXCEPT ![l] = now]
    /\ Plan(l, target[l])

LoopStep == \E l \in Loops : Wakes(l) \/ JitterEnds(l) \/ RefreshEnds(l)

(* The loops that run are created at Start; the first target of an         *)
(* interval loop is one interval away, that of a cron loop the next        *)
(* occurrence.                                                             *)
FirstTarget(l) ==
    CHOOSE t \in (Start + 1)..(Start + Interval) : (t - Origin(l)) % Interval = 0

ClockInit(running) ==
    /\ phase = [l \in Loops |-> IF l \in running THEN "sleep" ELSE "off"]
    /\ ended = [l \in Loops |-> Start]
    /\ target = [l \in Loops |-> FirstTarget(l)]
    /\ \E j \in [running \cap IntervalLoops -> 0..Jitter] :
            wakeAt = [l \in Loops |->
                        FirstTarget(l) + IF l \in DOMAIN j THEN j[l] ELSE 0]

ClockTypeOK ==
    /\ phase \in [Loops -> {"off", "sleep", "jitter", "refresh"}]
    /\ target \in [Loops -> Nat] /\ wakeAt \in [Loops -> Nat]
    /\ ended \in [Loops -> Nat]

(* A loop that sleeps will refresh at the first occurrence after its last  *)
(* refresh ended, at most the jitter late, and never between two of them.  *)
KeepsGrid(l) ==
    phase[l] = "sleep" =>
        /\ (target[l] - Origin(l)) % Interval = 0
        /\ ended[l] < target[l] /\ target[l] <= ended[l] + Interval
        /\ target[l] <= wakeAt[l] /\ wakeAt[l] <= target[l] + Jitter
=============================================================================
